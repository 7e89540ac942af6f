--------------------------- MODULE SymbolsProofs ---------------------------
(***************************************************************************)
(* Proofs about Symbols: references lead to the definitions they mean,     *)
(* and files with errors keep their symbols, for any contents, any include *)
(* graph and any number of runs.                                           *)
(***************************************************************************)
EXTENDS Symbols, WorkspaceProofs, FiniteSetTheorems, WellFoundedInduction, TLAPS

(***************************************************************************)
(* Sequences                                                               *)
(***************************************************************************)
LEMMA JoinOf ==
  ASSUME NEW S, NEW a \in Seq(S), NEW b \in Seq(S)
  PROVE  /\ a \o b \in Seq(S)
         /\ Len(a \o b) = Len(a) + Len(b)
         /\ \A k \in 1 .. Len(a) : (a \o b)[k] = a[k]
         /\ \A k \in 1 .. Len(b) : (a \o b)[Len(a) + k] = b[k]
BY SMTT(60)

LEMMA JoinElements ==
  ASSUME NEW S, NEW a \in Seq(S), NEW b \in Seq(S), NEW k \in 1 .. Len(a \o b)
  PROVE  \/ k \in 1 .. Len(a) /\ (a \o b)[k] = a[k]
         \/ \E i \in 1 .. Len(b) : (a \o b)[k] = b[i]
<1>1. Len(a) \in Nat /\ Len(b) \in Nat /\ k \in 1 .. Len(a) + Len(b)
  BY JoinOf
<1>2. CASE k <= Len(a)
  BY <1>1, <1>2, JoinOf
<1>3. CASE k > Len(a)
  <2>1. k - Len(a) \in 1 .. Len(b) /\ Len(a) + (k - Len(a)) = k
    BY <1>1, <1>3
  <2>2. (a \o b)[Len(a) + (k - Len(a))] = b[k - Len(a)]
    BY <2>1, JoinOf
  <2> QED
    BY <2>1, <2>2
<1> QED
  BY <1>1, <1>2, <1>3

LEMMA AppendOf ==
  ASSUME NEW S, NEW s \in Seq(S), NEW x \in S
  PROVE  /\ Append(s, x) \in Seq(S)
         /\ Len(Append(s, x)) = Len(s) + 1
         /\ \A k \in 1 .. Len(s) : k \in 1 .. Len(s) + 1 /\ Append(s, x)[k] = s[k]
         /\ Append(s, x)[Len(s) + 1] = x
         /\ \A k \in 1 .. Len(s) + 1 : k \in 1 .. Len(s) \/ k = Len(s) + 1
BY SMTT(60)

LEMMA TailOf ==
  ASSUME NEW S, NEW s \in Seq(S), s # <<>>
  PROVE  /\ Head(s) = s[1] /\ s[1] \in S /\ 1 \in 1 .. Len(s)
         /\ Tail(s) \in Seq(S)
         /\ Len(Tail(s)) = Len(s) - 1
         /\ \A k \in 1 .. Len(Tail(s)) : k + 1 \in 1 .. Len(s) /\ Tail(s)[k] = s[k + 1]
BY SMTT(60)

(***************************************************************************)
(* The k-th smallest number of a set                                       *)
(***************************************************************************)
UpToIn(T, i) == {j \in T : j <= i}

LEMMA UpToInType ==
  ASSUME NEW n \in Nat, NEW T \in SUBSET (1 .. n)
  PROVE  /\ IsFiniteSet(T) /\ Cardinality(T) \in Nat /\ Cardinality(T) <= n
         /\ \A i : /\ IsFiniteSet(UpToIn(T, i))
                   /\ Cardinality(UpToIn(T, i)) \in Nat
                   /\ Cardinality(UpToIn(T, i)) <= Cardinality(T)
<1>1. IsFiniteSet(1 .. n) /\ Cardinality(1 .. n) = n
  <2>1. IsFiniteSet(1 .. n) /\ Cardinality(1 .. n) = IF 1 > n THEN 0 ELSE n - 1 + 1
    BY FS_Interval
  <2> QED
    BY <2>1
<1>2. IsFiniteSet(T) /\ Cardinality(T) <= n
  BY <1>1, FS_Subset
<1>3. ASSUME NEW i
      PROVE  /\ IsFiniteSet(UpToIn(T, i))
             /\ Cardinality(UpToIn(T, i)) <= Cardinality(T)
  <2>1. UpToIn(T, i) \in SUBSET T
    BY DEF UpToIn
  <2> QED
    BY <1>2, <2>1, FS_Subset
<1> QED
  BY <1>2, <1>3, FS_CardinalityType

LEMMA NthOf ==
  ASSUME NEW n \in Nat, NEW T \in SUBSET (1 .. n), NEW k \in 1 .. Cardinality(T)
  PROVE  /\ Nth(T, k) \in T
         /\ Cardinality(UpToIn(T, Nth(T, k))) = k
<1> DEFINE c(i) == Cardinality(UpToIn(T, i))
           U == {i \in 1 .. n : c(i) >= k}
<1>1. /\ IsFiniteSet(T) /\ Cardinality(T) \in Nat /\ Cardinality(T) <= n
      /\ k \in Nat /\ k >= 1 /\ k <= Cardinality(T)
      /\ \A i : IsFiniteSet(UpToIn(T, i)) /\ c(i) \in Nat
  BY UpToInType
<1>0. \A j \in T : j \in Nat /\ 1 <= j /\ j <= n
  OBVIOUS
<1>2. n \in U
  <2>1. UpToIn(T, n) = T
    BY <1>0 DEF UpToIn
  <2>2. n \in 1 .. n
    BY <1>1
  <2> QED
    BY <1>1, <2>1, <2>2
<1>3. PICK m \in U : \A y \in U : ~(<<y, m>> \in OpToRel(<, Nat))
  <2>1. U \subseteq Nat /\ U # {}
    BY <1>2
  <2> HIDE DEF U
  <2> QED
    BY <2>1, WFMin, NatLessThanWellFounded
<1>4. m \in 1 .. n /\ m \in Nat /\ m >= 1 /\ c(m) >= k
  <2>1. m \in 1 .. n /\ c(m) >= k
    BY <1>3
  <2> HIDE DEF c
  <2> QED
    BY <2>1
<1>5. c(m - 1) < k
  <2>1. CASE m = 1
    <3>0. \A j \in T : ~(j <= m - 1)
      BY <1>0, <2>1
    <3>1. UpToIn(T, m - 1) = {}
      BY <3>0, Zenon DEF UpToIn
    <3> QED
      BY <1>1, <3>1, FS_EmptySet
  <2>2. CASE m > 1
    <3>1. m - 1 \in 1 .. n /\ <<m - 1, m>> \in OpToRel(<, Nat)
      BY <1>4, <2>2 DEF OpToRel
    <3>2. m - 1 \notin U
      BY <1>3, <3>1
    <3>3. c(m - 1) \in Nat /\ ~(c(m - 1) >= k)
      BY <1>1, <3>1, <3>2
    <3> HIDE DEF c
    <3> QED
      BY <1>1, <3>3
  <2> QED
    BY <1>4, <2>1, <2>2
<1>6. m \in T /\ c(m) = c(m - 1) + 1
  <2>1. CASE m \notin T
    <3>0. \A j \in T : j <= m <=> j <= m - 1
      BY <1>0, <1>4, <2>1
    <3>1. UpToIn(T, m) = UpToIn(T, m - 1)
      BY <3>0, Zenon DEF UpToIn
    <3>2. c(m) = c(m - 1) /\ c(m) \in Nat
      BY <1>1, <3>1
    <3> HIDE DEF c
    <3> QED
      BY <1>1, <1>4, <1>5, <3>2
  <2>2. CASE m \in T
    <3>1. /\ UpToIn(T, m) = UpToIn(T, m - 1) \cup {m}
          /\ m \notin UpToIn(T, m - 1)
      <4>1. ~(m <= m - 1) /\ \A j \in T : j <= m <=> (j <= m - 1 \/ j = m)
        BY <1>0, <1>4, <2>2
      <4> QED
        BY <2>2, <4>1, Zenon DEF UpToIn
    <3>2. c(m) = c(m - 1) + 1
      BY <1>1, <3>1, FS_AddElement
    <3> QED
      BY <2>2, <3>2
  <2> QED
    BY <2>1, <2>2
<1>7. c(m) = k
  <2>1. c(m) \in Nat /\ c(m - 1) \in Nat
    BY <1>1
  <2> HIDE DEF c
  <2> QED
    BY <1>1, <1>4, <1>5, <1>6, <2>1
<1>8. \E i \in T : Cardinality({j \in T : j <= i}) = k
  BY <1>6, <1>7 DEF UpToIn
<1> QED
  BY <1>8 DEF Nth, UpToIn

LEMMA NthUnique ==
  ASSUME NEW n \in Nat, NEW T \in SUBSET (1 .. n), NEW a \in T, NEW b \in T,
         Cardinality(UpToIn(T, a)) = Cardinality(UpToIn(T, b)), a <= b
  PROVE  a = b
<1>1. a \in Nat /\ b \in Nat /\ \A j \in T : j \in Nat
  OBVIOUS
<1>2. UpToIn(T, a) \in SUBSET UpToIn(T, b)
  <2>1. \A j \in T : j <= a => j <= b
    BY <1>1
  <2> QED
    BY <2>1, Zenon DEF UpToIn
<1>3. UpToIn(T, a) = UpToIn(T, b)
  BY <1>2, UpToInType, FS_Subset
<1>4. b \in UpToIn(T, b)
  BY <1>1 DEF UpToIn
<1> QED
  BY <1>1, <1>3, <1>4 DEF UpToIn

LEMMA KeptOf ==
  ASSUME NEW S, NEW s \in Seq(S), NEW T \in SUBSET (1 .. Len(s))
  PROVE  /\ Kept(s, T) \in Seq(S)
         /\ \A k \in 1 .. Len(Kept(s, T)) : \E i \in T : Kept(s, T)[k] = s[i]
         /\ \A i \in T : \E k \in 1 .. Len(Kept(s, T)) : Kept(s, T)[k] = s[i]
<1> DEFINE n == Len(s)
           c == Cardinality(T)
<1>1. n \in Nat /\ c \in Nat
  BY UpToInType
<1>2. \A k \in 1 .. c : Nth(T, k) \in T /\ Cardinality(UpToIn(T, Nth(T, k))) = k
  BY <1>1, NthOf
<1>3. \A i \in 1 .. n : s[i] \in S
  OBVIOUS
<1>4. Kept(s, T) = [k \in 1 .. c |-> s[Nth(T, k)]]
  BY DEF Kept
<1> HIDE DEF n, c
<1>5. Kept(s, T) \in Seq(S) /\ Len(Kept(s, T)) = c
  <2>1. \A k \in 1 .. c : s[Nth(T, k)] \in S
    BY <1>2, <1>3 DEF n
  <2> QED
    BY <1>1, <1>4, <2>1
<1>6. ASSUME NEW i \in T
      PROVE  \E k \in 1 .. c : Kept(s, T)[k] = s[i]
  <2> DEFINE k == Cardinality(UpToIn(T, i))
  <2>1. k \in 1 .. c
    <3>1. i \in UpToIn(T, i)
      BY DEF UpToIn
    <3>2. k \in Nat /\ k <= c /\ IsFiniteSet(UpToIn(T, i))
      BY UpToInType DEF c
    <3>3. k # 0
      BY <3>1, <3>2, FS_EmptySet
    <3> HIDE DEF k
    <3> QED
      BY <1>1, <3>2, <3>3
  <2>2. Nth(T, k) \in T /\ Cardinality(UpToIn(T, Nth(T, k))) = Cardinality(UpToIn(T, i))
    BY <1>2, <2>1
  <2> HIDE DEF k
  <2>3. Nth(T, k) <= i \/ i <= Nth(T, k)
    <3>1. \A j \in T : j \in Nat
      BY <1>1 DEF n
    <3>2. Nth(T, k) \in Nat /\ i \in Nat
      BY <2>2, <3>1, Zenon
    <3> QED
      BY <3>2
  <2>4. Nth(T, k) = i
    BY <1>1, <2>2, <2>3, NthUnique DEF n
  <2> QED
    BY <1>4, <2>1, <2>4
<1>7. \A k \in 1 .. c : \E i \in T : Kept(s, T)[k] = s[i]
  BY <1>2, <1>4
<1> QED
  BY <1>5, <1>6, <1>7

LEMMA ReverseOf ==
  ASSUME NEW S, NEW s \in Seq(S)
  PROVE  /\ Reverse(s) \in Seq(S)
         /\ Len(Reverse(s)) = Len(s)
         /\ \A k \in 1 .. Len(s) : Len(s) - k + 1 \in 1 .. Len(s)
                                   /\ Reverse(s)[k] = s[Len(s) - k + 1]
         /\ \A k \in 1 .. Len(s) : Len(s) - k + 1 \in 1 .. Len(s)
                                   /\ Reverse(s)[Len(s) - k + 1] = s[k]
<1>1. \A k \in 1 .. Len(s) : (Len(s) - k) + 1 \in 1 .. Len(s) /\ s[k] \in S
  OBVIOUS
<1>2. Reverse(s) = [k \in 1 .. Len(s) |-> s[(Len(s) - k) + 1]]
  BY DEF Reverse
<1>3. Reverse(s) \in Seq(S) /\ Len(Reverse(s)) = Len(s)
  BY <1>1, <1>2
<1>4. \A k \in 1 .. Len(s) : (Len(s) - ((Len(s) - k) + 1)) + 1 = k
  OBVIOUS
<1> QED
  BY <1>1, <1>2, <1>3, <1>4

-----------------------------------------------------------------------------
(***************************************************************************)
(* Types, and where the assembler is: every place it has yet to process is *)
(* an item of a file that was read.                                        *)
(***************************************************************************)
AsmStates ==
    [macros : Seq(Places), labels : [Names -> Places \cup {None}],
     refs : Seq(MacroRef \cup LabelRef),
     last : MacroRef \cup LabelRef \cup {None},
     scope : Scopes \cup {None}, node : Places \cup {None},
     enum : BOOLEAN, included : SUBSET Files]

IsPlace(p) ==
    /\ files[p[1]] # NotRead
    /\ p[2] + 1 \in 1 .. Len(Items[files[p[1]].text])

Located ==
    /\ \A k \in 1 .. Len(todo) : IsPlace(todo[k])
    /\ pc \in {"idle", "next", "open"} => todo = <<>>
    /\ pc = "read" => reading \in Files /\ files[reading] = NotRead
    /\ pc = "open" => entry \in Files

\* What a step never does to the files: forget one or change its content
TextsStay ==
    \A f \in Files : files[f] # NotRead =>
      files'[f] # NotRead /\ files'[f].text = files[f].text

LEMMA ItemKinds ==
  ASSUME NEW it \in Item
  PROVE  /\ it.op \in Definitions =>
              it.name \in Names /\ it.zero \in BOOLEAN /\ it.op \in {"label", "macro"}
         /\ it.op \in References => it.name \in Names
         /\ it.op = "include" => it.file \in Files
BY DEF Item, Definitions, References

LEMMA NameParts ==
  ASSUME NEW n \in Names
  PROVE  n.scope \in Scopes
BY DEF Names

LEMMA FileOf ==
  ASSUME TypeOK, NEW f \in Files, files[f] # NotRead
  PROVE  /\ files[f] \in FileStates
         /\ files[f].text \in Texts
         /\ files[f].page \in {"variable", "device_port"}
         /\ files[f].last \in Nat
         /\ files[f].err \in BOOLEAN
         /\ Items[files[f].text] \in Seq(Item)
<1>1. files[f] \in FileStates
  BY DEF TypeOK
<1>2. /\ files[f].text \in Texts
      /\ files[f].page \in {"variable", "device_port"}
      /\ files[f].last \in Nat
      /\ files[f].err \in BOOLEAN
  BY <1>1 DEF FileStates
<1> QED
  BY <1>1, <1>2, SymbolsAssumption

LEMMA PlaceOf ==
  ASSUME TypeOK, NEW p \in Places, IsPlace(p)
  PROVE  /\ p[1] \in Files /\ p[2] \in Nat /\ files[p[1]] # NotRead
         /\ ItemAt(p) \in Item
<1>1. p[1] \in Files /\ p[2] \in Nat
  BY DEF Places
<1>2. Items[files[p[1]].text] \in Seq(Item)
  BY <1>1, FileOf DEF IsPlace
<1> QED
  BY <1>1, <1>2 DEF IsPlace, ItemAt

LEMMA PlaceStays ==
  ASSUME TextsStay, NEW p \in Places, IsPlace(p)
  PROVE  IsPlace(p)'
BY DEF TextsStay, IsPlace, Places

\* The item in hand, and what is behind it
LEMMA HereOf ==
  ASSUME TypeOK, Located, todo # <<>>
  PROVE  /\ Here \in Places /\ IsPlace(Here)
         /\ Here[1] \in Files /\ Here[2] \in Nat /\ files[Here[1]] # NotRead
         /\ ItemAt(Here) \in Item
         /\ Tail(todo) \in Seq(Places)
         /\ \A k \in 1 .. Len(Tail(todo)) : IsPlace(Tail(todo)[k])
<1>1. todo \in Seq(Places)
  BY DEF TypeOK
<1>2. /\ todo[1] \in Places /\ 1 \in 1 .. Len(todo)
      /\ Tail(todo) \in Seq(Places)
      /\ \A k \in 1 .. Len(Tail(todo)) : k + 1 \in 1 .. Len(todo) /\ Tail(todo)[k] = todo[k + 1]
  BY <1>1, TailOf
<1>3. Here \in Places /\ IsPlace(Here)
  BY <1>2 DEF Here, Located
<1>4. \A k \in 1 .. Len(Tail(todo)) : IsPlace(Tail(todo)[k])
  BY <1>2 DEF Located
<1> QED
  BY <1>2, <1>3, <1>4, PlaceOf

\* A file is read, and a file that was read changes otherwise than in its text.
LEMMA FileRead ==
  ASSUME TypeOK, NEW f \in Files, files[f] = NotRead, NEW t \in Texts,
         files' = [files EXCEPT ![f] = NewFile(t)]
  PROVE  /\ files' \in [Files -> FileStates \cup {NotRead}]
         /\ TextsStay
         /\ files'[f] # NotRead /\ files'[f].text = t
<1>1. NewFile(t) \in FileStates /\ NewFile(t).text = t
  BY DEF NewFile, FileStates
<1>2. NewFile(t) # NotRead
  BY <1>1, SymbolsAssumption
<1>3. files \in [Files -> FileStates \cup {NotRead}]
  BY DEF TypeOK
<1> QED
  BY <1>1, <1>2, <1>3 DEF TextsStay

LEMMA FileChanged ==
  ASSUME TypeOK, NEW f \in Files, files[f] # NotRead, NEW g \in FileStates,
         g.text = files[f].text, files' = [files EXCEPT ![f] = g]
  PROVE  /\ files' \in [Files -> FileStates \cup {NotRead}]
         /\ TextsStay
<1>1. g # NotRead
  BY SymbolsAssumption
<1>2. files \in [Files -> FileStates \cup {NotRead}]
  BY DEF TypeOK
<1> QED
  BY <1>1, <1>2 DEF TextsStay

LEMMA PlacesInOf ==
  ASSUME NEW f \in Files, NEW t \in Texts
  PROVE  /\ PlacesIn(f, t) \in Seq(Places)
         /\ \A k \in 1 .. Len(PlacesIn(f, t)) :
              /\ PlacesIn(f, t)[k] = <<f, k - 1>>
              /\ k - 1 + 1 \in 1 .. Len(Items[t])
<1>1. Items[t] \in Seq(Item)
  BY SymbolsAssumption
<1>2. \A k \in 1 .. Len(Items[t]) : <<f, k - 1>> \in Places /\ k - 1 + 1 \in 1 .. Len(Items[t])
  BY <1>1 DEF Places
<1>3. /\ PlacesIn(f, t) \in Seq(Places)
      /\ Len(PlacesIn(f, t)) = Len(Items[t])
      /\ \A k \in 1 .. Len(Items[t]) : PlacesIn(f, t)[k] = <<f, k - 1>>
  BY <1>1, <1>2 DEF PlacesIn
<1> QED
  BY <1>2, <1>3

\* The assembler is at the first item of a file it has opened.
LEMMA OpenedPlaces ==
  ASSUME NEW f \in Files, NEW t \in Texts, NEW rest \in Seq(Places),
         todo' = PlacesIn(f, t) \o rest, pc' = "asm",
         files'[f] # NotRead, files'[f].text = t,
         \A k \in 1 .. Len(rest) : IsPlace(rest[k])'
  PROVE  todo' \in Seq(Places) /\ Located'
<1> DEFINE a == PlacesIn(f, t)
<1>1. /\ a \in Seq(Places)
      /\ \A k \in 1 .. Len(a) : a[k] = <<f, k - 1>> /\ k - 1 + 1 \in 1 .. Len(Items[t])
  BY PlacesInOf
<1>2. \A k \in 1 .. Len(a) : IsPlace(a[k])'
  BY <1>1 DEF IsPlace
<1> HIDE DEF a
<1>3. ASSUME NEW k \in 1 .. Len(a \o rest)
      PROVE  IsPlace((a \o rest)[k])'
  <2>1. CASE k \in 1 .. Len(a) /\ (a \o rest)[k] = a[k]
    BY <1>2, <2>1
  <2>2. CASE \E i \in 1 .. Len(rest) : (a \o rest)[k] = rest[i]
    BY <2>2
  <2> QED
    BY <1>1, <2>1, <2>2, JoinElements
<1>4. todo' \in Seq(Places)
  BY <1>1, JoinOf DEF a
<1>5. todo' = a \o rest
  BY DEF a
<1>6. \A k \in 1 .. Len(todo') : IsPlace(todo[k])'
  BY <1>3, <1>5 DEF IsPlace
<1> QED
  BY <1>4, <1>6 DEF Located

LEMMA SymbolsInitType == Init => TypeOK /\ Located
<1> SUFFICES ASSUME Init PROVE TypeOK /\ Located
  OBVIOUS
<1>1. docs \in Docs
  BY DEF Init, NoDocs, Docs
<1>2. EmptyContext \in Contexts
  <2>1. \A f \in Files : <<>> \in Seq(Def) /\ <<>> \in Seq(Ref)
    OBVIOUS
  <2> QED
    BY <2>1 DEF EmptyContext, Contexts
<1>3. files \in [Files -> FileStates \cup {NotRead}]
  BY DEF Init, NothingRead
<1>4. NewAsm \in AsmStates
  <2>1. <<>> \in Seq(Places) /\ <<>> \in Seq(MacroRef \cup LabelRef)
    OBVIOUS
  <2> QED
    BY <2>1 DEF NewAsm, AsmStates
<1>5. /\ queue \in Seq(Files)
      /\ todo \in Seq(Places)
  BY DEF Init
<1>6. /\ pc = "idle" /\ entry = None /\ reading = None /\ program = 0
      /\ runs = 0 /\ updates = 0
      /\ opens \in [Files -> Nat]
      /\ owed \in [Files -> SUBSET (Names \X Nat)]
  BY DEF Init
<1>7. runs \in 0 .. MaxRuns /\ updates \in 0 .. MaxUpdates
  BY <1>6, SymbolsAssumption
<1>8. Located
  BY DEF Init, Located
<1> QED
  BY <1>1, <1>2, <1>3, <1>4, <1>5, <1>6, <1>7, <1>8 DEF Init, TypeOK, AsmStates

OpenFinite == IsFiniteSet(OpenDocs(docs))

Base == TypeOK /\ Located /\ OpenFinite

LEMMA UpdateBase ==
  ASSUME Base, NEW m \in Notifications, Update(m)
  PROVE  Base'
<1>1. docs \in Docs /\ docs' = WorkspaceUpdate(docs, m)
  BY DEF Base, TypeOK, Update
<1>2. docs' \in Docs
  BY <1>1, UpdateType
<1>3. OpenFinite'
  <2>1. OpenDocs(docs') \subseteq OpenDocs(docs) \cup {m.uri}
    BY <1>1, UpdateOpens
  <2>2. IsFiniteSet(OpenDocs(docs) \cup {m.uri})
    BY FS_AddElement DEF Base, OpenFinite
  <2> QED
    BY <2>1, <2>2, FS_Subset DEF OpenFinite
<1>4. updates' \in 0 .. MaxUpdates
  BY SymbolsAssumption DEF Update, Base, TypeOK
<1>5. UNCHANGED <<prev, cur, files, queue, pc, entry, todo, reading, asm, runs,
                  program, opens, owed>>
  BY DEF Update
<1>6. TypeOK'
  BY <1>2, <1>4, <1>5 DEF Base, TypeOK
<1>7. Located'
  BY <1>5 DEF Base, Located, IsPlace
<1> QED
  BY <1>3, <1>6, <1>7 DEF Base

LEMMA SeqsOf ==
  ASSUME NEW S, IsFiniteSet(S), NEW q \in SetToSeqs(S)
  PROVE  q \in Seq(S)
<1>1. Cardinality(S) \in Nat
  BY FS_CardinalityType
<1>2. q \in [1 .. Cardinality(S) -> S]
  BY DEF SetToSeqs
<1> QED
  BY <1>1, <1>2

LEMMA StartBase ==
  ASSUME Base, StartRun
  PROVE  Base'
<1>1. OpenDocs(docs) \subseteq Files
  BY DEF OpenDocs
<1>2. queue' \in Seq(Files)
  <2>1. queue' \in Seq(OpenDocs(docs))
    BY SeqsOf DEF Base, OpenFinite, StartRun
  <2> QED
    BY <1>1, <2>1
<1>3. prev' \in Contexts /\ cur' \in Contexts
  <2>1. prev' = cur /\ cur' = [EmptyContext EXCEPT !.nodes = OpenDocs(docs)]
    BY DEF StartRun
  <2>2. \A f \in Files : <<>> \in Seq(Def) /\ <<>> \in Seq(Ref)
    OBVIOUS
  <2>3. cur' = [nodes |-> OpenDocs(docs), defs |-> [f \in Files |-> <<>>],
                refs |-> [f \in Files |-> <<>>]]
    BY <2>1 DEF EmptyContext
  <2>4. /\ [f \in Files |-> <<>>] \in [Files -> Seq(Def)]
        /\ [f \in Files |-> <<>>] \in [Files -> Seq(Ref)]
    BY <2>2
  <2>5. PICK d \in [Files -> Seq(Def)], r \in [Files -> Seq(Ref)] :
               cur' = [nodes |-> OpenDocs(docs), defs |-> d, refs |-> r]
    BY <2>3, <2>4
  <2>6. cur' \in Contexts
    BY <1>1, <2>5 DEF Contexts
  <2> QED
    BY <2>1, <2>6 DEF Base, TypeOK
<1>4. files' \in [Files -> FileStates \cup {NotRead}]
  <2>1. files' = [f \in Files |-> NotRead]
    BY DEF StartRun, NothingRead
  <2> QED
    BY <2>1
<1>5. runs' \in 0 .. MaxRuns
  BY SymbolsAssumption DEF StartRun, Base, TypeOK
<1>6. program' = 0 /\ opens' \in [Files -> Nat] /\ pc' = "next"
  BY DEF StartRun
<1>7. UNCHANGED <<docs, entry, todo, reading, asm, updates, owed>>
  BY DEF StartRun
<1>8. TypeOK'
  BY <1>2, <1>3, <1>4, <1>5, <1>6, <1>7 DEF Base, TypeOK
<1>9. Located' /\ OpenFinite'
  BY <1>6, <1>7 DEF Base, StartRun, Located, OpenFinite
<1> QED
  BY <1>8, <1>9 DEF Base

LEMMA SkipBase ==
  ASSUME Base, SkipEntry
  PROVE  Base'
<1>1. queue' \in Seq(Files)
  BY DEF Base, TypeOK, SkipEntry
<1>2. UNCHANGED <<docs, prev, cur, files, pc, entry, todo, reading, asm, runs,
                  updates, program, opens, owed>>
  BY DEF SkipEntry
<1> QED
  BY <1>1, <1>2, ZenonT(60) DEF Base, TypeOK, Located, IsPlace, OpenFinite

LEMMA NewAsmType == NewAsm \in AsmStates
<1>1. <<>> \in Seq(Places) /\ <<>> \in Seq(MacroRef \cup LabelRef)
  OBVIOUS
<1> QED
  BY <1>1 DEF NewAsm, AsmStates

LEMMA CompileBase ==
  ASSUME Base, CompileEntry
  PROVE  Base'
<1>1. queue \in Seq(Files) /\ queue # <<>>
  BY DEF Base, TypeOK, CompileEntry
<1>2. queue' \in Seq(Files) /\ entry' \in Files
  BY <1>1 DEF CompileEntry
<1>3. todo' = <<>> /\ asm' \in AsmStates /\ program' \in Nat /\ pc' = "open"
  BY NewAsmType DEF Base, TypeOK, CompileEntry
<1>4. UNCHANGED <<docs, prev, cur, files, reading, runs, updates, opens, owed>>
  BY DEF CompileEntry
<1>5. TypeOK'
  BY <1>2, <1>3, <1>4 DEF Base, TypeOK, AsmStates
<1>6. Located' /\ OpenFinite'
  BY <1>2, <1>3, <1>4 DEF Base, Located, OpenFinite
<1> QED
  BY <1>5, <1>6 DEF Base

\* What opening a file does to the context
LEMMA OpenedContext ==
  ASSUME TypeOK, NEW f \in Files, NEW t \in Texts, NEW rest, Opened(f, t, rest)
  PROVE  /\ cur' \in Contexts
         /\ cur'.defs = cur.defs /\ cur'.refs = cur.refs
         /\ cur'.nodes = cur.nodes \cup {f}
         /\ opens' \in [Files -> Nat]
<1>1. cur' = [cur EXCEPT !.nodes = @ \cup {f}] /\ cur \in Contexts
  BY DEF Opened, TypeOK
<1>2. opens' = [opens EXCEPT ![f] = @ + 1] /\ opens \in [Files -> Nat]
  BY DEF Opened, TypeOK
<1>3. cur' \in Contexts /\ cur'.nodes = cur.nodes \cup {f}
      /\ cur'.defs = cur.defs /\ cur'.refs = cur.refs
  BY <1>1 DEF Contexts
<1> QED
  BY <1>2, <1>3

LEMMA IncludedType ==
  ASSUME NEW a \in AsmStates, NEW f \in Files
  PROVE  [a EXCEPT !.included = @ \cup {f}] \in AsmStates
BY DEF AsmStates

LEMMA FopenBase ==
  ASSUME Base, NEW f \in Files, pc \in {"open", "asm"}, Fopen(f, Rest)
  PROVE  Base' /\ TextsStay
<1>1. TypeOK /\ Located /\ OpenFinite
  BY DEF Base
<1>2. Rest \in Seq(Places) /\ \A k \in 1 .. Len(Rest) : IsPlace(Rest[k])
  <2>1. CASE todo = <<>>
    BY <2>1 DEF Rest
  <2>2. CASE todo # <<>>
    BY <1>1, <2>2, HereOf DEF Rest
  <2> QED
    BY <2>1, <2>2
<1>3. asm' \in AsmStates
  <2>1. asm \in AsmStates
    BY <1>1 DEF TypeOK, AsmStates
  <2>2. asm' = [asm EXCEPT !.included = @ \cup {f}]
    BY DEF Fopen
  <2> QED
    BY <2>1, <2>2, IncludedType
<1>4. UNCHANGED <<docs, prev, queue, entry, runs, updates, program, owed>>
  BY DEF Fopen
<1>5. ASSUME NEW t \in Texts, Opened(f, t, Rest), UNCHANGED reading,
             files' \in [Files -> FileStates \cup {NotRead}], TextsStay,
             files'[f] # NotRead, files'[f].text = t
      PROVE  Base'
  <2>1. todo' = PlacesIn(f, t) \o Rest /\ pc' = "asm"
    BY <1>5 DEF Opened
  <2>2. PICK rest \in Seq(Places) : rest = Rest
    BY <1>2
  <2>3. \A k \in 1 .. Len(rest) : IsPlace(rest[k])'
    <3>1. ASSUME NEW k \in 1 .. Len(rest)
          PROVE  rest[k] \in Places /\ IsPlace(rest[k])
      BY <1>2, <2>2
    <3> QED
      BY <1>5, <3>1, PlaceStays
  <2>4. todo' \in Seq(Places) /\ Located'
    BY <1>5, <2>1, <2>2, <2>3, OpenedPlaces
  <2>5. cur' \in Contexts /\ opens' \in [Files -> Nat]
    BY <1>1, <1>5, OpenedContext
  <2>6. TypeOK'
    BY <1>1, <1>3, <1>4, <1>5, <2>1, <2>4, <2>5 DEF TypeOK, AsmStates
  <2>7. OpenFinite'
    BY <1>1, <1>4 DEF OpenFinite
  <2> QED
    BY <2>4, <2>6, <2>7 DEF Base
<1>6. CASE /\ files[f] # NotRead
           /\ Opened(f, files[f].text, Rest)
           /\ UNCHANGED <<files, reading>>
  <2>1. files[f].text \in Texts
    BY <1>1, <1>6, FileOf
  <2>2. files' \in [Files -> FileStates \cup {NotRead}] /\ TextsStay
    BY <1>1, <1>6 DEF TypeOK, TextsStay
  <2> QED
    BY <1>5, <1>6, <2>1, <2>2
<1>7. CASE /\ files[f] = NotRead
           /\ docs[f] # Closed
           /\ files' = [files EXCEPT ![f] = NewFile(docs[f])]
           /\ Opened(f, docs[f], Rest)
           /\ UNCHANGED reading
  <2>1. docs[f] \in Texts
    BY <1>1, <1>7 DEF TypeOK, Docs
  <2> QED
    BY <1>1, <1>5, <1>7, <2>1, FileRead
<1>8. CASE /\ files[f] = NotRead
           /\ docs[f] = Closed
           /\ reading' = f
           /\ pc' = "read"
           /\ UNCHANGED <<cur, files, todo, opens>>
  <2>1. TypeOK'
    BY <1>1, <1>3, <1>4, <1>8 DEF TypeOK, AsmStates
  <2>2. Located' /\ OpenFinite' /\ TextsStay
    BY <1>1, <1>4, <1>8 DEF Located, OpenFinite, TextsStay, IsPlace
  <2> QED
    BY <2>1, <2>2 DEF Base
<1> QED
  BY <1>6, <1>7, <1>8 DEF Fopen

LEMMA IncludeBase ==
  ASSUME Base, OpenEntry \/ Include
  PROVE  Base' /\ TextsStay
<1>1. CASE OpenEntry
  <2>1. pc = "open" /\ entry \in Files /\ Fopen(entry, Rest)
    BY <1>1 DEF OpenEntry, Base, Located
  <2> QED
    BY <2>1, FopenBase
<1>2. CASE Include
  <2>1. /\ pc = "asm" /\ todo # <<>> /\ ItemAt(Here).op = "include"
        /\ Fopen(ItemAt(Here).file, Rest)
    BY <1>2 DEF Include, At
  <2>2. ItemAt(Here).file \in Files
    BY <2>1, HereOf, ItemKinds DEF Base
  <2> QED
    BY <2>1, <2>2, FopenBase
<1> QED
  BY <1>1, <1>2

\* The assembler goes on to the next item.
LEMMA TailLocated ==
  ASSUME Base, todo # <<>>, todo' = Tail(todo), TextsStay, pc = "asm", pc' = pc
  PROVE  todo' \in Seq(Places) /\ Located'
<1>1. /\ Tail(todo) \in Seq(Places)
      /\ \A k \in 1 .. Len(Tail(todo)) : IsPlace(Tail(todo)[k])
  BY HereOf DEF Base
<1>2. PICK s \in Seq(Places) : s = Tail(todo)
  BY <1>1
<1>3. ASSUME NEW k \in 1 .. Len(s)
      PROVE  IsPlace(s[k])'
  <2>1. s[k] \in Places /\ IsPlace(s[k])
    BY <1>1, <1>2
  <2> QED
    BY <2>1, PlaceStays
<1>4. \A k \in 1 .. Len(todo') : IsPlace(todo[k])'
  BY <1>2, <1>3 DEF IsPlace
<1> QED
  BY <1>1, <1>4 DEF Located

LEMMA AgainBase ==
  ASSUME Base, IncludeAgain
  PROVE  Base' /\ TextsStay
<1>1. /\ pc = "asm" /\ todo # <<>> /\ todo' = Tail(todo)
      /\ UNCHANGED <<docs, prev, cur, files, queue, pc, entry, reading, asm, runs,
                     updates, program, opens, owed>>
  BY DEF IncludeAgain, At
<1>2. TextsStay
  BY <1>1 DEF TextsStay
<1>3. todo' \in Seq(Places) /\ Located'
  BY <1>1, <1>2, TailLocated
<1>4. TypeOK'
  BY <1>1, <1>3 DEF Base, TypeOK
<1> QED
  BY <1>1, <1>2, <1>3, <1>4 DEF Base, OpenFinite

LEMMA ReadBase ==
  ASSUME Base, ReadFile
  PROVE  Base' /\ TextsStay
<1> DEFINE f == reading
           t == Disk[reading]
<1>1. TypeOK /\ Located /\ OpenFinite /\ pc = "read" /\ f \in Files /\ files[f] = NotRead
  BY DEF Base, ReadFile, Located
<1>2. t \in Texts
  BY <1>1, SymbolsAssumption
<1>3. /\ files' = [files EXCEPT ![f] = NewFile(t)]
      /\ Opened(f, t, Rest)
      /\ reading' = None
      /\ UNCHANGED <<docs, prev, queue, entry, asm, runs, updates, program, owed>>
  BY DEF ReadFile
<1> HIDE DEF t
<1>4. /\ files' \in [Files -> FileStates \cup {NotRead}]
      /\ TextsStay
      /\ files'[f] # NotRead /\ files'[f].text = t
  BY <1>1, <1>2, <1>3, FileRead
<1>5. Rest \in Seq(Places) /\ \A k \in 1 .. Len(Rest) : IsPlace(Rest[k])
  <2>1. CASE todo = <<>>
    BY <2>1 DEF Rest
  <2>2. CASE todo # <<>>
    BY <1>1, <2>2, HereOf DEF Rest
  <2> QED
    BY <2>1, <2>2
<1>6. todo' = PlacesIn(f, t) \o Rest /\ pc' = "asm"
  BY <1>3 DEF Opened
<1>7. PICK rest \in Seq(Places), g \in Files, u \in Texts : rest = Rest /\ g = f /\ u = t
  BY <1>1, <1>2, <1>5
<1>8. \A k \in 1 .. Len(rest) : IsPlace(rest[k])'
  <2>1. ASSUME NEW k \in 1 .. Len(rest)
        PROVE  rest[k] \in Places /\ IsPlace(rest[k])
    BY <1>5, <1>7
  <2> QED
    BY <1>4, <2>1, PlaceStays
<1>9. todo' \in Seq(Places) /\ Located'
  <2>1. /\ todo' = PlacesIn(g, u) \o rest
        /\ files'[g] # NotRead /\ files'[g].text = u
        /\ g \in Files /\ u \in Texts
    BY <1>1, <1>2, <1>4, <1>6, <1>7
  <2> QED
    BY <1>6, <1>8, <2>1, OpenedPlaces
<1>10. cur' \in Contexts /\ opens' \in [Files -> Nat]
  BY <1>1, <1>2, <1>3, OpenedContext
<1>11. TypeOK'
  BY <1>1, <1>3, <1>4, <1>6, <1>9, <1>10 DEF TypeOK
<1> QED
  BY <1>1, <1>3, <1>4, <1>9, <1>11 DEF Base, OpenFinite

LEMMA ErrorType ==
  ASSUME NEW g \in FileStates
  PROVE  /\ [g EXCEPT !.err = TRUE] \in FileStates
         /\ [g EXCEPT !.err = TRUE].text = g.text
         /\ [g EXCEPT !.err = TRUE].last = g.last
         /\ [g EXCEPT !.err = TRUE].err = TRUE
BY DEF FileStates

LEMMA MarkedBase ==
  ASSUME Base, todo # <<>>, files' = [files EXCEPT ![Here[1]].err = TRUE]
  PROVE  files' \in [Files -> FileStates \cup {NotRead}] /\ TextsStay
<1> DEFINE f == Here[1]
           g == [files[f] EXCEPT !.err = TRUE]
<1>1. f \in Files /\ files[f] # NotRead /\ TypeOK
  BY HereOf DEF Base
<1>2. files[f] \in FileStates
  BY <1>1, FileOf
<1>3. files' = [files EXCEPT ![f] = g]
  OBVIOUS
<1>4. g \in FileStates /\ g.text = files[f].text
  BY <1>2, ErrorType
<1> HIDE DEF f, g
<1> QED
  BY <1>1, <1>3, <1>4, FileChanged

LEMMA FailureBase ==
  ASSUME Base, ReadFailure
  PROVE  Base' /\ TextsStay
<1>1. files' \in [Files -> FileStates \cup {NotRead}] /\ TextsStay
  <2>1. CASE todo = <<>>
    BY <2>1 DEF ReadFailure, Base, TypeOK, TextsStay
  <2>2. CASE todo # <<>>
    BY <2>2, MarkedBase DEF ReadFailure
  <2> QED
    BY <2>1, <2>2
<1>2. /\ reading' = None /\ todo' = <<>> /\ pc' = "asm"
      /\ UNCHANGED <<docs, prev, cur, queue, entry, asm, runs, updates, program,
                     opens, owed>>
  BY DEF ReadFailure
<1>3. todo' \in Seq(Places)
  BY <1>2
<1>4. TypeOK'
  BY <1>1, <1>2, <1>3 DEF Base, TypeOK
<1>5. Located' /\ OpenFinite'
  BY <1>2 DEF Base, Located, OpenFinite
<1> QED
  BY <1>1, <1>4, <1>5 DEF Base

LEMMA ReportBase ==
  ASSUME Base, ReportError \/ ChessReport
  PROVE  Base' /\ TextsStay
<1>1. /\ pc = "asm" /\ todo # <<>>
      /\ files' = [files EXCEPT ![Here[1]].err = TRUE]
      /\ todo' = <<>> \/ todo' = Tail(todo)
      /\ UNCHANGED <<docs, prev, cur, queue, pc, entry, reading, asm, runs, updates,
                     program, opens, owed>>
  BY DEF ReportError, ChessReport, At, MarkError
<1>2. files' \in [Files -> FileStates \cup {NotRead}] /\ TextsStay
  BY <1>1, MarkedBase
<1>3. todo' \in Seq(Places) /\ Located'
  <2>1. CASE todo' = <<>>
    BY <1>1, <2>1 DEF Located
  <2>2. CASE todo' = Tail(todo)
    BY <1>1, <1>2, <2>2, TailLocated
  <2> QED
    BY <1>1, <2>1, <2>2
<1>4. TypeOK'
  BY <1>1, <1>2, <1>3 DEF Base, TypeOK
<1> QED
  BY <1>1, <1>2, <1>3, <1>4 DEF Base, OpenFinite

LEMMA LastType ==
  ASSUME NEW g \in FileStates, NEW b \in Nat
  PROVE  /\ [g EXCEPT !.last = LaterByte(@, b)] \in FileStates
         /\ [g EXCEPT !.last = LaterByte(@, b)].text = g.text
         /\ [g EXCEPT !.last = LaterByte(@, b)].last >= g.last
         /\ [g EXCEPT !.last = LaterByte(@, b)].err = g.err
<1>1. g.last \in Nat
  BY DEF FileStates
<1>2. LaterByte(g.last, b) \in Nat /\ LaterByte(g.last, b) >= g.last
  BY <1>1 DEF LaterByte
<1> QED
  BY <1>2 DEF FileStates

LEMMA ReachedBase ==
  ASSUME Base, todo # <<>>, files' = [files EXCEPT ![Here[1]].last = LaterByte(@, Here[2])]
  PROVE  files' \in [Files -> FileStates \cup {NotRead}] /\ TextsStay
<1> DEFINE f == Here[1]
           g == [files[f] EXCEPT !.last = LaterByte(@, Here[2])]
<1>1. f \in Files /\ files[f] # NotRead /\ TypeOK /\ Here[2] \in Nat
  BY HereOf DEF Base
<1>2. files[f] \in FileStates
  BY <1>1, FileOf
<1>3. files' = [files EXCEPT ![f] = g]
  OBVIOUS
<1>4. g \in FileStates /\ g.text = files[f].text
  BY <1>1, <1>2, LastType
<1> HIDE DEF f, g
<1> QED
  BY <1>1, <1>3, <1>4, FileChanged

\* What the definition in hand adds: def, as node of file f
Adds(f, node, def) ==
    /\ f \in Files /\ node \in Places
    /\ def.name = ItemAt(Here).name
    /\ def.by = program
    /\ def.byte = Here[2]
    /\ cur' \in Contexts
    /\ cur'.nodes = cur.nodes
    /\ cur'.refs = cur.refs
    /\ cur'.defs = [cur.defs EXCEPT ![f] = Append(cur.defs[f], def)]
    /\ asm' \in AsmStates
    /\ asm'.refs = asm.refs
    /\ asm'.macros = asm.macros \/ asm'.macros = Append(asm.macros, node)
    /\ \/ asm'.labels = asm.labels
       \/ asm'.labels = [asm.labels EXCEPT ![def.name] = node]

LEMMA Defined ==
  ASSUME Base, PutDefinition
  PROVE  \E f, node : /\ f = Here[1] /\ node = <<f, Len(cur.defs[f]) + 1>>
                      /\ \E def \in Def : Adds(f, node, def)
<1> SUFFICES ASSUME NEW f, f = Here[1], NEW node, node = <<f, Len(cur.defs[f]) + 1>>
             PROVE  \E def \in Def : Adds(f, node, def)
  BY Zenon
<1> DEFINE it == ItemAt(Here)
           label == it.op = "label"
           sem == IF asm.enum THEN "enum"
                  ELSE IF ~label THEN "subroutine"
                  ELSE IF it.zero THEN ZeroPage(f, it.name) ELSE "variable"
           def == [name |-> it.name, type |-> it.op, byte |-> Here[2],
                   sem |-> sem, by |-> program]
           scope == EnumScope(it)
<1>1. /\ TypeOK /\ pc = "asm" /\ todo # <<>> /\ it.op \in Definitions
      /\ f \in Files /\ Here[2] \in Nat /\ files[f] # NotRead /\ it \in Item
  BY HereOf DEF Base, PutDefinition, At
<1>2. it.name \in Names /\ it.zero \in BOOLEAN /\ it.op \in Definitions
      /\ it.name.scope \in Scopes
  BY <1>1, ItemKinds, NameParts
<1>3. cur \in Contexts /\ asm \in AsmStates /\ program \in Nat
  BY <1>1 DEF TypeOK, AsmStates
<1>4. cur.defs \in [Files -> Seq(Def)] /\ cur.defs[f] \in Seq(Def)
  BY <1>1, <1>3 DEF Contexts
<1>5. node \in Places
  BY <1>1, <1>4 DEF Places
<1>6. sem \in Semantics
  <2>1. files[f].page \in {"variable", "device_port"}
    BY <1>1, FileOf
  <2> QED
    BY <2>1 DEF Semantics, ZeroPage
<1>7. /\ cur' = [cur EXCEPT !.defs[f] = Append(@, def)]
      /\ asm' = [asm EXCEPT
                !.macros = IF label THEN @ ELSE Append(@, node),
                !.labels = IF label THEN [@ EXCEPT ![it.name] = node] ELSE @,
                !.scope = scope,
                !.node = node,
                !.last = None,
                !.enum = FALSE]
  BY DEF PutDefinition
<1> HIDE DEF it, sem, label, scope
<1>8. /\ def \in Def
      /\ def.name = it.name /\ def.by = program /\ def.byte = Here[2]
  BY <1>1, <1>2, <1>3, <1>6 DEF Def
<1> HIDE DEF def
<1>9. /\ cur' \in Contexts
      /\ cur'.nodes = cur.nodes
      /\ cur'.refs = cur.refs
      /\ cur'.defs = [cur.defs EXCEPT ![f] = Append(cur.defs[f], def)]
  <2>1. cur' = [cur EXCEPT !.defs = [cur.defs EXCEPT ![f] = Append(cur.defs[f], def)]]
    BY <1>7
  <2>2. Append(cur.defs[f], def) \in Seq(Def)
    BY <1>4, <1>8
  <2>3. [cur.defs EXCEPT ![f] = Append(cur.defs[f], def)] \in [Files -> Seq(Def)]
    BY <1>1, <1>4, <2>2
  <2> QED
    BY <1>3, <2>1, <2>3 DEF Contexts
<1>10. /\ asm.macros \in Seq(Places)
       /\ asm.labels \in [Names -> Places \cup {None}]
       /\ asm.scope \in Scopes \cup {None}
  BY <1>3 DEF AsmStates
<1>11. scope \in Scopes \cup {None}
  BY <1>2, <1>10 DEF scope, EnumScope
<1>12. Append(asm.macros, node) \in Seq(Places)
  BY <1>5, <1>10
<1>13. [asm.labels EXCEPT ![it.name] = node] \in [Names -> Places \cup {None}]
  BY <1>2, <1>5, <1>10
<1>14. /\ asm' \in AsmStates
       /\ asm'.refs = asm.refs
       /\ asm'.macros = asm.macros \/ asm'.macros = Append(asm.macros, node)
       /\ \/ asm'.labels = asm.labels
          \/ asm'.labels = [asm.labels EXCEPT ![it.name] = node]
  <2>1. CASE label
    <3>1. asm' = [asm EXCEPT !.labels = [asm.labels EXCEPT ![it.name] = node],
                             !.scope = scope, !.node = node, !.last = None, !.enum = FALSE]
      BY <1>3, <1>7, <2>1 DEF AsmStates
    <3> QED
      BY <1>3, <1>5, <1>11, <1>13, <3>1, ZenonT(60) DEF AsmStates
  <2>2. CASE ~label
    <3>1. asm' = [asm EXCEPT !.macros = Append(asm.macros, node),
                             !.scope = scope, !.node = node, !.last = None, !.enum = FALSE]
      BY <1>3, <1>7, <2>2 DEF AsmStates
    <3> QED
      BY <1>3, <1>5, <1>11, <1>12, <3>1 DEF AsmStates
  <2> QED
    BY <2>1, <2>2
<1> QED
  BY <1>1, <1>5, <1>8, <1>9, <1>14 DEF it, Adds

LEMMA DefinitionBase ==
  ASSUME Base, PutDefinition
  PROVE  Base' /\ TextsStay
<1>1. /\ pc = "asm" /\ todo # <<>> /\ todo' = Tail(todo)
      /\ files' = [files EXCEPT ![Here[1]].last = LaterByte(@, Here[2])]
      /\ UNCHANGED <<docs, prev, queue, pc, entry, reading, runs, updates, program,
                     opens, owed>>
  BY DEF PutDefinition, At
<1>2. files' \in [Files -> FileStates \cup {NotRead}] /\ TextsStay
  BY <1>1, ReachedBase
<1>3. cur' \in Contexts /\ asm' \in AsmStates
  BY Defined DEF Adds
<1>4. todo' \in Seq(Places) /\ Located'
  BY <1>1, <1>2, TailLocated
<1>5. TypeOK'
  BY <1>1, <1>2, <1>3, <1>4 DEF Base, TypeOK, AsmStates
<1> QED
  BY <1>1, <1>2, <1>4, <1>5 DEF Base, OpenFinite

LEMMA GeneratedBase ==
  ASSUME Base, PutGenerated
  PROVE  Base' /\ TextsStay
<1>1. /\ pc = "asm" /\ todo # <<>> /\ todo' = Tail(todo)
      /\ files' = [files EXCEPT ![Here[1]].last = LaterByte(@, Here[2])]
      /\ asm' = [asm EXCEPT !.last = None]
      /\ UNCHANGED <<docs, prev, cur, queue, pc, entry, reading, runs, updates,
                     program, opens, owed>>
  BY DEF PutGenerated, At
<1>2. files' \in [Files -> FileStates \cup {NotRead}] /\ TextsStay
  BY <1>1, ReachedBase
<1>3. asm' \in AsmStates
  <2>1. asm \in AsmStates
    BY DEF Base, TypeOK, AsmStates
  <2> QED
    BY <1>1, <2>1 DEF AsmStates
<1>4. todo' \in Seq(Places) /\ Located'
  BY <1>1, <1>2, TailLocated
<1>5. TypeOK'
  BY <1>1, <1>2, <1>3, <1>4 DEF Base, TypeOK, AsmStates
<1> QED
  BY <1>1, <1>2, <1>4, <1>5 DEF Base, OpenFinite

\* What the reference in hand adds
LEMMA Handed ==
  ASSUME Base, PutReferences
  PROVE  LET r == Reference(Here, ItemAt(Here).name)
         IN  /\ r \in MacroRef \cup LabelRef
             /\ asm' \in AsmStates
             /\ asm'.macros = asm.macros
             /\ asm'.labels = asm.labels
             /\ asm'.refs = asm.refs \/ asm'.refs = Append(asm.refs, r)
<1> DEFINE it == ItemAt(Here)
           r == Reference(Here, it.name)
           once == PutReference(asm, r)
<1>1. /\ TypeOK /\ pc = "asm" /\ todo # <<>> /\ it.op \in References
      /\ Here[1] \in Files /\ Here[2] \in Nat /\ it \in Item
  BY HereOf DEF Base, PutReferences, At
<1>2. it.name \in Names
  BY <1>1, ItemKinds
<1>3. asm \in AsmStates
  BY <1>1 DEF TypeOK, AsmStates
<1>4. asm' = IF it.op = "ref16" THEN PutReference(once, r) ELSE once
  BY DEF PutReferences
<1> HIDE DEF it
<1>5. r \in MacroRef \cup LabelRef
  <2>1. CASE MacroIds(it.name) # {}
    <3>1. (CHOOSE k \in MacroIds(it.name) : TRUE) \in MacroIds(it.name)
      BY <2>1
    <3>2. MacroIds(it.name) \subseteq Nat
      <4>1. Len(asm.macros) \in Nat
        BY <1>3 DEF AsmStates
      <4> QED
        BY <4>1 DEF MacroIds
    <3> QED
      BY <1>1, <2>1, <3>1, <3>2 DEF Reference, MacroRef
  <2>2. CASE MacroIds(it.name) = {}
    BY <1>1, <1>2, <2>2 DEF Reference, LabelRef
  <2> QED
    BY <2>1, <2>2
<1> HIDE DEF r
<1>6. Append(asm.refs, r) \in Seq(MacroRef \cup LabelRef)
  BY <1>3, <1>5 DEF AsmStates
<1>7. ASSUME r # asm.last
      PROVE  /\ PutReference(asm, r) = [asm EXCEPT !.refs = Append(asm.refs, r), !.last = r]
             /\ PutReference(asm, r) \in AsmStates
             /\ PutReference(asm, r).last = r
             /\ PutReference(asm, r).macros = asm.macros
             /\ PutReference(asm, r).labels = asm.labels
             /\ PutReference(asm, r).refs = Append(asm.refs, r)
  <2>1. PutReference(asm, r) = [asm EXCEPT !.refs = Append(asm.refs, r), !.last = r]
    BY <1>3, <1>7 DEF PutReference, AsmStates
  <2> QED
    BY <1>3, <1>5, <1>6, <2>1 DEF AsmStates
<1>8. asm' = once
  <2>1. PutReference(once, r) = once
    <3>1. CASE r = asm.last
      BY <3>1 DEF PutReference
    <3>2. CASE r # asm.last
      <4>1. once.last = r
        BY <1>7, <3>2
      <4> HIDE DEF once
      <4> QED
        BY <4>1 DEF PutReference
    <3> QED
      BY <3>1, <3>2
  <2> QED
    BY <1>4, <2>1
<1>9. CASE r = asm.last
  <2>1. asm' = asm
    BY <1>8, <1>9 DEF PutReference
  <2> QED
    BY <1>3, <1>5, <2>1 DEF r, it
<1>10. CASE r # asm.last
  BY <1>5, <1>7, <1>8, <1>10 DEF r, it
<1> QED
  BY <1>9, <1>10

LEMMA ReferencesBase ==
  ASSUME Base, PutReferences
  PROVE  Base' /\ TextsStay
<1>1. /\ pc = "asm" /\ todo # <<>> /\ todo' = Tail(todo)
      /\ UNCHANGED <<docs, prev, cur, files, queue, pc, entry, reading, runs, updates,
                     program, opens, owed>>
  BY DEF PutReferences, At
<1>2. TextsStay
  BY <1>1 DEF TextsStay
<1>3. asm' \in AsmStates
  BY Handed
<1>4. todo' \in Seq(Places) /\ Located'
  BY <1>1, <1>2, TailLocated
<1>5. TypeOK'
  BY <1>1, <1>3, <1>4 DEF Base, TypeOK, AsmStates
<1> QED
  BY <1>1, <1>2, <1>4, <1>5 DEF Base, OpenFinite

\* The lists of definitions keep their nodes: where they are, what they are
\* called and which compilation made them.
Grows ==
    \A f \in Files :
      /\ Len(cur.defs[f]) <= Len(cur'.defs[f])
      /\ \A k \in 1 .. Len(cur.defs[f]) :
           /\ cur'.defs[f][k].name = cur.defs[f][k].name
           /\ cur'.defs[f][k].by = cur.defs[f][k].by
           /\ cur'.defs[f][k].byte = cur.defs[f][k].byte

LEMMA DefsOf ==
  ASSUME cur \in Contexts, NEW f \in Files
  PROVE  /\ cur.defs[f] \in Seq(Def)
         /\ cur.refs[f] \in Seq(Ref)
         /\ Len(cur.defs[f]) \in Nat
         /\ \A k \in 1 .. Len(cur.defs[f]) : cur.defs[f][k] \in Def
         /\ \A k \in 1 .. Len(cur.refs[f]) : cur.refs[f][k] \in Ref
<1>1. cur.defs[f] \in Seq(Def) /\ cur.refs[f] \in Seq(Ref)
  BY DEF Contexts
<1> QED
  BY <1>1

LEMMA GrowsNot ==
  ASSUME cur \in Contexts, cur'.defs = cur.defs
  PROVE  Grows
<1>1. \A f \in Files : Len(cur.defs[f]) \in Nat
  BY DefsOf
<1> QED
  BY <1>1 DEF Grows

\* Annotating a definition changes its meaning only.
LEMMA Annotated ==
  ASSUME Base, Annotate
  PROVE  /\ cur' \in Contexts
         /\ cur'.nodes = cur.nodes /\ cur'.refs = cur.refs
         /\ \A f \in Files :
              /\ Len(cur'.defs[f]) = Len(cur.defs[f])
              /\ \A k \in 1 .. Len(cur.defs[f]) :
                   /\ cur'.defs[f][k].name = cur.defs[f][k].name
                   /\ cur'.defs[f][k].by = cur.defs[f][k].by
                   /\ cur'.defs[f][k].byte = cur.defs[f][k].byte
<1>1. cur \in Contexts /\ asm.node \in Places \cup {None}
  BY DEF Base, TypeOK
<1>2. CASE cur' = cur
  BY <1>1, <1>2
<1>3. CASE cur' # cur
  <2>1. PICK g \in Files, j \in Nat : cur' = [cur EXCEPT !.defs[g][j].sem = "subroutine"]
    <3>1. /\ asm.node # None
          /\ cur' = [cur EXCEPT !.defs[asm.node[1]][asm.node[2]].sem = "subroutine"]
      BY <1>3 DEF Annotate
    <3>2. asm.node[1] \in Files /\ asm.node[2] \in Nat
      BY <1>1, <3>1 DEF Places
    <3> QED
      BY <3>1, <3>2
  <2> DEFINE s == cur.defs[g]
             t == [s EXCEPT ![j] = [s[j] EXCEPT !.sem = "subroutine"]]
  <2>2. cur' = [cur EXCEPT !.defs = [cur.defs EXCEPT ![g] = t]]
    BY <1>1, <2>1
  <2>3. /\ s \in Seq(Def) /\ Len(s) \in Nat
        /\ \A k \in 1 .. Len(s) : s[k] \in Def
    BY <1>1, DefsOf
  <2> HIDE DEF s
  <2>4. ASSUME NEW d \in Def
        PROVE  /\ [d EXCEPT !.sem = "subroutine"] \in Def
               /\ [d EXCEPT !.sem = "subroutine"].name = d.name
               /\ [d EXCEPT !.sem = "subroutine"].by = d.by
               /\ [d EXCEPT !.sem = "subroutine"].byte = d.byte
    BY DEF Def, Semantics
  <2>5. /\ t = [k \in 1 .. Len(s) |->
                  IF k = j THEN [s[k] EXCEPT !.sem = "subroutine"] ELSE s[k]]
    BY <2>3
  <2>6. /\ t \in Seq(Def) /\ Len(t) = Len(s)
        /\ \A k \in 1 .. Len(s) : /\ t[k].name = s[k].name
                                  /\ t[k].by = s[k].by
                                  /\ t[k].byte = s[k].byte
    <3>1. \A k \in 1 .. Len(s) :
            LET d == IF k = j THEN [s[k] EXCEPT !.sem = "subroutine"] ELSE s[k]
            IN  /\ d \in Def /\ d.name = s[k].name
                /\ d.by = s[k].by /\ d.byte = s[k].byte
      BY <2>3, <2>4
    <3> HIDE DEF t
    <3> QED
      BY <2>3, <2>5, <3>1
  <2> HIDE DEF t
  <2>7. cur.defs \in [Files -> Seq(Def)]
    BY <1>1 DEF Contexts
  <2>8. [cur.defs EXCEPT ![g] = t] \in [Files -> Seq(Def)]
    BY <2>6, <2>7
  <2>9. /\ cur' \in Contexts /\ cur'.nodes = cur.nodes /\ cur'.refs = cur.refs
        /\ cur'.defs = [cur.defs EXCEPT ![g] = t]
    BY <1>1, <2>2, <2>8 DEF Contexts
  <2>10. \A f \in Files : cur'.defs[f] = IF f = g THEN t ELSE cur.defs[f]
    BY <2>7, <2>9
  <2> QED
    BY <2>6, <2>9, <2>10 DEF s
<1> QED
  BY <1>2, <1>3

LEMMA PageType ==
  ASSUME NEW g \in FileStates, NEW p \in {"variable", "device_port"}
  PROVE  /\ [g EXCEPT !.page = p] \in FileStates
         /\ [g EXCEPT !.page = p].text = g.text
         /\ [g EXCEPT !.page = p].last = g.last
         /\ [g EXCEPT !.page = p].err = g.err
BY DEF FileStates

LEMMA AnnotateBase ==
  ASSUME Base, Annotate
  PROVE  Base' /\ TextsStay
<1> DEFINE f == Here[1]
<1>1. /\ pc = "asm" /\ todo # <<>> /\ todo' = Tail(todo)
      /\ UNCHANGED <<docs, prev, queue, pc, entry, reading, runs, updates,
                     program, opens, owed>>
  BY DEF Annotate, At
<1>2. f \in Files /\ files[f] # NotRead /\ TypeOK
  BY <1>1, HereOf DEF Base
<1>3. files' \in [Files -> FileStates \cup {NotRead}] /\ TextsStay
  <2>1. CASE files' = files
    BY <2>1 DEF Base, TypeOK, TextsStay
  <2>2. CASE files' # files
    <3>1. PICK p \in {"variable", "device_port"} : files' = [files EXCEPT ![f].page = p]
      BY <2>2 DEF Annotate
    <3>2. files' = [files EXCEPT ![f] = [files[f] EXCEPT !.page = p]]
      BY <3>1
    <3>3. files[f] \in FileStates
      BY <1>2, FileOf
    <3> HIDE DEF f
    <3>4. PICK g \in FileStates : g = [files[f] EXCEPT !.page = p] /\ g.text = files[f].text
      BY <3>3, PageType
    <3> QED
      BY <1>2, <3>2, <3>4, FileChanged
  <2> QED
    BY <2>1, <2>2
<1>4. asm' \in AsmStates
  <2>1. asm \in AsmStates
    BY DEF Base, TypeOK, AsmStates
  <2>2. PICK b \in BOOLEAN : asm' = [asm EXCEPT !.last = None, !.enum = b]
    <3>1. asm' = [asm EXCEPT !.last = None, !.enum = asm.enum \/ ItemAt(Here).op = "enum"]
      BY DEF Annotate
    <3>2. (asm.enum \/ ItemAt(Here).op = "enum") \in BOOLEAN
      OBVIOUS
    <3> QED
      BY <3>1, <3>2
  <2> QED
    BY <2>1, <2>2 DEF AsmStates
<1>5. cur' \in Contexts
  BY Annotated
<1>6. todo' \in Seq(Places) /\ Located'
  BY <1>1, <1>3, TailLocated
<1>7. TypeOK'
  BY <1>1, <1>3, <1>4, <1>5, <1>6 DEF Base, TypeOK, AsmStates
<1> QED
  BY <1>1, <1>3, <1>6, <1>7 DEF Base, OpenFinite

-----------------------------------------------------------------------------
(***************************************************************************)
(* References lead to what they mean: while an entry is assembled, each    *)
(* macro and label that the assembler knows was defined by this            *)
(* compilation and has its name, and each reference it has handed over     *)
(* has the name that stands where it was found.                            *)
(***************************************************************************)
Working == pc \in {"open", "asm", "read"}

\* Node n is a definition of this compilation.
Made(n) ==
    /\ n[2] \in 1 .. Len(cur.defs[n[1]])
    /\ cur.defs[n[1]][n[2]].by = program

NameOf(n) == cur.defs[n[1]][n[2]].name

\* A reference stands at b of file f, and the name it has there
RefAt(f, b) ==
    /\ files[f] # NotRead
    /\ b + 1 \in 1 .. Len(Text(f))
    /\ Text(f)[b + 1].op \in References

NameAt(f, b) == Text(f)[b + 1].name

MacrosMade == \A k \in 1 .. Len(asm.macros) : Made(asm.macros[k])

LabelsMade ==
    \A n \in Names :
      asm.labels[n] # None => Made(asm.labels[n]) /\ NameOf(asm.labels[n]) = n

Meant(r) ==
    /\ RefAt(r.file, r.byte)
    /\ r.type = "macro_ref" =>
         /\ r.id \in 1 .. Len(asm.macros)
         /\ NameOf(asm.macros[r.id]) = NameAt(r.file, r.byte)
    /\ r.type = "label_ref" => r.id = NameAt(r.file, r.byte)

RefsMeant == \A k \in 1 .. Len(asm.refs) : Meant(asm.refs[k])

\* Reference r of file f leads to a definition of its compilation and its name.
Leads(f, r) ==
    /\ RefAt(f, r.byte)
    /\ r.to[2] \in 1 .. Len(cur.defs[r.to[1]])
    /\ cur.defs[r.to[1]][r.to[2]].by = r.by
    /\ NameOf(r.to) = NameAt(f, r.byte)

AllLead == \A f \in Files : \A k \in 1 .. Len(cur.refs[f]) : Leads(f, cur.refs[f][k])

Sound ==
    /\ AllLead
    /\ Working => MacrosMade /\ LabelsMade /\ RefsMeant

LEMMA InLonger ==
  ASSUME NEW m \in Nat, NEW n \in Nat, m <= n, NEW k \in 1 .. m
  PROVE  k \in 1 .. n
OBVIOUS

LEMMA RefStays ==
  ASSUME TextsStay, NEW f \in Files, NEW b, RefAt(f, b)
  PROVE  RefAt(f, b)' /\ NameAt(f, b)' = NameAt(f, b)
BY DEF TextsStay, RefAt, NameAt, Text

LEMMA MadeStays ==
  ASSUME Grows, cur \in Contexts, cur' \in Contexts, program' = program,
         NEW n \in Places, Made(n)
  PROVE  Made(n)' /\ NameOf(n)' = NameOf(n)
<1>1. n[1] \in Files /\ n[2] \in 1 .. Len(cur.defs[n[1]])
  BY DEF Places, Made
<1>2. cur.defs[n[1]] \in Seq(Def) /\ cur'.defs[n[1]] \in Seq(Def)
  BY <1>1 DEF Contexts
<1>3. Len(cur.defs[n[1]]) \in Nat /\ Len(cur'.defs[n[1]]) \in Nat
  BY <1>2
<1>4. /\ Len(cur.defs[n[1]]) <= Len(cur'.defs[n[1]])
      /\ cur'.defs[n[1]][n[2]].name = cur.defs[n[1]][n[2]].name
      /\ cur'.defs[n[1]][n[2]].by = cur.defs[n[1]][n[2]].by
  BY <1>1 DEF Grows
<1>5. n[2] \in 1 .. Len(cur'.defs[n[1]])
  BY <1>1, <1>3, <1>4, InLonger
<1> QED
  BY <1>4, <1>5 DEF Made, NameOf

LEMMA LeadStays ==
  ASSUME Grows, TextsStay, cur \in Contexts, cur' \in Contexts,
         NEW f \in Files, NEW r \in Ref, Leads(f, r)
  PROVE  Leads(f, r)'
<1>1. RefAt(f, r.byte)' /\ NameAt(f, r.byte)' = NameAt(f, r.byte)
  BY RefStays DEF Leads
<1>2. r.to[1] \in Files /\ r.to[2] \in 1 .. Len(cur.defs[r.to[1]])
  BY DEF Ref, Leads
<1>3. cur.defs[r.to[1]] \in Seq(Def) /\ cur'.defs[r.to[1]] \in Seq(Def)
  BY <1>2 DEF Contexts
<1>4. Len(cur.defs[r.to[1]]) \in Nat /\ Len(cur'.defs[r.to[1]]) \in Nat
  BY <1>3, SMTT(30)
<1>5. /\ Len(cur.defs[r.to[1]]) <= Len(cur'.defs[r.to[1]])
      /\ cur'.defs[r.to[1]][r.to[2]].name = cur.defs[r.to[1]][r.to[2]].name
      /\ cur'.defs[r.to[1]][r.to[2]].by = cur.defs[r.to[1]][r.to[2]].by
  BY <1>2 DEF Grows
<1>6. r.to[2] \in 1 .. Len(cur'.defs[r.to[1]])
  <2>1. PICK m \in Nat, n \in Nat :
             m = Len(cur.defs[r.to[1]]) /\ n = Len(cur'.defs[r.to[1]])
    BY <1>4
  <2>2. m <= n /\ r.to[2] \in 1 .. m
    BY <1>2, <1>5, <2>1
  <2> QED
    BY <2>1, <2>2, InLonger, SMTT(30)
<1> QED
  BY <1>1, <1>5, <1>6 DEF Leads, NameOf

LEMMA AllLeadStays ==
  ASSUME Grows, TextsStay, cur \in Contexts, cur' \in Contexts,
         cur'.refs = cur.refs, AllLead
  PROVE  AllLead'
<1>1. ASSUME NEW f \in Files, NEW k \in 1 .. Len(cur.refs[f])
      PROVE  Leads(f, cur.refs[f][k])'
  <2>1. PICK r \in Ref : r = cur.refs[f][k]
    BY DefsOf
  <2>2. Leads(f, r)
    BY <2>1 DEF AllLead
  <2>3. Leads(f, r)'
    BY <2>2, LeadStays
  <2>4. cur'.refs[f][k] = r
    BY <2>1
  <2> QED
    BY <2>3, <2>4 DEF Leads, NameOf
<1> QED
  BY <1>1 DEF AllLead

LEMMA AsmOf ==
  ASSUME asm \in AsmStates
  PROVE  /\ Len(asm.macros) \in Nat /\ Len(asm.refs) \in Nat
         /\ \A k \in 1 .. Len(asm.macros) : asm.macros[k] \in Places
         /\ \A k \in 1 .. Len(asm.refs) : asm.refs[k] \in MacroRef \cup LabelRef
         /\ \A n \in Names : asm.labels[n] \in Places \cup {None}
         /\ asm.macros \in Seq(Places)
         /\ asm.refs \in Seq(MacroRef \cup LabelRef)
         /\ asm.labels \in [Names -> Places \cup {None}]
<1>1. /\ asm.macros \in Seq(Places)
      /\ asm.refs \in Seq(MacroRef \cup LabelRef)
      /\ asm.labels \in [Names -> Places \cup {None}]
  BY DEF AsmStates
<1> QED
  BY <1>1

LEMMA RefParts ==
  ASSUME NEW r \in MacroRef \cup LabelRef
  PROVE  /\ r.file \in Files /\ r.byte \in Nat
         /\ r.type \in {"macro_ref", "label_ref"}
         /\ r.type = "macro_ref" => r.id \in Nat
         /\ r.type = "label_ref" => r.id \in Names
BY DEF MacroRef, LabelRef

\* A reference goes on meaning what it means, though macros are added.
LEMMA MeantStays ==
  ASSUME Grows, TextsStay, cur \in Contexts, cur' \in Contexts, program' = program,
         asm \in AsmStates, asm' \in AsmStates,
         MacrosMade,
         Len(asm.macros) <= Len(asm'.macros),
         \A k \in 1 .. Len(asm.macros) : asm'.macros[k] = asm.macros[k],
         NEW r \in MacroRef \cup LabelRef, Meant(r)
  PROVE  Meant(r)'
<1>1. r.file \in Files
  BY RefParts
<1>2. RefAt(r.file, r.byte)' /\ NameAt(r.file, r.byte)' = NameAt(r.file, r.byte)
  BY <1>1, RefStays DEF Meant
<1>3. CASE r.type = "macro_ref"
  <2>1. PICK m : m = asm.macros[r.id]
    OBVIOUS
  <2>2. /\ r.id \in 1 .. Len(asm.macros) /\ NameOf(m) = NameAt(r.file, r.byte)
        /\ m \in Places /\ Made(m)
    BY <1>3, <2>1, AsmOf DEF Meant, MacrosMade
  <2>3. NameOf(m)' = NameOf(m)
    BY <2>2, MadeStays
  <2>4. asm'.macros[r.id] = m
    BY <2>1, <2>2
  <2>5. r.id \in 1 .. Len(asm'.macros)
    <3>1. Len(asm.macros) \in Nat /\ Len(asm'.macros) \in Nat
      BY DEF AsmStates
    <3> QED
      BY <2>2, <3>1
  <2>6. NameOf(asm.macros[r.id])' = NameAt(r.file, r.byte)'
    BY <1>2, <2>2, <2>3, <2>4 DEF NameOf
  <2> QED
    BY <1>2, <1>3, <2>5, <2>6 DEF Meant
<1>4. CASE r.type = "label_ref"
  BY <1>2, <1>4 DEF Meant
<1> QED
  BY <1>3, <1>4, RefParts

\* A step that lets the macros, the labels and the references alone
LEMMA AsmStays ==
  ASSUME Grows, TextsStay, cur \in Contexts, cur' \in Contexts, program' = program,
         asm \in AsmStates, asm' \in AsmStates,
         asm'.macros = asm.macros, asm'.labels = asm.labels, asm'.refs = asm.refs,
         MacrosMade, LabelsMade, RefsMeant
  PROVE  MacrosMade' /\ LabelsMade' /\ RefsMeant'
<1>1. ASSUME NEW k \in 1 .. Len(asm.macros)
      PROVE  Made(asm.macros[k])'
  <2>1. PICK m \in Places : m = asm.macros[k]
    BY AsmOf
  <2>2. Made(m)'
    BY <2>1, MadeStays DEF MacrosMade
  <2> QED
    BY <2>1, <2>2 DEF Made
<1>2. ASSUME NEW n \in Names, asm.labels[n] # None
      PROVE  Made(asm.labels[n])' /\ NameOf(asm.labels[n])' = n
  <2>1. PICK m \in Places : m = asm.labels[n]
    BY <1>2, AsmOf
  <2>2. Made(m)' /\ NameOf(m)' = n
    BY <1>2, <2>1, MadeStays DEF LabelsMade
  <2> QED
    BY <2>1, <2>2 DEF Made, NameOf
<1>3. ASSUME NEW k \in 1 .. Len(asm.refs)
      PROVE  Meant(asm.refs[k])'
  <2>1. PICK r \in MacroRef \cup LabelRef : r = asm.refs[k]
    BY AsmOf
  <2>2. Len(asm.macros) <= Len(asm'.macros)
    BY AsmOf
  <2>3. Meant(r)'
    BY <2>1, <2>2, MeantStays DEF RefsMeant
  <2> QED
    BY <2>1, <2>3 DEF Meant
<1> QED
  BY <1>1, <1>2, <1>3 DEF MacrosMade, LabelsMade, RefsMeant

LEMMA BaseParts ==
  ASSUME Base
  PROVE  cur \in Contexts /\ asm \in AsmStates /\ program \in Nat /\ TypeOK
BY DEF Base, TypeOK, AsmStates

LEMMA SoundStays ==
  ASSUME Base, Base', Sound, Working, TextsStay, Grows, cur'.refs = cur.refs,
         program' = program,
         asm'.macros = asm.macros, asm'.labels = asm.labels, asm'.refs = asm.refs
  PROVE  Sound'
<1>1. /\ cur \in Contexts /\ asm \in AsmStates
      /\ cur' \in Contexts /\ asm' \in AsmStates
  BY BaseParts DEF Base, TypeOK, AsmStates
<1>2. AllLead'
  BY <1>1, AllLeadStays DEF Sound
<1>3. MacrosMade' /\ LabelsMade' /\ RefsMeant'
  BY <1>1, AsmStays DEF Sound
<1> QED
  BY <1>2, <1>3 DEF Sound

\* The steps that neither define nor refer to anything
LEMMA OtherSound ==
  ASSUME Base, Base', Sound, TextsStay,
         \/ OpenEntry \/ Include \/ IncludeAgain \/ ReadFile \/ ReadFailure
         \/ PutGenerated \/ Annotate \/ ReportError \/ ChessReport
  PROVE  Sound'
<1>1. cur \in Contexts /\ asm \in AsmStates
  BY BaseParts
<1>2. ASSUME NEW f \in Files, NEW t \in Texts, Opened(f, t, Rest)
      PROVE  cur'.defs = cur.defs /\ cur'.refs = cur.refs
  BY <1>2, OpenedContext, BaseParts
<1>3. ASSUME NEW f \in Files, Fopen(f, Rest)
      PROVE  /\ cur'.defs = cur.defs /\ cur'.refs = cur.refs /\ program' = program
             /\ asm'.macros = asm.macros /\ asm'.labels = asm.labels /\ asm'.refs = asm.refs
  <2>1. \/ Opened(f, files[f].text, Rest) /\ files[f] # NotRead
        \/ Opened(f, docs[f], Rest) /\ docs[f] # Closed
        \/ cur' = cur
    BY <1>3 DEF Fopen
  <2>2. files[f] # NotRead => files[f].text \in Texts
    BY FileOf, BaseParts
  <2>3. docs[f] # Closed => docs[f] \in Texts
    BY BaseParts DEF TypeOK, Docs
  <2>4. cur'.defs = cur.defs /\ cur'.refs = cur.refs
    BY <1>2, <2>1, <2>2, <2>3
  <2>5. program' = program /\ asm' = [asm EXCEPT !.included = @ \cup {f}]
    BY <1>3 DEF Fopen
  <2>6. asm'.macros = asm.macros /\ asm'.labels = asm.labels /\ asm'.refs = asm.refs
    BY <1>1, <2>5 DEF AsmStates
  <2> QED
    BY <2>4, <2>5, <2>6
<1>4. CASE OpenEntry \/ Include
  <2>1. PICK f \in Files : Fopen(f, Rest) /\ pc \in {"open", "asm"}
    <3>1. CASE OpenEntry
      BY <3>1 DEF OpenEntry, Base, Located
    <3>2. CASE Include
      <4>1. /\ pc = "asm" /\ todo # <<>> /\ ItemAt(Here).op = "include"
            /\ Fopen(ItemAt(Here).file, Rest)
        BY <3>2 DEF Include, At
      <4>2. ItemAt(Here).file \in Files
        BY <4>1, HereOf, ItemKinds DEF Base
      <4> QED
        BY <4>1, <4>2
    <3> QED
      BY <1>4, <3>1, <3>2
  <2>2. Working
    BY <2>1 DEF Working
  <2>3. Grows
    BY <1>1, <1>3, <2>1, GrowsNot
  <2> QED
    BY <1>3, <2>1, <2>2, <2>3, SoundStays
<1>5. CASE ReadFile
  <2>1. /\ pc = "read" /\ reading \in Files /\ Disk[reading] \in Texts
        /\ Opened(reading, Disk[reading], Rest) /\ asm' = asm /\ program' = program
    BY <1>5, SymbolsAssumption DEF ReadFile, Base, Located
  <2>2. cur'.defs = cur.defs /\ cur'.refs = cur.refs
    BY <1>2, <2>1
  <2>3. Working /\ Grows
    BY <1>1, <2>1, <2>2, GrowsNot DEF Working
  <2> QED
    BY <2>1, <2>2, <2>3, SoundStays
<1>6. CASE IncludeAgain \/ ReadFailure \/ ReportError \/ ChessReport
  <2>1. /\ pc \in {"asm", "read"}
        /\ cur' = cur /\ asm' = asm /\ program' = program
    BY <1>6 DEF IncludeAgain, ReadFailure, ReportError, ChessReport, At, MarkError
  <2>2. Working /\ Grows
    BY <1>1, <2>1, GrowsNot DEF Working
  <2> QED
    BY <2>1, <2>2, SoundStays
<1>7. CASE PutGenerated
  <2>1. /\ pc = "asm" /\ cur' = cur /\ program' = program
        /\ asm' = [asm EXCEPT !.last = None]
    BY <1>7 DEF PutGenerated, At
  <2>2. asm'.macros = asm.macros /\ asm'.labels = asm.labels /\ asm'.refs = asm.refs
    BY <1>1, <2>1 DEF AsmStates
  <2>3. Working /\ Grows
    BY <1>1, <2>1, GrowsNot DEF Working
  <2> QED
    BY <2>1, <2>2, <2>3, SoundStays
<1>8. CASE Annotate
  <2>1. /\ pc = "asm" /\ program' = program
        /\ asm' = [asm EXCEPT !.last = None,
                              !.enum = asm.enum \/ ItemAt(Here).op = "enum"]
    BY <1>8 DEF Annotate, At
  <2>2. asm'.macros = asm.macros /\ asm'.labels = asm.labels /\ asm'.refs = asm.refs
    BY <1>1, <2>1 DEF AsmStates
  <2>3. Grows /\ cur'.refs = cur.refs
    <3>1. \A f \in Files : Len(cur.defs[f]) \in Nat
      BY <1>1, DefsOf
    <3> QED
      BY <1>8, <3>1, Annotated DEF Grows
  <2>4. Working
    BY <2>1 DEF Working
  <2> QED
    BY <2>1, <2>2, <2>3, <2>4, SoundStays
<1> QED
  BY <1>4, <1>5, <1>6, <1>7, <1>8

\* A new definition is one of this compilation, and all the others keep their
\* place.
LEMMA DefinitionSound ==
  ASSUME Base, Base', Sound, TextsStay, PutDefinition
  PROVE  Sound'
<1>1. /\ cur \in Contexts /\ asm \in AsmStates
      /\ cur' \in Contexts /\ asm' \in AsmStates
  BY BaseParts DEF Base, TypeOK, AsmStates
<1>2. pc = "asm" /\ program' = program
  BY DEF PutDefinition, At
<1>d. PICK f, node : /\ f = Here[1] /\ node = <<f, Len(cur.defs[f]) + 1>>
                     /\ \E def \in Def : Adds(f, node, def)
  BY Defined
<1>e. PICK def \in Def : Adds(f, node, def)
  BY <1>d
<1>3. /\ f \in Files /\ node \in Places
      /\ node = <<f, Len(cur.defs[f]) + 1>>
      /\ def.by = program
      /\ def.name \in Names
      /\ cur'.refs = cur.refs
      /\ cur'.defs = [cur.defs EXCEPT ![f] = Append(cur.defs[f], def)]
      /\ asm'.refs = asm.refs
      /\ asm'.macros = asm.macros \/ asm'.macros = Append(asm.macros, node)
      /\ \/ asm'.labels = asm.labels
         \/ asm'.labels = [asm.labels EXCEPT ![def.name] = node]
  <2>1. def.name \in Names
    BY DEF Def
  <2> QED
    BY <1>d, <1>e, <2>1 DEF Adds
<1>4. cur.defs[f] \in Seq(Def) /\ Len(cur.defs[f]) \in Nat /\ cur.defs \in [Files -> Seq(Def)]
  BY <1>1, <1>3, DefsOf DEF Contexts
<1>5. /\ Len(cur'.defs[f]) = Len(cur.defs[f]) + 1
      /\ \A k \in 1 .. Len(cur.defs[f]) : cur'.defs[f][k] = cur.defs[f][k]
      /\ cur'.defs[f][Len(cur.defs[f]) + 1] = def
  <2>1. cur'.defs[f] = Append(cur.defs[f], def)
    BY <1>3, <1>4
  <2> QED
    BY <1>4, <2>1, AppendOf
<1>6. \A g \in Files : g # f => cur'.defs[g] = cur.defs[g] /\ Len(cur.defs[g]) \in Nat
  BY <1>1, <1>3, <1>4, DefsOf
<1>7. Grows
  <2>1. Len(cur.defs[f]) <= Len(cur'.defs[f])
    BY <1>4, <1>5
  <2>2. \A g \in Files : Len(cur.defs[g]) <= Len(cur'.defs[g])
    BY <1>6, <2>1
  <2>3. \A g \in Files : \A k \in 1 .. Len(cur.defs[g]) : cur'.defs[g][k] = cur.defs[g][k]
    BY <1>5, <1>6
  <2> QED
    BY <2>2, <2>3 DEF Grows
<1>8. AllLead'
  BY <1>1, <1>3, <1>7, AllLeadStays DEF Sound
<1>9. Made(node)' /\ NameOf(node)' = def.name
  <2>1. node[1] = f /\ node[2] = Len(cur.defs[f]) + 1
    BY <1>3
  <2>2. node[2] \in 1 .. Len(cur'.defs[node[1]])
    BY <1>4, <1>5, <2>1
  <2> QED
    BY <1>2, <1>3, <1>5, <2>1, <2>2 DEF Made, NameOf
<1>10. MacrosMade /\ LabelsMade /\ RefsMeant
  BY <1>2 DEF Sound, Working
<1>11. /\ Len(asm.macros) \in Nat
       /\ Len(asm.macros) <= Len(asm'.macros)
       /\ \A k \in 1 .. Len(asm.macros) : asm'.macros[k] = asm.macros[k]
       /\ \A k \in 1 .. Len(asm'.macros) :
            k \in 1 .. Len(asm.macros) \/ asm'.macros[k] = node
  <2>1. asm.macros \in Seq(Places) /\ Len(asm.macros) \in Nat
    BY <1>1, AsmOf
  <2>2. CASE asm'.macros = asm.macros
    BY <2>1, <2>2
  <2>3. CASE asm'.macros = Append(asm.macros, node)
    <3>1. /\ Len(Append(asm.macros, node)) = Len(asm.macros) + 1
          /\ \A k \in 1 .. Len(asm.macros) :
               k \in 1 .. Len(asm.macros) + 1 /\ Append(asm.macros, node)[k] = asm.macros[k]
          /\ Append(asm.macros, node)[Len(asm.macros) + 1] = node
          /\ \A k \in 1 .. Len(asm.macros) + 1 :
               k \in 1 .. Len(asm.macros) \/ k = Len(asm.macros) + 1
      BY <2>1, AppendOf
    <3> QED
      BY <2>1, <2>3, <3>1
  <2> QED
    BY <1>3, <2>2, <2>3
<1>12. MacrosMade'
  <2>1. ASSUME NEW k \in 1 .. Len(asm'.macros)
        PROVE  Made(asm.macros[k])'
    <3>1. CASE k \in 1 .. Len(asm.macros)
      <4>1. PICK m \in Places : m = asm.macros[k]
        BY <1>1, <3>1, AsmOf
      <4>2. Made(m)'
        BY <1>1, <1>2, <1>7, <1>10, <3>1, <4>1, MadeStays DEF MacrosMade
      <4> QED
        BY <1>11, <3>1, <4>1, <4>2 DEF Made
    <3>2. CASE asm'.macros[k] = node
      BY <1>9, <3>2 DEF Made
    <3> QED
      BY <1>11, <3>1, <3>2
  <2> QED
    BY <2>1 DEF MacrosMade
<1>13. LabelsMade'
  <2>1. ASSUME NEW n \in Names, asm'.labels[n] # None
        PROVE  Made(asm.labels[n])' /\ NameOf(asm.labels[n])' = n
    <3>1. CASE asm'.labels[n] = asm.labels[n]
      <4>1. PICK m \in Places : m = asm.labels[n]
        BY <1>1, <2>1, <3>1, AsmOf
      <4>2. Made(m)' /\ NameOf(m)' = n
        BY <1>1, <1>2, <1>7, <1>10, <2>1, <3>1, <4>1, MadeStays DEF LabelsMade
      <4> QED
        BY <3>1, <4>1, <4>2 DEF Made, NameOf
    <3>2. CASE asm'.labels[n] = node /\ n = def.name
      BY <1>9, <3>2 DEF Made, NameOf
    <3>3. asm.labels \in [Names -> Places \cup {None}]
      BY <1>1, AsmOf
    <3>4. asm'.labels[n] = asm.labels[n] \/ (asm'.labels[n] = node /\ n = def.name)
      BY <1>3, <3>3
    <3> QED
      BY <3>1, <3>2, <3>4
  <2> QED
    BY <2>1 DEF LabelsMade
<1>14. RefsMeant'
  <2>1. ASSUME NEW k \in 1 .. Len(asm.refs)
        PROVE  Meant(asm.refs[k])'
    <3>1. PICK r \in MacroRef \cup LabelRef : r = asm.refs[k]
      BY <1>1, AsmOf
    <3>2. Meant(r)
      BY <1>10, <3>1 DEF RefsMeant
    <3>3. Meant(r)'
      BY <1>1, <1>2, <1>7, <1>10, <1>11, <3>2, MeantStays
    <3> QED
      BY <1>3, <3>1, <3>3 DEF Meant
  <2> QED
    BY <1>3, <2>1 DEF RefsMeant
<1> QED
  BY <1>8, <1>12, <1>13, <1>14 DEF Sound

\* A reference to a macro names one of its name, by the choice of Reference.
LEMMA ReferencesSound ==
  ASSUME Base, Base', Sound, TextsStay, PutReferences
  PROVE  Sound'
<1>1. /\ cur \in Contexts /\ asm \in AsmStates
      /\ cur' \in Contexts /\ asm' \in AsmStates
  BY BaseParts DEF Base, TypeOK, AsmStates
<1>2. /\ pc = "asm" /\ todo # <<>> /\ ItemAt(Here).op \in References
      /\ program' = program /\ cur' = cur /\ files' = files
  BY DEF PutReferences, At
<1>3. MacrosMade /\ LabelsMade /\ RefsMeant
  BY <1>2 DEF Sound, Working
<1>4. Grows
  BY <1>1, <1>2, GrowsNot
<1>5. AllLead'
  BY <1>1, <1>2, <1>4, AllLeadStays DEF Sound
<1>6. PICK r \in MacroRef \cup LabelRef :
        /\ r = Reference(Here, ItemAt(Here).name)
        /\ asm'.macros = asm.macros
        /\ asm'.labels = asm.labels
        /\ asm'.refs = asm.refs \/ asm'.refs = Append(asm.refs, r)
  BY Handed
<1>7. MacrosMade' /\ LabelsMade'
  BY <1>2, <1>3, <1>6 DEF MacrosMade, LabelsMade, Made, NameOf
<1>8. Meant(r)
  <2> DEFINE n == ItemAt(Here).name
  <2>1. Here \in Places /\ IsPlace(Here)
    BY <1>2, HereOf DEF Base
  <2>2. RefAt(Here[1], Here[2]) /\ NameAt(Here[1], Here[2]) = n
    BY <1>2, <2>1 DEF RefAt, NameAt, IsPlace, ItemAt, Text
  <2>3. CASE MacroIds(n) # {}
    <3>1. /\ r.type = "macro_ref" /\ r.id \in MacroIds(n)
          /\ r.file = Here[1] /\ r.byte = Here[2]
      <4>1. (CHOOSE k \in MacroIds(n) : TRUE) \in MacroIds(n)
        BY <2>3
      <4> QED
        BY <1>6, <2>3, <4>1 DEF Reference
    <3>2. r.id \in 1 .. Len(asm.macros) /\ NameOf(asm.macros[r.id]) = n
      BY <3>1, Zenon DEF MacroIds, NameOf
    <3> QED
      BY <2>2, <3>1, <3>2 DEF Meant
  <2>4. CASE MacroIds(n) = {}
    <3>1. /\ r.type = "label_ref" /\ r.id = n
          /\ r.file = Here[1] /\ r.byte = Here[2]
      BY <1>6, <2>4 DEF Reference
    <3> QED
      BY <2>2, <3>1 DEF Meant
  <2> QED
    BY <2>3, <2>4
<1>9. ASSUME NEW k \in 1 .. Len(asm'.refs)
      PROVE  Meant(asm'.refs[k])
  <2>1. CASE asm'.refs = asm.refs
    BY <1>3, <2>1 DEF RefsMeant
  <2>2. CASE asm'.refs = Append(asm.refs, r)
    <3>1. asm.refs \in Seq(MacroRef \cup LabelRef)
      BY <1>1, AsmOf
    <3>2. /\ Len(Append(asm.refs, r)) = Len(asm.refs) + 1
          /\ \A l \in 1 .. Len(asm.refs) :
               l \in 1 .. Len(asm.refs) + 1 /\ Append(asm.refs, r)[l] = asm.refs[l]
          /\ Append(asm.refs, r)[Len(asm.refs) + 1] = r
          /\ \A l \in 1 .. Len(asm.refs) + 1 :
               l \in 1 .. Len(asm.refs) \/ l = Len(asm.refs) + 1
      BY <3>1, AppendOf
    <3> QED
      BY <1>3, <1>8, <2>2, <3>2 DEF RefsMeant
  <2> QED
    BY <1>6, <2>1, <2>2
<1>10. ASSUME NEW x, Meant(x)
       PROVE  Meant(x)'
  BY <1>2, <1>6, <1>10 DEF Meant, RefAt, NameAt, NameOf, Text
<1>11. RefsMeant'
  <2>1. ASSUME NEW k \in 1 .. Len(asm'.refs)
        PROVE  Meant(asm.refs[k])'
    <3>1. PICK x : x = asm'.refs[k]
      OBVIOUS
    <3>2. Meant(x)'
      BY <1>9, <1>10, <3>1
    <3> QED
      BY <3>1, <3>2 DEF Meant
  <2> QED
    BY <2>1 DEF RefsMeant
<1> QED
  BY <1>5, <1>7, <1>11 DEF Sound

-----------------------------------------------------------------------------
(***************************************************************************)
(* What buxn_asm leaves to be done: the two loops at the end of a          *)
(* compilation                                                             *)
(***************************************************************************)
\* Everything behind the last symbol that was reached is brought forward.
LEMMA CarriedOf ==
  ASSUME Base, NEW f \in Files
  PROVE  /\ Carried(f) \in Seq(Def)
         /\ \A i \in 1 .. Len(Carried(f)) :
              Carried(f)[i].by = 0 /\ Carried(f)[i].byte > files[f].last
         /\ FileHasError(f) /\ f \in prev.nodes /\ f \in cur.nodes =>
              \A k \in 1 .. Len(prev.defs[f]) :
                prev.defs[f][k].byte > files[f].last =>
                  \E i \in 1 .. Len(Carried(f)) :
                    /\ Carried(f)[i].name = prev.defs[f][k].name
                    /\ Carried(f)[i].byte = prev.defs[f][k].byte
<1>1. CASE ~(FileHasError(f) /\ f \in prev.nodes /\ f \in cur.nodes)
  <2>1. Carried(f) = <<>>
    BY <1>1 DEF Carried
  <2>2. Carried(f) \in Seq(Def) /\ Len(Carried(f)) = 0
    BY <2>1
  <2> QED
    BY <1>1, <2>2
<1>2. CASE FileHasError(f) /\ f \in prev.nodes /\ f \in cur.nodes
  <2> DEFINE old == prev.defs[f]
             T == {k \in DOMAIN old : old[k].byte > files[f].last}
             s == Reverse(Kept(old, T))
  <2>1. old \in Seq(Def) /\ DOMAIN old = 1 .. Len(old)
    BY DEF Base, TypeOK, Contexts
  <2>2. Carried(f) = [k \in 1 .. Len(s) |-> [s[k] EXCEPT !.by = 0]]
    BY <1>2 DEF Carried
  <2>3. /\ T \in SUBSET (1 .. Len(old))
        /\ \A k \in 1 .. Len(old) : old[k].byte > files[f].last => k \in T
        /\ \A k \in T : old[k].byte > files[f].last
    BY <2>1
  <2> HIDE DEF old, T
  <2>4. /\ Kept(old, T) \in Seq(Def)
        /\ \A k \in 1 .. Len(Kept(old, T)) : \E i \in T : Kept(old, T)[k] = old[i]
        /\ \A i \in T : \E k \in 1 .. Len(Kept(old, T)) : Kept(old, T)[k] = old[i]
    BY <2>1, <2>3, KeptOf
  <2>5. /\ s \in Seq(Def)
        /\ Len(s) = Len(Kept(old, T))
        /\ \A k \in 1 .. Len(Kept(old, T)) :
             /\ Len(Kept(old, T)) - k + 1 \in 1 .. Len(Kept(old, T))
             /\ s[Len(Kept(old, T)) - k + 1] = Kept(old, T)[k]
        /\ \A k \in 1 .. Len(Kept(old, T)) :
             /\ Len(Kept(old, T)) - k + 1 \in 1 .. Len(Kept(old, T))
             /\ s[k] = Kept(old, T)[Len(Kept(old, T)) - k + 1]
    BY <2>4, ReverseOf
  <2>6. \A i \in T : \E k \in 1 .. Len(s) : s[k] = old[i]
    BY <2>4, <2>5
  <2>11. \A k \in 1 .. Len(s) : s[k].byte > files[f].last
    <3>1. \A k \in 1 .. Len(Kept(old, T)) : Kept(old, T)[k].byte > files[f].last
      BY <2>3, <2>4
    <3> HIDE DEF s
    <3> QED
      BY <2>5, <3>1
  <2> HIDE DEF s
  <2>7. ASSUME NEW d \in Def
        PROVE  /\ [d EXCEPT !.by = 0] \in Def
               /\ [d EXCEPT !.by = 0].name = d.name
               /\ [d EXCEPT !.by = 0].byte = d.byte
               /\ [d EXCEPT !.by = 0].by = 0
    BY DEF Def
  <2>8. \A k \in 1 .. Len(s) : s[k] \in Def
    BY <2>5
  <2>9. /\ Carried(f) \in Seq(Def) /\ Len(Carried(f)) = Len(s)
        /\ \A k \in 1 .. Len(s) : /\ Carried(f)[k].name = s[k].name
                                  /\ Carried(f)[k].byte = s[k].byte
                                  /\ Carried(f)[k].by = 0
    <3>1. \A k \in 1 .. Len(s) : [s[k] EXCEPT !.by = 0] \in Def
      BY <2>7, <2>8
    <3>2. Carried(f) \in Seq(Def) /\ Len(Carried(f)) = Len(s)
      BY <2>2, <2>5, <3>1, SMTT(30)
    <3>3. \A k \in 1 .. Len(s) : Carried(f)[k] = [s[k] EXCEPT !.by = 0]
      BY <2>2
    <3>4. ASSUME NEW k \in 1 .. Len(s)
          PROVE  /\ Carried(f)[k].name = s[k].name
                 /\ Carried(f)[k].byte = s[k].byte
                 /\ Carried(f)[k].by = 0
      <4>1. PICK d \in Def : d = s[k]
        BY <2>8
      <4>2. Carried(f)[k] = [d EXCEPT !.by = 0]
        BY <3>3, <4>1
      <4> QED
        BY <2>7, <4>1, <4>2
    <3> QED
      BY <3>2, <3>4
  <2>10. ASSUME NEW k \in 1 .. Len(old), old[k].byte > files[f].last
         PROVE  \E i \in 1 .. Len(Carried(f)) : /\ Carried(f)[i].name = old[k].name
                                                /\ Carried(f)[i].byte = old[k].byte
    <3>1. PICK i \in 1 .. Len(s) : s[i] = old[k]
      BY <2>3, <2>6, <2>10
    <3> QED
      BY <2>9, <3>1
  <2> QED
    BY <2>11, <2>9, <2>10 DEF old
<1> QED
  BY <1>1, <1>2

\* A reference that the assembler has handed over, once it is connected
LEMMA ResolvedLeads ==
  ASSUME Base, Sound, Working, NEW r \in MacroRef \cup LabelRef,
         Meant(r), Resolve(r) # None,
         NEW x, x = [byte |-> r.byte, to |-> Resolve(r), by |-> program]
  PROVE  x \in Ref /\ Leads(r.file, x)
<1>1. asm \in AsmStates /\ program \in Nat
  BY BaseParts
<1>2. PICK n : n = Resolve(r)
  OBVIOUS
<1>3. n \in Places /\ Made(n) /\ NameOf(n) = NameAt(r.file, r.byte)
  <2>1. CASE r.type = "macro_ref"
    <3>1. n = asm.macros[r.id] /\ r.id \in 1 .. Len(asm.macros)
      BY <1>2, <2>1 DEF Resolve, Meant
    <3>2. n \in Places
      BY <1>1, <3>1, AsmOf
    <3> QED
      BY <2>1, <3>1, <3>2 DEF Meant, Sound, MacrosMade
  <2>2. CASE r.type = "label_ref"
    <3>1. n = asm.labels[r.id] /\ r.id \in Names /\ r.id = NameAt(r.file, r.byte)
      BY <1>2, <2>2, RefParts DEF Resolve, Meant
    <3>2. n # None /\ n \in Places \cup {None}
      BY <1>1, <1>2, <3>1, AsmOf
    <3> QED
      BY <3>1, <3>2 DEF Sound, LabelsMade
  <2> QED
    BY <2>1, <2>2, RefParts
<1>4. x.byte = r.byte /\ x.to = n /\ x.by = program
  BY <1>2
<1>5. x \in Ref
  BY <1>1, <1>2, <1>3, RefParts DEF Ref, Places
<1> QED
  BY <1>3, <1>4, <1>5 DEF Leads, Made, Meant

LEMMA ConnectedOf ==
  ASSUME Base, Sound, pc = "asm", NEW f \in Files
  PROVE  /\ Connected(f) \in Seq(Ref)
         /\ \A k \in 1 .. Len(Connected(f)) : Leads(f, Connected(f)[k])
<1> DEFINE T == {k \in DOMAIN asm.refs : /\ asm.refs[k].file = f
                                         /\ Resolve(asm.refs[k]) # None}
           s == Kept(asm.refs, T)
           node(k) == [byte |-> s[k].byte, to |-> Resolve(s[k]), by |-> program]
<1>1. Connected(f) = [k \in 1 .. Len(s) |-> node(k)]
  BY DEF Connected
<1>2. asm.refs \in Seq(MacroRef \cup LabelRef)
  BY BaseParts, AsmOf
<1>3. DOMAIN asm.refs = 1 .. Len(asm.refs) /\ T \in SUBSET (1 .. Len(asm.refs))
  BY <1>2
<1>4. \A i \in T : /\ asm.refs[i] \in MacroRef \cup LabelRef
                   /\ asm.refs[i].file = f /\ Resolve(asm.refs[i]) # None
                   /\ Meant(asm.refs[i])
  <2>1. RefsMeant
    BY DEF Sound, Working
  <2> QED
    BY <1>2, <1>3, <2>1 DEF RefsMeant
<1> HIDE DEF T
<1>5. /\ s \in Seq(MacroRef \cup LabelRef)
      /\ \A k \in 1 .. Len(s) : \E i \in T : s[k] = asm.refs[i]
  BY <1>2, <1>3, KeptOf
<1> HIDE DEF s
<1>6. ASSUME NEW k \in 1 .. Len(s)
      PROVE  node(k) \in Ref /\ Leads(f, node(k))
  <2>1. PICK r : r = s[k]
    OBVIOUS
  <2>2. r \in MacroRef \cup LabelRef /\ r.file = f /\ Resolve(r) # None /\ Meant(r)
    BY <1>4, <1>5, <2>1
  <2>3. PICK x : x = node(k)
    OBVIOUS
  <2>4. x = [byte |-> r.byte, to |-> Resolve(r), by |-> program]
    BY <2>1, <2>3
  <2>5. x \in Ref /\ Leads(r.file, x)
    BY <2>2, <2>4, ResolvedLeads DEF Working
  <2> QED
    BY <2>2, <2>3, <2>5
<1> HIDE DEF node
<1>7. Len(s) \in Nat
  BY <1>5
<1>8. Connected(f) \in Seq(Ref) /\ Len(Connected(f)) = Len(s)
  BY <1>1, <1>6, <1>7
<1>9. \A k \in 1 .. Len(s) : Connected(f)[k] = node(k)
  BY <1>1
<1> QED
  BY <1>6, <1>8, <1>9

\* What the two loops do to the context
LEMMA Ended ==
  ASSUME Base, Sound, EndCompile
  PROVE  /\ cur' \in Contexts
         /\ cur'.nodes = cur.nodes
         /\ \A f \in Files : /\ cur'.defs[f] = cur.defs[f] \o Carried(f)
                             /\ cur'.refs[f] = cur.refs[f] \o Connected(f)
<1> DEFINE D == [f \in Files |-> cur.defs[f] \o Carried(f)]
           R == [f \in Files |-> cur.refs[f] \o Connected(f)]
<1>1. cur \in Contexts /\ pc = "asm"
  BY BaseParts DEF EndCompile
<1>2. cur' = [cur EXCEPT !.defs = D, !.refs = R]
  BY DEF EndCompile
<1>3. \A f \in Files : /\ cur.defs[f] \o Carried(f) \in Seq(Def)
                       /\ cur.refs[f] \o Connected(f) \in Seq(Ref)
  BY <1>1, DefsOf, CarriedOf, ConnectedOf, JoinOf
<1>4. /\ D \in [Files -> Seq(Def)] /\ R \in [Files -> Seq(Ref)]
      /\ \A f \in Files : D[f] = cur.defs[f] \o Carried(f) /\ R[f] = cur.refs[f] \o Connected(f)
  BY <1>3
<1> HIDE DEF D, R
<1>5. cur' \in Contexts /\ cur'.nodes = cur.nodes /\ cur'.defs = D /\ cur'.refs = R
  BY <1>1, <1>2, <1>4 DEF Contexts
<1> QED
  BY <1>4, <1>5

LEMMA EndBase ==
  ASSUME Base, Sound, EndCompile
  PROVE  Base' /\ TextsStay /\ Grows
<1>1. /\ pc = "asm" /\ todo = <<>> /\ entry' = None /\ pc' = "next"
      /\ UNCHANGED <<docs, prev, files, queue, todo, reading, asm, runs, updates,
                     program, opens, owed>>
  BY DEF EndCompile
<1>2. cur \in Contexts /\ cur' \in Contexts
  BY BaseParts, Ended
<1>3. TypeOK'
  BY <1>1, <1>2 DEF Base, TypeOK
<1>4. Located' /\ OpenFinite' /\ TextsStay
  BY <1>1 DEF Base, Located, OpenFinite, TextsStay
<1>5. Grows
  <2>1. ASSUME NEW f \in Files
        PROVE  /\ Len(cur.defs[f]) <= Len(cur'.defs[f])
               /\ \A k \in 1 .. Len(cur.defs[f]) : cur'.defs[f][k] = cur.defs[f][k]
    <3>1. PICK a \in Seq(Def), b \in Seq(Def) :
                 a = cur.defs[f] /\ cur'.defs[f] = a \o b
      BY <1>2, DefsOf, CarriedOf, Ended
    <3>2. /\ Len(a \o b) = Len(a) + Len(b) /\ Len(a) \in Nat /\ Len(b) \in Nat
          /\ \A k \in 1 .. Len(a) : (a \o b)[k] = a[k]
      BY JoinOf
    <3>3. Len(a) <= Len(a \o b)
      BY <3>2
    <3> QED
      BY <3>1, <3>2, <3>3, Zenon
  <2> QED
    BY <2>1 DEF Grows
<1> QED
  BY <1>3, <1>4, <1>5 DEF Base

LEMMA EndSound ==
  ASSUME Base, Sound, EndCompile
  PROVE  Sound'
<1>1. TextsStay /\ Grows /\ cur \in Contexts /\ cur' \in Contexts /\ pc = "asm" /\ pc' = "next"
  BY EndBase, BaseParts, Ended DEF EndCompile
<1>2. ASSUME NEW f \in Files, NEW k \in 1 .. Len(cur'.refs[f])
      PROVE  Leads(f, cur.refs[f][k])'
  <2>1. PICK a \in Seq(Ref), b \in Seq(Ref) :
               a = cur.refs[f] /\ b = Connected(f) /\ cur'.refs[f] = a \o b
    BY <1>1, DefsOf, ConnectedOf, Ended
  <2>2. PICK r : r = (a \o b)[k]
    OBVIOUS
  <2>3. r \in Ref /\ Leads(f, r)
    <3>1. CASE k \in 1 .. Len(a) /\ r = a[k]
      BY <2>1, <3>1 DEF Sound, AllLead
    <3>2. CASE \E i \in 1 .. Len(b) : r = b[i]
      BY <1>1, <2>1, <3>2, ConnectedOf
    <3>3. k \in 1 .. Len(a \o b)
      BY <2>1
    <3>4. \/ k \in 1 .. Len(a) /\ (a \o b)[k] = a[k]
          \/ \E i \in 1 .. Len(b) : (a \o b)[k] = b[i]
      BY <3>3, JoinElements
    <3> QED
      BY <2>2, <3>1, <3>2, <3>4, Zenon
  <2>4. Leads(f, r)'
    BY <1>1, <2>3, LeadStays
  <2> QED
    BY <2>1, <2>2, <2>4 DEF Leads, NameOf
<1>3. AllLead'
  BY <1>2 DEF AllLead
<1> QED
  BY <1>1, <1>3 DEF Sound, Working

\* The steps between two compilations
LEMMA EntrySound ==
  ASSUME Base, Sound, CompileEntry
  PROVE  Sound'
<1>1. cur' = cur /\ files' = files /\ asm' = NewAsm
  BY DEF CompileEntry
<1>2. AllLead'
  BY <1>1 DEF Sound, AllLead, Leads, RefAt, NameAt, NameOf, Text
<1>3. /\ asm'.macros = <<>> /\ asm'.refs = <<>>
      /\ \A n \in Names : asm'.labels[n] = None
  BY <1>1 DEF NewAsm
<1>4. MacrosMade' /\ LabelsMade' /\ RefsMeant'
  BY <1>3 DEF MacrosMade, LabelsMade, RefsMeant
<1> QED
  BY <1>2, <1>4 DEF Sound

LEMMA StartSound ==
  ASSUME StartRun
  PROVE  Sound'
<1>1. cur' = [EmptyContext EXCEPT !.nodes = OpenDocs(docs)] /\ pc' = "next"
  BY DEF StartRun
<1>2. \A f \in Files : cur'.refs[f] = <<>>
  BY <1>1 DEF EmptyContext
<1>3. AllLead'
  BY <1>2 DEF AllLead
<1> QED
  BY <1>1, <1>3 DEF Sound, Working

LEMMA EndRunBase ==
  ASSUME Base, EndRun
  PROVE  Base'
<1>1. /\ pc = "next" /\ pc' = "idle"
      /\ owed' = [f \in Files |->
           IF files[f] = NotRead THEN {}
           ELSE IF files[f].err THEN {x \in owed[f] : x[2] > files[f].last}
           ELSE NamesIn(cur.defs[f])]
      /\ UNCHANGED <<docs, prev, cur, files, queue, entry, todo, reading, asm, runs,
                     updates, program, opens>>
  BY DEF EndRun
<1>2. owed' \in [Files -> SUBSET (Names \X Nat)]
  <2>1. ASSUME NEW f \in Files
        PROVE  NamesIn(cur.defs[f]) \subseteq Names \X Nat
    <3>1. cur.defs[f] \in Seq(Def)
      BY DefsOf, BaseParts
    <3>2. \A k \in DOMAIN cur.defs[f] : cur.defs[f][k] \in Def
      BY <3>1
    <3>3. \A d \in Def : <<d.name, d.byte>> \in Names \X Nat
      BY DEF Def
    <3> QED
      BY <3>2, <3>3 DEF NamesIn
  <2>2. owed \in [Files -> SUBSET (Names \X Nat)]
    BY DEF Base, TypeOK
  <2>3. \A f \in Files : {x \in owed[f] : x[2] > files[f].last} \subseteq Names \X Nat
    BY <2>2
  <2> QED
    BY <1>1, <2>1, <2>3
<1>3. TypeOK'
  BY <1>1, <1>2 DEF Base, TypeOK
<1> QED
  BY <1>1, <1>3 DEF Base, Located, IsPlace, OpenFinite

\* The steps that leave the context, the files and the assembler alone
LEMMA AsideSound ==
  ASSUME Sound, UNCHANGED <<cur, files, asm, program>>, Working' => Working
  PROVE  Sound'
<1>1. AllLead'
  BY DEF Sound, AllLead, Leads, RefAt, NameAt, NameOf, Text
<1>2. ASSUME Working
      PROVE  MacrosMade' /\ LabelsMade' /\ RefsMeant'
  <2>1. MacrosMade /\ LabelsMade /\ RefsMeant
    BY <1>2 DEF Sound
  <2>2. MacrosMade' /\ LabelsMade'
    BY <2>1 DEF MacrosMade, LabelsMade, Made, NameOf
  <2>3. RefsMeant'
    BY <2>1 DEF RefsMeant, Meant, RefAt, NameAt, NameOf, Text
  <2> QED
    BY <2>2, <2>3
<1> QED
  BY <1>1, <1>2 DEF Sound

SoundInv == Base /\ Sound

LEMMA SoundInit == Init => SoundInv
<1> SUFFICES ASSUME Init PROVE SoundInv
  OBVIOUS
<1>1. TypeOK /\ Located
  BY SymbolsInitType
<1>2. OpenFinite
  <2>1. OpenDocs(docs) = {}
    BY DEF Init, NoDocs, OpenDocs
  <2> QED
    BY <2>1, FS_EmptySet DEF OpenFinite
<1>3. \A f \in Files : cur.refs[f] = <<>>
  BY DEF Init, EmptyContext
<1>4. Sound
  BY <1>3 DEF Init, Sound, AllLead, Working
<1> QED
  BY <1>1, <1>2, <1>4 DEF SoundInv, Base

LEMMA SoundNext == SoundInv /\ [Next]_vars => SoundInv'
<1> SUFFICES ASSUME SoundInv, [Next]_vars PROVE SoundInv'
  OBVIOUS
<1> USE DEF SoundInv
<1>1. ASSUME NEW m \in Notifications, Update(m)
      PROVE  SoundInv'
  <2>1. UNCHANGED <<cur, files, asm, program, pc>>
    BY <1>1 DEF Update
  <2> QED
    BY <1>1, <2>1, UpdateBase, AsideSound DEF Working
<1>2. CASE StartRun
  BY <1>2, StartBase, StartSound
<1>3. CASE SkipEntry
  <2>1. UNCHANGED <<cur, files, asm, program, pc>>
    BY <1>3 DEF SkipEntry
  <2> QED
    BY <1>3, <2>1, SkipBase, AsideSound DEF Working
<1>4. CASE CompileEntry
  BY <1>4, CompileBase, EntrySound
<1>5. CASE OpenEntry \/ Include
  BY <1>5, IncludeBase, OtherSound
<1>6. CASE IncludeAgain
  BY <1>6, AgainBase, OtherSound
<1>7. CASE ReadFile
  BY <1>7, ReadBase, OtherSound
<1>8. CASE ReadFailure
  BY <1>8, FailureBase, OtherSound
<1>9. CASE PutDefinition
  BY <1>9, DefinitionBase, DefinitionSound
<1>10. CASE PutGenerated
  BY <1>10, GeneratedBase, OtherSound
<1>11. CASE PutReferences
  BY <1>11, ReferencesBase, ReferencesSound
<1>12. CASE Annotate
  BY <1>12, AnnotateBase, OtherSound
<1>13. CASE ReportError \/ ChessReport
  BY <1>13, ReportBase, OtherSound
<1>14. CASE EndCompile
  BY <1>14, EndBase, EndSound
<1>15. CASE EndRun
  <2>1. UNCHANGED <<cur, files, asm, program>> /\ ~Working'
    BY <1>15 DEF EndRun, Working
  <2> QED
    BY <1>15, <2>1, EndRunBase, AsideSound
<1>16. CASE UNCHANGED vars
  <2>1. Base'
    BY <1>16 DEF vars, Base, TypeOK, Located, IsPlace, OpenFinite
  <2>2. UNCHANGED <<cur, files, asm, program, pc>>
    BY <1>16 DEF vars
  <2> QED
    BY <2>1, <2>2, AsideSound DEF Working
<1> QED
  BY <1>1, <1>2, <1>3, <1>4, <1>5, <1>6, <1>7, <1>8, <1>9, <1>10, <1>11, <1>12,
     <1>13, <1>14, <1>15, <1>16 DEF Next

\* The contexts, the files and the state of the assembler have their types: no
\* step makes a node of a file that is not there, whatever the contents are.
THEOREM TypeCorrect == Spec => []TypeOK
<1>1. SoundInv => TypeOK
  BY DEF SoundInv, Base
<1> QED
  BY <1>1, SoundInit, SoundNext, PTL DEF Spec

\* "Go to definition" (buxn_ls_find_definition) never leads to a definition of
\* another compilation, of an earlier run or of another name, whenever it is
\* asked, for any number of files, entries and runs.
THEOREM AlwaysSound == Spec => []ReferenceSound
<1>1. SoundInv => ReferenceSound
  <2> SUFFICES ASSUME SoundInv, NEW f \in Files, NEW k \in DOMAIN cur.refs[f]
               PROVE  LET r == cur.refs[f][k]
                          n == r.to
                      IN  /\ n[2] \in DOMAIN cur.defs[n[1]]
                          /\ cur.defs[n[1]][n[2]].by = r.by
                          /\ cur.defs[n[1]][n[2]].name = Text(f)[r.byte + 1].name
    BY Zenon DEF ReferenceSound
  <2>1. cur \in Contexts
    BY BaseParts DEF SoundInv
  <2>2. cur.refs[f] \in Seq(Ref)
    BY <2>1, DefsOf
  <2>3. k \in 1 .. Len(cur.refs[f]) /\ cur.refs[f][k] \in Ref
    BY <2>2
  <2>4. PICK r \in Ref : r = cur.refs[f][k]
    BY <2>3
  <2>5. Leads(f, r)
    BY <2>3, <2>4 DEF SoundInv, Sound, AllLead
  <2>6. r.to[1] \in Files
    BY DEF Ref
  <2>7. cur.defs[r.to[1]] \in Seq(Def)
    BY <2>1, <2>6, DefsOf
  <2>8. DOMAIN cur.defs[r.to[1]] = 1 .. Len(cur.defs[r.to[1]])
    BY <2>7
  <2> QED
    BY <2>4, <2>5, <2>8 DEF Leads, NameOf, NameAt
<1> QED
  BY <1>1, SoundInit, SoundNext, PTL DEF Spec

-----------------------------------------------------------------------------
(***************************************************************************)
(* Error tolerance: what a file owes is among the definitions of the last  *)
(* run, and between two compilations what is behind the last symbol of a   *)
(* file with errors has been brought forward.                              *)
(***************************************************************************)
\* Each context has a node for each file it knows anything of.
Known ==
    /\ \A f \in Files : files[f] # NotRead => f \in cur.nodes
    /\ \A f \in Files : cur.defs[f] # <<>> => f \in cur.nodes
    /\ \A f \in Files : prev.defs[f] # <<>> => f \in prev.nodes

Held(f) == owed[f] \subseteq NamesIn(prev.defs[f])

Forwarded(f) ==
    FileHasError(f) =>
      \A x \in owed[f] : x[2] > files[f].last => x \in NamesIn(cur.defs[f])

Owing ==
    /\ Known
    /\ pc = "idle" => Tolerant
    /\ pc # "idle" => \A f \in Files : Held(f)
    /\ pc = "next" => \A f \in Files : Forwarded(f)

\* A step of the assembler keeps the old symbols where they are.
LEMMA OwingStays ==
  ASSUME Owing, pc # "idle", pc' \notin {"idle", "next"},
         prev' = prev, owed' = owed,
         \A f \in Files : f \in cur.nodes => f \in cur'.nodes,
         \A f \in Files : files'[f] # NotRead => files[f] # NotRead \/ f \in cur'.nodes,
         \A f \in Files : cur'.defs[f] # <<>> => cur.defs[f] # <<>> \/ f \in cur'.nodes
  PROVE  Owing'
<1>1. Known'
  BY DEF Owing, Known
<1>2. \A f \in Files : Held(f)'
  BY DEF Owing, Held
<1> QED
  BY <1>1, <1>2 DEF Owing

LEMMA OpenedOwing ==
  ASSUME Base, Owing, NEW f \in Files, NEW t \in Texts, NEW rest, Opened(f, t, rest),
         pc # "idle", prev' = prev, owed' = owed,
         \A g \in Files : g # f => files'[g] = files[g]
  PROVE  Owing'
<1>1. /\ cur'.defs = cur.defs /\ cur'.nodes = cur.nodes \cup {f} /\ pc' = "asm"
  BY OpenedContext, BaseParts DEF Opened
<1> QED
  BY <1>1, OwingStays

LEMMA FopenOwing ==
  ASSUME Base, Owing, NEW f \in Files, pc \in {"open", "asm"}, Fopen(f, Rest)
  PROVE  Owing'
<1>1. prev' = prev /\ owed' = owed /\ TypeOK
  BY BaseParts DEF Fopen
<1>2. CASE /\ files[f] # NotRead
           /\ Opened(f, files[f].text, Rest)
           /\ UNCHANGED <<files, reading>>
  <2>1. files[f].text \in Texts
    BY <1>1, <1>2, FileOf
  <2> QED
    BY <1>1, <1>2, <2>1, OpenedOwing
<1>3. CASE /\ files[f] = NotRead
           /\ docs[f] # Closed
           /\ files' = [files EXCEPT ![f] = NewFile(docs[f])]
           /\ Opened(f, docs[f], Rest)
           /\ UNCHANGED reading
  <2>1. docs[f] \in Texts /\ files \in [Files -> FileStates \cup {NotRead}]
    BY <1>1, <1>3 DEF TypeOK, Docs
  <2>2. \A g \in Files : g # f => files'[g] = files[g]
    BY <1>3, <2>1
  <2> QED
    BY <1>1, <1>3, <2>1, <2>2, OpenedOwing
<1>4. CASE /\ files[f] = NotRead
           /\ docs[f] = Closed
           /\ reading' = f
           /\ pc' = "read"
           /\ UNCHANGED <<cur, files, todo, opens>>
  BY <1>1, <1>4, OwingStays
<1> QED
  BY <1>2, <1>3, <1>4 DEF Fopen

\* Whatever happens to the file in hand, no other file becomes known.
LEMMA HereChanged ==
  ASSUME Base, todo # <<>>, NEW g, files' = [files EXCEPT ![Here[1]] = g]
  PROVE  \A f \in Files : files'[f] # NotRead => files[f] # NotRead
<1>1. Here[1] \in Files /\ files[Here[1]] # NotRead
  BY HereOf DEF Base
<1>2. files \in [Files -> FileStates \cup {NotRead}]
  BY DEF Base, TypeOK
<1> QED
  BY <1>1, <1>2

\* The steps of the assembler that do not open a file
LEMMA AssemblerOwing ==
  ASSUME Base, Owing,
         \/ IncludeAgain \/ ReadFailure \/ PutGenerated \/ PutReferences
         \/ Annotate \/ ReportError \/ ChessReport
  PROVE  Owing'
<1>1. pc \in {"asm", "read"} /\ pc' = "asm" /\ prev' = prev /\ owed' = owed
  BY DEF IncludeAgain, ReadFailure, PutGenerated, PutReferences, Annotate, ReportError,
         ChessReport, MarkError, At
<1>2. \/ files' = files
      \/ todo # <<>> /\ \E g : files' = [files EXCEPT ![Here[1]] = g]
  <2>1. CASE IncludeAgain \/ PutReferences
    BY <2>1 DEF IncludeAgain, PutReferences
  <2>2. CASE ReadFailure
    BY <2>2 DEF ReadFailure
  <2>3. CASE PutGenerated
    BY <2>3 DEF PutGenerated, At
  <2>4. CASE Annotate
    BY <2>4 DEF Annotate, At
  <2>5. CASE ReportError \/ ChessReport
    BY <2>5 DEF ReportError, ChessReport, MarkError, At
  <2> QED
    BY <2>1, <2>2, <2>3, <2>4, <2>5
<1>3. \A f \in Files : files'[f] # NotRead => files[f] # NotRead
  BY <1>2, HereChanged
<1>4. /\ cur'.nodes = cur.nodes
      /\ \A f \in Files : cur'.defs[f] # <<>> => cur.defs[f] # <<>>
  <2>1. CASE Annotate
    <3>1. cur \in Contexts /\ cur' \in Contexts /\ cur'.nodes = cur.nodes
      BY <2>1, Annotated, BaseParts
    <3>2. \A f \in Files : /\ cur.defs[f] \in Seq(Def) /\ cur'.defs[f] \in Seq(Def)
                           /\ Len(cur'.defs[f]) = Len(cur.defs[f])
      BY <2>1, <3>1, Annotated DEF Contexts
    <3> QED
      BY <3>1, <3>2
  <2>2. CASE ~Annotate
    <3>1. cur' = cur
      BY <2>2 DEF IncludeAgain, ReadFailure, PutGenerated, PutReferences, ReportError,
                  ChessReport, MarkError
    <3> QED
      BY <3>1
  <2> QED
    BY <2>1, <2>2
<1> QED
  BY <1>1, <1>3, <1>4, OwingStays

LEMMA DefinitionOwing ==
  ASSUME Base, Owing, PutDefinition
  PROVE  Owing'
<1>1. /\ pc = "asm" /\ pc' = "asm" /\ todo # <<>> /\ prev' = prev /\ owed' = owed
      /\ \E g : files' = [files EXCEPT ![Here[1]] = g]
  BY DEF PutDefinition, At
<1>2. \A f \in Files : files'[f] # NotRead => files[f] # NotRead
  BY <1>1, HereChanged
<1>3. PICK f, node : /\ f = Here[1] /\ node = <<f, Len(cur.defs[f]) + 1>>
                     /\ \E def \in Def : Adds(f, node, def)
  BY Defined
<1>4. PICK def \in Def : Adds(f, node, def)
  BY <1>3
<1>5. /\ f \in Files /\ cur'.nodes = cur.nodes
      /\ cur'.defs = [cur.defs EXCEPT ![f] = Append(cur.defs[f], def)]
  BY <1>4 DEF Adds
<1>6. f \in cur.nodes
  <2>1. files[f] # NotRead
    BY <1>1, <1>3, HereOf DEF Base
  <2> QED
    BY <1>5, <2>1 DEF Owing, Known
<1>7. \A g \in Files : g # f => cur'.defs[g] = cur.defs[g]
  <2>1. cur.defs \in [Files -> Seq(Def)]
    BY BaseParts DEF Contexts
  <2> QED
    BY <1>5, <2>1
<1> QED
  BY <1>1, <1>2, <1>5, <1>6, <1>7, OwingStays

\* The symbols that are brought forward are what the file still owes.
LEMMA EndOwing ==
  ASSUME Base, Sound, Owing, EndCompile
  PROVE  Owing'
<1>1. /\ pc = "asm" /\ pc' = "next"
      /\ UNCHANGED <<prev, files, owed>>
  BY DEF EndCompile
<1>2. /\ cur \in Contexts /\ cur' \in Contexts /\ cur'.nodes = cur.nodes
      /\ \A f \in Files : cur'.defs[f] = cur.defs[f] \o Carried(f)
  BY Ended, BaseParts
<1>3. ASSUME NEW f \in Files, cur'.defs[f] # <<>>
      PROVE  f \in cur.nodes
  <2>1. CASE Carried(f) = <<>>
    <3>1. cur.defs[f] \in Seq(Def) /\ cur'.defs[f] = cur.defs[f] \o <<>>
      BY <1>2, <2>1, DefsOf
    <3>2. cur.defs[f] # <<>>
      BY <1>3, <3>1
    <3> QED
      BY <3>2 DEF Owing, Known
  <2>2. CASE Carried(f) # <<>>
    BY <2>2 DEF Carried
  <2> QED
    BY <2>1, <2>2
<1>4. Known'
  BY <1>1, <1>2, <1>3 DEF Owing, Known
<1>5. \A f \in Files : Held(f)'
  BY <1>1 DEF Owing, Held
<1>6. ASSUME NEW f \in Files, FileHasError(f), NEW x \in owed[f], x[2] > files[f].last
      PROVE  x \in NamesIn(cur'.defs[f])
  <2>1. x \in NamesIn(prev.defs[f])
    BY <1>1 DEF Owing, Held
  <2>2. prev.defs[f] \in Seq(Def)
    BY DEF Base, TypeOK, Contexts
  <2>3. PICK k \in 1 .. Len(prev.defs[f]) :
               x = <<prev.defs[f][k].name, prev.defs[f][k].byte>>
    BY <2>1, <2>2 DEF NamesIn
  <2>4. f \in prev.nodes
    <3>1. prev.defs[f] # <<>>
      BY <2>2, <2>3
    <3> QED
      BY <3>1 DEF Owing, Known
  <2>5. f \in cur.nodes
    BY <1>6 DEF FileHasError, Owing, Known
  <2>6. PICK a \in Seq(Def), b \in Seq(Def) :
               a = cur.defs[f] /\ b = Carried(f) /\ cur'.defs[f] = a \o b
    BY <1>2, DefsOf, CarriedOf
  <2>7. prev.defs[f][k].byte > files[f].last
    BY <1>6, <2>3
  <2>8. PICK i \in 1 .. Len(b) : x = <<b[i].name, b[i].byte>>
    BY <1>6, <2>3, <2>4, <2>5, <2>6, <2>7, CarriedOf
  <2>9. (a \o b)[Len(a) + i] = b[i] /\ Len(a) + i \in DOMAIN (a \o b)
    <3>1. /\ a \o b \in Seq(Def) /\ Len(a \o b) = Len(a) + Len(b)
          /\ (a \o b)[Len(a) + i] = b[i] /\ Len(a) \in Nat /\ Len(b) \in Nat
      BY JoinOf
    <3>2. Len(a) + i \in 1 .. Len(a \o b)
      BY <3>1
    <3> QED
      BY <3>1, <3>2
  <2> QED
    BY <2>6, <2>8, <2>9 DEF NamesIn
<1>7. \A f \in Files : Forwarded(f)'
  BY <1>1, <1>6 DEF Forwarded, FileHasError, NamesIn
<1> QED
  BY <1>1, <1>4, <1>5, <1>7 DEF Owing

LEMMA StartOwing ==
  ASSUME Base, Owing, StartRun
  PROVE  Owing'
<1>1. /\ pc = "idle" /\ pc' = "next" /\ prev' = cur /\ owed' = owed
      /\ files' = NothingRead
      /\ cur' = [EmptyContext EXCEPT !.nodes = OpenDocs(docs)]
  BY DEF StartRun
<1>2. \A f \in Files : cur'.defs[f] = <<>> /\ files'[f] = NotRead
  BY <1>1 DEF EmptyContext, NothingRead
<1>3. Known'
  BY <1>1, <1>2 DEF Owing, Known
<1>4. \A f \in Files : Held(f)'
  BY <1>1 DEF Owing, Tolerant, Held
<1>5. \A f \in Files : Forwarded(f)'
  BY <1>2 DEF Forwarded, FileHasError
<1> QED
  BY <1>1, <1>3, <1>4, <1>5 DEF Owing

LEMMA EndRunOwing ==
  ASSUME Base, Owing, EndRun
  PROVE  Owing'
<1>1. /\ pc = "next" /\ pc' = "idle"
      /\ owed' = [f \in Files |->
           IF files[f] = NotRead THEN {}
           ELSE IF files[f].err THEN {x \in owed[f] : x[2] > files[f].last}
           ELSE NamesIn(cur.defs[f])]
      /\ UNCHANGED <<prev, cur, files>>
  BY DEF EndRun
<1>2. ASSUME NEW f \in Files
      PROVE  owed'[f] \subseteq NamesIn(cur.defs[f])
  <2>1. Forwarded(f)
    BY <1>1 DEF Owing
  <2>2. CASE FileHasError(f)
    BY <1>1, <2>1, <2>2 DEF FileHasError, Forwarded
  <2>3. CASE ~FileHasError(f)
    BY <1>1, <2>3 DEF FileHasError
  <2> QED
    BY <2>2, <2>3
<1>3. Tolerant'
  BY <1>1, <1>2 DEF Tolerant, NamesIn
<1>4. Known'
  BY <1>1 DEF Owing, Known
<1> QED
  BY <1>1, <1>3, <1>4 DEF Owing

\* The steps that change neither a context nor a file
LEMMA AsideOwing ==
  ASSUME Owing, UNCHANGED <<prev, cur, files, owed>>,
         pc' = pc \/ (pc = "next" /\ pc' = "open")
  PROVE  Owing'
<1>1. Known'
  BY DEF Owing, Known
<1>2. Tolerant \/ pc # "idle"
  BY DEF Owing
<1>3. pc' = "idle" => Tolerant'
  BY <1>2 DEF Tolerant, NamesIn
<1>4. pc # "idle" => \A f \in Files : Held(f)'
  BY DEF Owing, Held, NamesIn
<1>5. pc = "next" => \A f \in Files : Forwarded(f)'
  BY DEF Owing, Forwarded, FileHasError, NamesIn
<1> QED
  BY <1>1, <1>3, <1>4, <1>5 DEF Owing

LEMMA OwingInit == Init => Owing
<1> SUFFICES ASSUME Init PROVE Owing
  OBVIOUS
<1>1. \A f \in Files : /\ cur.defs[f] = <<>> /\ prev.defs[f] = <<>>
                       /\ files[f] = NotRead /\ owed[f] = {}
  BY DEF Init, EmptyContext, NothingRead
<1>2. Known
  BY <1>1 DEF Known
<1>3. Tolerant /\ pc = "idle"
  BY <1>1 DEF Init, Tolerant
<1> QED
  BY <1>2, <1>3 DEF Owing

LEMMA OwingNext == SoundInv /\ Owing /\ [Next]_vars => Owing'
<1> SUFFICES ASSUME SoundInv, Owing, [Next]_vars PROVE Owing'
  OBVIOUS
<1>0. Base /\ Sound
  BY DEF SoundInv
<1>1. ASSUME NEW m \in Notifications, Update(m)
      PROVE  Owing'
  BY <1>1, AsideOwing DEF Update
<1>2. CASE StartRun
  BY <1>0, <1>2, StartOwing
<1>3. CASE SkipEntry
  BY <1>3, AsideOwing DEF SkipEntry
<1>4. CASE CompileEntry
  BY <1>4, AsideOwing DEF CompileEntry
<1>5. CASE OpenEntry
  <2>1. pc = "open" /\ entry \in Files /\ Fopen(entry, Rest)
    BY <1>0, <1>5 DEF OpenEntry, Base, Located
  <2> QED
    BY <1>0, <2>1, FopenOwing
<1>6. CASE Include
  <2>1. /\ pc = "asm" /\ todo # <<>> /\ ItemAt(Here).op = "include"
        /\ Fopen(ItemAt(Here).file, Rest)
    BY <1>6 DEF Include, At
  <2>2. ItemAt(Here).file \in Files
    BY <1>0, <2>1, HereOf, ItemKinds DEF Base
  <2> QED
    BY <1>0, <2>1, <2>2, FopenOwing
<1>7. CASE ReadFile
  <2>1. /\ pc = "read" /\ reading \in Files /\ Disk[reading] \in Texts
        /\ Opened(reading, Disk[reading], Rest) /\ prev' = prev /\ owed' = owed
        /\ files' = [files EXCEPT ![reading] = NewFile(Disk[reading])]
    BY <1>0, <1>7, SymbolsAssumption DEF ReadFile, Base, Located
  <2>2. files \in [Files -> FileStates \cup {NotRead}]
    BY <1>0 DEF Base, TypeOK
  <2>3. \A g \in Files : g # reading => files'[g] = files[g]
    BY <2>1, <2>2
  <2> QED
    BY <1>0, <2>1, <2>3, OpenedOwing
<1>8. CASE \/ IncludeAgain \/ ReadFailure \/ PutGenerated \/ PutReferences
           \/ Annotate \/ ReportError \/ ChessReport
  BY <1>0, <1>8, AssemblerOwing
<1>9. CASE PutDefinition
  BY <1>0, <1>9, DefinitionOwing
<1>10. CASE EndCompile
  BY <1>0, <1>10, EndOwing
<1>11. CASE EndRun
  BY <1>0, <1>11, EndRunOwing
<1>12. CASE UNCHANGED vars
  BY <1>12, AsideOwing DEF vars
<1> QED
  BY <1>1, <1>2, <1>3, <1>4, <1>5, <1>6, <1>7, <1>8, <1>9, <1>10, <1>11, <1>12 DEF Next

\* "Bring forward old symbols in files with error": however many runs a file
\* has errors in, it goes on to list the definitions of its last run without
\* one that lie behind every symbol these runs have reached.
THEOREM AlwaysTolerant == Spec => []Tolerant
<1>1. Owing => Tolerant
  BY DEF Owing, Tolerant
<1> QED
  BY <1>1, SoundInit, SoundNext, OwingInit, OwingNext, PTL DEF Spec

-----------------------------------------------------------------------------
(***************************************************************************)
(* Go to references: in a file that was opened once, the symbols come in   *)
(* the order of the text, and what is brought forward is behind them all,  *)
(* so no two definitions that a compilation made are at one byte.          *)
(***************************************************************************)
\* The places of file g in s, and the list d of its definitions when the last
\* symbol reached is at byte l
Gone(s, g) == \A i \in 1 .. Len(s) : s[i][1] # g

Ascends(s, g) ==
    \A i, j \in 1 .. Len(s) : s[i][1] = g /\ s[j][1] = g /\ i < j => s[i][2] < s[j][2]

Distinct(d) ==
    \A k, l \in 1 .. Len(d) :
      d[k].by # 0 /\ d[l].by # 0 /\ d[k].byte = d[l].byte => k = l

Passed(s, g, d, l) ==
    \A k \in 1 .. Len(d) : d[k].by # 0 =>
      /\ d[k].byte <= l
      /\ \A i \in 1 .. Len(s) : s[i][1] = g => d[k].byte < s[i][2]

Forward(s, g, d, l) ==
    \A k \in 1 .. Len(d) : d[k].by = 0 => d[k].byte > l /\ Gone(s, g)

InTextOrder(s, g, d, l) ==
    Ascends(s, g) /\ Distinct(d) /\ Passed(s, g, d, l) /\ Forward(s, g, d, l)

LEMMA PlaceParts ==
  ASSUME NEW s \in Seq(Places)
  PROVE  /\ Len(s) \in Nat
         /\ \A i \in 1 .. Len(s) : s[i][1] \in Files /\ s[i][2] \in Nat
<1>1. Len(s) \in Nat /\ \A i \in 1 .. Len(s) : s[i] \in Places
  OBVIOUS
<1> QED
  BY <1>1 DEF Places

LEMMA DefParts ==
  ASSUME NEW d \in Seq(Def)
  PROVE  /\ Len(d) \in Nat
         /\ \A k \in 1 .. Len(d) : d[k].byte \in Nat /\ d[k].by \in Nat
<1>1. Len(d) \in Nat /\ \A k \in 1 .. Len(d) : d[k] \in Def
  OBVIOUS
<1> QED
  BY <1>1 DEF Def

LEMMA EmptyOrder ==
  ASSUME NEW s, NEW g, NEW d, NEW l, InTextOrder(s, g, d, l)
  PROVE  InTextOrder(<<>>, g, d, l) /\ Gone(<<>>, g)
BY DEF InTextOrder, Ascends, Passed, Forward, Gone

LEMMA TailOrder ==
  ASSUME NEW s \in Seq(Places), s # <<>>, NEW g, NEW d, NEW l
  PROVE  /\ Gone(s, g) => Gone(Tail(s), g)
         /\ Ascends(s, g) => Ascends(Tail(s), g)
         /\ InTextOrder(s, g, d, l) => InTextOrder(Tail(s), g, d, l)
<1> DEFINE t == Tail(s)
<1>1. /\ Len(s) \in Nat /\ Len(t) \in Nat
      /\ \A i \in 1 .. Len(t) : i + 1 \in 1 .. Len(s) /\ t[i] = s[i + 1]
  BY TailOf
<1> HIDE DEF t
<1>2. Gone(s, g) => Gone(t, g)
  BY <1>1 DEF Gone
<1>3. ASSUME Ascends(s, g)
      PROVE  Ascends(t, g)
  <2>1. ASSUME NEW i \in 1 .. Len(t), NEW j \in 1 .. Len(t),
               t[i][1] = g, t[j][1] = g, i < j
        PROVE  t[i][2] < t[j][2]
    <3>1. i + 1 \in 1 .. Len(s) /\ j + 1 \in 1 .. Len(s) /\ i + 1 < j + 1
      BY <1>1, <2>1
    <3>2. s[i + 1][2] < s[j + 1][2]
      BY <1>1, <1>3, <2>1, <3>1 DEF Ascends
    <3> QED
      BY <1>1, <3>2
  <2> QED
    BY <2>1 DEF Ascends
<1>4. Passed(s, g, d, l) => Passed(t, g, d, l)
  BY <1>1 DEF Passed
<1>5. Forward(s, g, d, l) => Forward(t, g, d, l)
  BY <1>2 DEF Forward
<1> QED
  BY <1>2, <1>3, <1>4, <1>5 DEF InTextOrder, t

\* The item in hand is a symbol, which may make a definition.
LEMMA ReachOrder ==
  ASSUME NEW s \in Seq(Places), s # <<>>, NEW g, g = s[1][1], NEW d \in Seq(Def), NEW l \in Nat,
         InTextOrder(s, g, d, l)
  PROVE  /\ InTextOrder(Tail(s), g, d, LaterByte(l, s[1][2]))
         /\ \A def \in Def : def.byte = s[1][2] /\ def.by # 0 =>
              InTextOrder(Tail(s), g, Append(d, def), LaterByte(l, s[1][2]))
<1> DEFINE t == Tail(s)
           b == s[1][2]
           m == LaterByte(l, b)
<1>1. /\ Len(s) \in Nat /\ Len(t) \in Nat /\ 1 \in 1 .. Len(s)
      /\ \A i \in 1 .. Len(t) : i + 1 \in 1 .. Len(s) /\ t[i] = s[i + 1]
  BY TailOf
<1>2. b \in Nat
  BY <1>1, PlaceParts
<1>3. m \in Nat /\ m >= l /\ m >= b
  BY <1>2 DEF LaterByte
<1>4. InTextOrder(t, g, d, l)
  BY TailOrder
<1>5. \A i \in 1 .. Len(t) : t[i][1] = g => b < t[i][2]
  <2>1. ASSUME NEW i \in 1 .. Len(t), t[i][1] = g
        PROVE  b < t[i][2]
    <3>1. i + 1 \in 1 .. Len(s) /\ s[i + 1] = t[i] /\ 1 < i + 1
      BY <1>1
    <3> QED
      BY <1>1, <2>1, <3>1 DEF InTextOrder, Ascends
  <2> QED
    BY <2>1
<1>6. /\ Len(d) \in Nat
      /\ \A k \in 1 .. Len(d) : d[k].byte \in Nat /\ d[k].by \in Nat
  BY DefParts
<1>7. \A k \in 1 .. Len(d) : d[k].by # 0 /\ d[k].byte < b
  <2>1. \A k \in 1 .. Len(d) : d[k].by # 0
    BY <1>1 DEF InTextOrder, Forward, Gone
  <2> QED
    BY <1>1, <2>1 DEF InTextOrder, Passed
<1> HIDE DEF t, b, m
<1>8. Passed(t, g, d, m) /\ Forward(t, g, d, m)
  BY <1>3, <1>4, <1>6, <1>7 DEF InTextOrder, Passed, Forward
<1>9. ASSUME NEW def \in Def, def.byte = b, def.by # 0
      PROVE  InTextOrder(t, g, Append(d, def), m)
  <2> DEFINE e == Append(d, def)
  <2>1. /\ Len(e) = Len(d) + 1
        /\ \A k \in 1 .. Len(d) : k \in 1 .. Len(d) + 1 /\ e[k] = d[k]
        /\ e[Len(d) + 1] = def
        /\ \A k \in 1 .. Len(d) + 1 : k \in 1 .. Len(d) \/ k = Len(d) + 1
    BY AppendOf
  <2> HIDE DEF e
  <2>2. ASSUME NEW k \in 1 .. Len(e)
        PROVE  \/ k \in 1 .. Len(d) /\ e[k] = d[k] /\ e[k].by # 0 /\ e[k].byte < b
               \/ k = Len(d) + 1 /\ e[k].by # 0 /\ e[k].byte = b
    BY <1>7, <1>9, <2>1
  <2>3. Distinct(e)
    <3>1. ASSUME NEW k \in 1 .. Len(e), NEW n \in 1 .. Len(e), e[k].byte = e[n].byte
          PROVE  k = n
      <4>1. CASE k \in 1 .. Len(d) /\ n \in 1 .. Len(d)
        BY <1>4, <1>7, <2>1, <3>1, <4>1 DEF InTextOrder, Distinct
      <4>2. CASE k = Len(d) + 1 /\ n = Len(d) + 1
        BY <4>2
      <4>3. \A x \in 1 .. Len(d) : d[x].byte # b
        BY <1>2, <1>6, <1>7 DEF b
      <4> QED
        BY <1>9, <2>1, <3>1, <4>1, <4>2, <4>3
    <3> QED
      BY <3>1 DEF Distinct
  <2>4. Passed(t, g, e, m)
    <3>1. ASSUME NEW k \in 1 .. Len(e)
          PROVE  e[k].byte <= m
      <4>1. \A x \in 1 .. Len(d) : d[x].byte <= m
        BY <1>2, <1>3, <1>6, <1>7 DEF b
      <4> QED
        BY <1>3, <1>9, <2>1, <4>1
    <3>2. ASSUME NEW k \in 1 .. Len(e), NEW i \in 1 .. Len(t), t[i][1] = g
          PROVE  e[k].byte < t[i][2]
      BY <1>4, <1>5, <1>7, <1>9, <2>1, <3>2 DEF InTextOrder, Passed
    <3> QED
      BY <3>1, <3>2 DEF Passed
  <2>5. Forward(t, g, e, m)
    BY <2>2 DEF Forward
  <2> QED
    BY <1>4, <2>3, <2>4, <2>5 DEF InTextOrder, e
<1> QED
  BY <1>4, <1>8, <1>9 DEF InTextOrder, t, b, m

\* The content of a file is put in front of what follows its include.
LEMMA OpenOrder ==
  ASSUME NEW f \in Files, NEW t \in Texts, NEW rest \in Seq(Places), NEW l
  PROVE  /\ \A g : g # f /\ Gone(rest, g) => Gone(PlacesIn(f, t) \o rest, g)
         /\ \A g : g # f /\ Ascends(rest, g) => Ascends(PlacesIn(f, t) \o rest, g)
         /\ Gone(rest, f) => Ascends(PlacesIn(f, t) \o rest, f)
         /\ \A g, d : g # f /\ InTextOrder(rest, g, d, l) =>
              InTextOrder(PlacesIn(f, t) \o rest, g, d, l)
         /\ Gone(rest, f) => InTextOrder(PlacesIn(f, t) \o rest, f, <<>>, l)
<1> DEFINE a == PlacesIn(f, t)
           s == a \o rest
<1>1. /\ a \in Seq(Places) /\ Len(a) \in Nat /\ Len(rest) \in Nat
      /\ \A k \in 1 .. Len(a) : a[k] = <<f, k - 1>>
  BY PlacesInOf
<1> HIDE DEF a
<1>2. ASSUME NEW i \in 1 .. Len(s)
      PROVE  /\ i \in Nat
             /\ \/ i \in 1 .. Len(a) /\ s[i] = <<f, i - 1>>
                \/ /\ i - Len(a) \in 1 .. Len(rest)
                   /\ s[i] = rest[i - Len(a)]
                   /\ i > Len(a)
  <2>1. /\ Len(s) = Len(a) + Len(rest)
        /\ \A k \in 1 .. Len(a) : s[k] = a[k]
        /\ \A k \in 1 .. Len(rest) : s[Len(a) + k] = rest[k]
    BY <1>1, JoinOf
  <2> HIDE DEF s
  <2>2. i \in Nat /\ (i \in 1 .. Len(a) \/ (i - Len(a) \in 1 .. Len(rest) /\ i > Len(a)))
    BY <1>1, <2>1
  <2>3. Len(a) + (i - Len(a)) = i
    BY <1>1, <2>2
  <2> QED
    BY <1>1, <2>1, <2>2, <2>3
<1> HIDE DEF s
<1>3. ASSUME NEW g, g # f
      PROVE  /\ Gone(rest, g) => Gone(s, g)
             /\ Ascends(rest, g) => Ascends(s, g)
             /\ \A d : Passed(rest, g, d, l) => Passed(s, g, d, l)
  <2>1. \A i \in 1 .. Len(s) : s[i][1] = g =>
          i \in Nat /\ i - Len(a) \in 1 .. Len(rest) /\ s[i] = rest[i - Len(a)]
    BY <1>2, <1>3
  <2>2. Gone(rest, g) => Gone(s, g)
    BY <2>1 DEF Gone
  <2>3. ASSUME Ascends(rest, g), NEW i \in 1 .. Len(s), NEW j \in 1 .. Len(s),
               s[i][1] = g, s[j][1] = g, i < j
        PROVE  s[i][2] < s[j][2]
    <3>1. /\ i - Len(a) \in 1 .. Len(rest) /\ j - Len(a) \in 1 .. Len(rest)
          /\ s[i] = rest[i - Len(a)] /\ s[j] = rest[j - Len(a)]
      BY <2>1, <2>3
    <3>2. i - Len(a) < j - Len(a)
      BY <1>1, <2>1, <2>3
    <3> QED
      BY <2>3, <3>1, <3>2 DEF Ascends
  <2>4. \A d : Passed(rest, g, d, l) => Passed(s, g, d, l)
    BY <2>1 DEF Passed
  <2> QED
    BY <2>2, <2>3, <2>4 DEF Ascends
<1>4. \A g, d : g # f /\ InTextOrder(rest, g, d, l) => InTextOrder(s, g, d, l)
  BY <1>3 DEF InTextOrder, Forward
<1>5. ASSUME Gone(rest, f)
      PROVE  Ascends(s, f)
  <2>1. \A i \in 1 .. Len(s) : s[i][1] = f =>
          i \in Nat /\ s[i][2] = i - 1
    BY <1>2, <1>5 DEF Gone
  <2> QED
    BY <2>1 DEF Ascends
<1>6. Gone(rest, f) => InTextOrder(s, f, <<>>, l)
  BY <1>5 DEF InTextOrder, Distinct, Passed, Forward
<1> QED
  BY <1>3, <1>4, <1>5, <1>6 DEF s, a

\* Symbols that are brought forward come behind those that were reached.
LEMMA CarryOrder ==
  ASSUME NEW g, NEW d \in Seq(Def), NEW l \in Nat, NEW c \in Seq(Def),
         InTextOrder(<<>>, g, d, l),
         \A i \in 1 .. Len(c) : c[i].by = 0 /\ c[i].byte > l
  PROVE  InTextOrder(<<>>, g, d \o c, l)
<1> DEFINE e == d \o c
<1>1. ASSUME NEW k \in 1 .. Len(e)
      PROVE  \/ k \in 1 .. Len(d) /\ e[k] = d[k]
             \/ e[k].by = 0 /\ e[k].byte > l
  BY JoinElements
<1> HIDE DEF e
<1>2. Distinct(e)
  BY <1>1 DEF InTextOrder, Distinct
<1>3. Passed(<<>>, g, e, l)
  BY <1>1 DEF InTextOrder, Passed
<1>4. Forward(<<>>, g, e, l)
  BY <1>1 DEF InTextOrder, Forward, Gone
<1> QED
  BY <1>2, <1>3, <1>4 DEF InTextOrder, e

\* What a node means does not matter.
LEMMA SameOrder ==
  ASSUME NEW s, NEW g, NEW d, NEW l, NEW e, InTextOrder(s, g, d, l),
         Len(e) = Len(d),
         \A k \in 1 .. Len(d) : e[k].by = d[k].by /\ e[k].byte = d[k].byte
  PROVE  InTextOrder(s, g, e, l)
BY DEF InTextOrder, Distinct, Passed, Forward

Unopened(g) == files[g] = NotRead /\ cur.defs[g] = <<>> /\ Gone(todo, g)

Ordered(g) == InTextOrder(todo, g, cur.defs[g], files[g].last)

Once ==
    /\ \A g \in Files : opens[g] = 0 => Unopened(g)
    /\ \A g \in Files : files[g] = NotRead => opens[g] = 0
    /\ \A g \in Files : opens[g] = 1 => Ordered(g)
    /\ Working => program > 0
    /\ \A f \in Files : \A k \in 1 .. Len(cur.refs[f]) : cur.refs[f][k].by > 0

\* Steps that do not open a file or define a symbol
LEMMA OnceStays ==
  ASSUME Base, Once, opens' = opens, cur'.refs = cur.refs, Working' => program' > 0,
         todo' = todo \/ todo' = <<>> \/ (todo # <<>> /\ todo' = Tail(todo)),
         \A g \in Files :
           /\ files'[g] = NotRead <=> files[g] = NotRead
           /\ files[g] # NotRead => files'[g].last = files[g].last
           /\ Len(cur'.defs[g]) = Len(cur.defs[g])
           /\ cur.defs[g] = <<>> => cur'.defs[g] = <<>>
           /\ \A k \in 1 .. Len(cur.defs[g]) : /\ cur'.defs[g][k].by = cur.defs[g][k].by
                                               /\ cur'.defs[g][k].byte = cur.defs[g][k].byte
  PROVE  Once'
<1>1. todo \in Seq(Places)
  BY DEF Base, TypeOK
<1>2. PICK s, t : s = todo /\ t = todo'
  OBVIOUS
<1>3. /\ \A g : Gone(s, g) => Gone(t, g)
      /\ \A g, d, l : InTextOrder(s, g, d, l) => InTextOrder(t, g, d, l)
  <2>1. CASE t = s
    BY <2>1
  <2>2. CASE t = <<>>
    BY <2>2, EmptyOrder DEF Gone
  <2>3. CASE s # <<>> /\ t = Tail(s)
    BY <1>1, <1>2, <2>3, TailOrder
  <2> QED
    BY <1>2, <2>1, <2>2, <2>3
<1>4. ASSUME NEW g \in Files, opens[g] = 0
      PROVE  Unopened(g)'
  <2>1. files[g] = NotRead /\ cur.defs[g] = <<>> /\ Gone(s, g)
    BY <1>2, <1>4 DEF Once, Unopened
  <2>2. files'[g] = NotRead /\ cur'.defs[g] = <<>> /\ Gone(t, g)
    BY <1>3, <2>1
  <2> QED
    BY <1>2, <2>2 DEF Unopened, Gone
<1>5. ASSUME NEW g \in Files, opens[g] = 1
      PROVE  Ordered(g)'
  <2>1. PICK d, e, l : d = cur.defs[g] /\ e = cur'.defs[g] /\ l = files[g].last
    OBVIOUS
  <2>2. InTextOrder(t, g, d, l)
    BY <1>2, <1>3, <1>5, <2>1 DEF Once, Ordered
  <2>3. InTextOrder(t, g, e, l)
    BY <2>1, <2>2, SameOrder
  <2>4. files'[g].last = l
    <3>1. files[g] # NotRead
      BY <1>5 DEF Once
    <3> QED
      BY <2>1, <3>1
  <2> QED
    BY <1>2, <2>1, <2>3, <2>4 DEF Ordered, InTextOrder, Ascends, Distinct, Passed, Forward, Gone
<1>6. \A g \in Files : files'[g] = NotRead => opens'[g] = 0
  BY DEF Once
<1>7. \A f \in Files : \A k \in 1 .. Len(cur'.refs[f]) : cur'.refs[f][k].by > 0
  BY DEF Once
<1> QED
  BY <1>4, <1>5, <1>6, <1>7 DEF Once

\* A file is opened: for the first time, or again, and then it is not in order.
LEMMA OpenedOnce ==
  ASSUME Base, Once, Working, NEW f \in Files, NEW t \in Texts, Opened(f, t, Rest),
         program' = program, files'[f] # NotRead,
         \A g \in Files : g # f => files'[g] = files[g]
  PROVE  Once'
<1>1. /\ cur'.defs = cur.defs /\ cur'.refs = cur.refs
      /\ opens \in [Files -> Nat]
      /\ opens' = [opens EXCEPT ![f] = @ + 1]
      /\ todo \in Seq(Places)
  BY OpenedContext, BaseParts DEF Opened, TypeOK
<1>2. PICK rest : rest = Rest
  OBVIOUS
<1>3. PICK s : s = PlacesIn(f, t) \o rest
  OBVIOUS
<1>4. todo' = s
  BY <1>2, <1>3 DEF Opened
<1>5. /\ rest \in Seq(Places)
      /\ \A g : Gone(todo, g) => Gone(rest, g)
      /\ \A g, d, l : InTextOrder(todo, g, d, l) => InTextOrder(rest, g, d, l)
  <2>1. CASE todo = <<>>
    BY <1>2, <2>1 DEF Rest
  <2>2. CASE todo # <<>>
    BY <1>1, <1>2, <2>2, TailOf, TailOrder DEF Rest
  <2> QED
    BY <2>1, <2>2
<1>6. /\ \A g : g # f /\ Gone(rest, g) => Gone(s, g)
      /\ \A g, d, l : g # f /\ InTextOrder(rest, g, d, l) => InTextOrder(s, g, d, l)
      /\ \A l : Gone(rest, f) => InTextOrder(s, f, <<>>, l)
  BY <1>3, <1>5, OpenOrder
<1>7. ASSUME NEW g \in Files, opens'[g] = 0
      PROVE  Unopened(g)'
  <2>1. g # f /\ opens[g] = 0
    BY <1>1, <1>7
  <2>2. files[g] = NotRead /\ cur.defs[g] = <<>> /\ Gone(todo, g)
    BY <2>1 DEF Once, Unopened
  <2>3. files'[g] = NotRead /\ cur'.defs[g] = <<>> /\ Gone(s, g)
    BY <1>1, <1>5, <1>6, <2>1, <2>2
  <2> QED
    BY <1>4, <2>3 DEF Unopened, Gone
<1>8. ASSUME NEW g \in Files, opens'[g] = 1
      PROVE  Ordered(g)'
  <2>1. PICK d, l : d = cur'.defs[g] /\ l = files'[g].last
    OBVIOUS
  <2>2. InTextOrder(s, g, d, l)
    <3>1. CASE g = f
      <4>1. opens[f] = 0
        BY <1>1, <1>8, <3>1
      <4>2. cur.defs[f] = <<>> /\ Gone(rest, f)
        BY <1>5, <4>1 DEF Once, Unopened
      <4> QED
        BY <1>1, <1>6, <2>1, <3>1, <4>2
    <3>2. CASE g # f
      <4>1. opens[g] = 1 /\ files'[g] = files[g] /\ d = cur.defs[g]
        BY <1>1, <1>8, <2>1, <3>2
      <4>2. InTextOrder(rest, g, d, l)
        BY <1>5, <2>1, <4>1 DEF Once, Ordered
      <4> QED
        BY <1>6, <3>2, <4>2
    <3> QED
      BY <3>1, <3>2
  <2> QED
    BY <1>4, <2>1, <2>2 DEF Ordered, InTextOrder, Ascends, Distinct, Passed, Forward, Gone
<1>9. \A g \in Files : files'[g] = NotRead => opens'[g] = 0
  BY <1>1 DEF Once
<1>10. \A g \in Files : \A k \in 1 .. Len(cur'.refs[g]) : cur'.refs[g][k].by > 0
  BY <1>1 DEF Once
<1>11. program' > 0
  BY DEF Once
<1> QED
  BY <1>7, <1>8, <1>9, <1>10, <1>11 DEF Once

LEMMA FopenOnce ==
  ASSUME Base, Once, NEW f \in Files, pc \in {"open", "asm"}, Fopen(f, Rest)
  PROVE  Once'
<1>1. program' = program /\ TypeOK /\ Working
  BY BaseParts DEF Fopen, Working
<1>2. CASE /\ files[f] # NotRead
           /\ Opened(f, files[f].text, Rest)
           /\ UNCHANGED <<files, reading>>
  <2>1. files[f].text \in Texts
    BY <1>1, <1>2, FileOf
  <2> QED
    BY <1>1, <1>2, <2>1, OpenedOnce
<1>3. CASE /\ files[f] = NotRead
           /\ docs[f] # Closed
           /\ files' = [files EXCEPT ![f] = NewFile(docs[f])]
           /\ Opened(f, docs[f], Rest)
           /\ UNCHANGED reading
  <2>1. docs[f] \in Texts /\ files \in [Files -> FileStates \cup {NotRead}]
    BY <1>1, <1>3 DEF TypeOK, Docs
  <2>2. \A g \in Files : g # f => files'[g] = files[g]
    BY <1>3, <2>1
  <2>3. files'[f] # NotRead
    BY <1>1, <1>3, <2>1, FileRead
  <2> QED
    BY <1>1, <1>3, <2>1, <2>2, <2>3, OpenedOnce
<1>4. CASE /\ files[f] = NotRead
           /\ docs[f] = Closed
           /\ reading' = f
           /\ pc' = "read"
           /\ UNCHANGED <<cur, files, todo, opens>>
  <2>1. program' > 0
    BY <1>1 DEF Once
  <2> QED
    BY <1>4, <2>1, OnceStays
<1> QED
  BY <1>2, <1>3, <1>4 DEF Fopen

\* The steps of the assembler that reach no symbol
LEMMA AssemblerOnce ==
  ASSUME Base, Once, IncludeAgain \/ ReadFailure \/ PutReferences \/ Annotate
                     \/ ReportError \/ ChessReport
  PROVE  Once'
<1>1. /\ Working /\ program' = program /\ opens' = opens
      /\ todo' = <<>> \/ (todo # <<>> /\ todo' = Tail(todo))
  BY DEF IncludeAgain, ReadFailure, PutReferences, Annotate, ReportError, ChessReport,
         MarkError, At, Working
<1>2. /\ cur'.refs = cur.refs
      /\ \A g \in Files :
           /\ Len(cur'.defs[g]) = Len(cur.defs[g])
           /\ cur.defs[g] = <<>> => cur'.defs[g] = <<>>
           /\ \A k \in 1 .. Len(cur.defs[g]) : /\ cur'.defs[g][k].by = cur.defs[g][k].by
                                               /\ cur'.defs[g][k].byte = cur.defs[g][k].byte
  <2>1. CASE Annotate
    <3>1. \A g \in Files : Len(cur'.defs[g]) = Len(cur.defs[g])
      BY <2>1, Annotated
    <3>2. cur' \in Contexts
      BY <2>1, Annotated
    <3>3. \A g \in Files : cur'.defs[g] \in Seq(Def)
      BY <3>2 DEF Contexts
    <3>4. \A g \in Files : cur.defs[g] = <<>> => cur'.defs[g] = <<>>
      BY <3>1, <3>3
    <3> QED
      BY <2>1, <3>4, Annotated
  <2>2. CASE ~Annotate
    <3>1. cur' = cur
      BY <2>2 DEF IncludeAgain, ReadFailure, PutReferences, ReportError, ChessReport, MarkError
    <3> QED
      BY <3>1
  <2> QED
    BY <2>1, <2>2
<1>3. \A g \in Files : /\ files'[g] = NotRead <=> files[g] = NotRead
                       /\ files[g] # NotRead => files'[g].last = files[g].last
  <2>1. CASE files' = files
    BY <2>1
  <2>2. CASE files' # files
    <3>1. todo # <<>>
      BY <2>2 DEF IncludeAgain, ReadFailure, PutReferences, Annotate, ReportError,
                  ChessReport, MarkError, At
    <3>2. Here[1] \in Files /\ files[Here[1]] # NotRead /\ files[Here[1]] \in FileStates
      BY <3>1, HereOf, FileOf DEF Base
    <3>3. PICK f, h : f = Here[1] /\ h = files[f]
      OBVIOUS
    <3>4. PICK g \in FileStates : files' = [files EXCEPT ![f] = g] /\ g.last = h.last
      <4>1. CASE ReadFailure \/ ReportError \/ ChessReport
        <5>1. files' = [files EXCEPT ![f].err = TRUE]
          BY <2>2, <3>3, <4>1 DEF ReadFailure, ReportError, ChessReport, MarkError
        <5>2. files' = [files EXCEPT ![f] = [h EXCEPT !.err = TRUE]]
          BY <3>3, <5>1
        <5>3. h \in FileStates
          BY <3>2, <3>3
        <5> QED
          BY <5>2, <5>3, ErrorType
      <4>2. CASE Annotate
        <5>1. PICK p \in {"variable", "device_port"} : files' = [files EXCEPT ![f].page = p]
          BY <2>2, <3>3, <4>2 DEF Annotate
        <5>2. files' = [files EXCEPT ![f] = [h EXCEPT !.page = p]]
          BY <3>3, <5>1
        <5>3. h \in FileStates
          BY <3>2, <3>3
        <5> QED
          BY <5>2, <5>3, PageType
      <4>3. CASE IncludeAgain \/ PutReferences
        BY <2>2, <4>3 DEF IncludeAgain, PutReferences
      <4> QED
        BY <4>1, <4>2, <4>3
    <3>5. g # NotRead /\ files \in [Files -> FileStates \cup {NotRead}]
      BY SymbolsAssumption DEF Base, TypeOK
    <3> QED
      BY <3>2, <3>3, <3>4, <3>5
  <2> QED
    BY <2>1, <2>2
<1>4. program' > 0
  BY <1>1 DEF Once
<1> QED
  BY <1>1, <1>2, <1>3, <1>4, OnceStays

\* A symbol is reached: what it defines is behind all that came before.
LEMMA ReachedOnce ==
  ASSUME Base, Once, PutGenerated \/ PutDefinition
  PROVE  Once'
<1>1. /\ pc = "asm" /\ todo # <<>> /\ todo' = Tail(todo)
      /\ files' = [files EXCEPT ![Here[1]].last = LaterByte(@, Here[2])]
      /\ program' = program /\ opens' = opens
  BY DEF PutGenerated, PutDefinition, At
<1>2. PICK f, s, b : f = Here[1] /\ s = todo /\ b = Here[2]
  OBVIOUS
<1>3. /\ s \in Seq(Places) /\ s # <<>> /\ todo' = Tail(s)
      /\ f = s[1][1] /\ b = s[1][2]
      /\ f \in Files /\ b \in Nat /\ files[f] # NotRead /\ files[f] \in FileStates
      /\ files \in [Files -> FileStates \cup {NotRead}]
  BY <1>1, <1>2, HereOf, FileOf DEF Base, TypeOK, Here
<1>4. PICK h, n \in FileStates : /\ h = files[f] /\ n.last = LaterByte(h.last, b)
                                 /\ files' = [files EXCEPT ![f] = n]
                                 /\ h \in FileStates
  <2>1. PICK h \in FileStates : h = files[f]
    BY <1>3
  <2>2. PICK n : n = [h EXCEPT !.last = LaterByte(@, b)]
    OBVIOUS
  <2>3. n \in FileStates
    BY <1>3, <2>2, LastType
  <2>4. n.last = LaterByte(h.last, b)
    BY <2>2 DEF FileStates
  <2>5. files' = [files EXCEPT ![f] = n]
    BY <1>1, <1>2, <2>1, <2>2
  <2> QED
    BY <2>1, <2>3, <2>4, <2>5
<1>5. /\ \A g \in Files : files'[g] = NotRead <=> files[g] = NotRead
      /\ \A g \in Files : g # f => files'[g] = files[g]
      /\ files'[f].last = LaterByte(files[f].last, b)
  BY <1>3, <1>4, SymbolsAssumption
<1>6. opens[f] # 0
  BY <1>3 DEF Once, Unopened
<1>7. /\ cur'.refs = cur.refs
      /\ \A g \in Files : g # f => cur'.defs[g] = cur.defs[g]
      /\ \/ cur'.defs[f] = cur.defs[f]
         \/ \E def \in Def : /\ def.byte = b /\ def.by = program
                             /\ cur'.defs[f] = Append(cur.defs[f], def)
  <2>1. CASE PutGenerated
    <3>1. cur' = cur
      BY <2>1 DEF PutGenerated
    <3> QED
      BY <3>1
  <2>2. CASE PutDefinition
    <3>1. PICK g, node : /\ g = Here[1] /\ node = <<g, Len(cur.defs[g]) + 1>>
                         /\ \E def \in Def : Adds(g, node, def)
      BY <2>2, Defined
    <3>2. PICK def \in Def : Adds(g, node, def)
      BY <3>1
    <3>3. /\ g = f /\ def.byte = b /\ def.by = program
          /\ cur'.refs = cur.refs
          /\ cur'.defs = [cur.defs EXCEPT ![f] = Append(cur.defs[f], def)]
      BY <1>2, <3>1, <3>2 DEF Adds
    <3>4. cur.defs \in [Files -> Seq(Def)]
      BY BaseParts DEF Contexts
    <3> QED
      BY <1>3, <3>3, <3>4
  <2> QED
    BY <2>1, <2>2
<1>8. program > 0 /\ program \in Nat
  BY <1>1, BaseParts DEF Once, Working
<1>9. ASSUME NEW g \in Files, opens'[g] = 0
      PROVE  Unopened(g)'
  <2>1. g # f /\ files[g] = NotRead /\ cur.defs[g] = <<>> /\ Gone(s, g)
    BY <1>1, <1>2, <1>6, <1>9 DEF Once, Unopened
  <2>2. files'[g] = NotRead /\ cur'.defs[g] = <<>> /\ Gone(Tail(s), g)
    BY <1>3, <1>5, <1>7, <2>1, TailOrder
  <2>3. PICK t : t = Tail(s)
    OBVIOUS
  <2> QED
    BY <1>3, <2>2, <2>3 DEF Unopened, Gone
<1>10. ASSUME NEW g \in Files, opens'[g] = 1
       PROVE  Ordered(g)'
  <2>1. PICK t, d, l : t = Tail(s) /\ d = cur'.defs[g] /\ l = files'[g].last
    OBVIOUS
  <2>2. PICK c, m : c = cur.defs[g] /\ m = files[g].last
    OBVIOUS
  <2>3. InTextOrder(s, g, c, m)
    BY <1>1, <1>2, <1>10, <2>2 DEF Once, Ordered
  <2>4. CASE g # f
    <3>1. d = c /\ l = m
      BY <1>5, <1>7, <2>1, <2>2, <2>4
    <3> QED
      <4>1. InTextOrder(t, g, d, l)
        BY <1>3, <2>1, <2>3, <3>1, TailOrder
      <4> QED
        BY <1>3, <2>1, <4>1
           DEF Ordered, InTextOrder, Ascends, Distinct, Passed, Forward, Gone
  <2>5. CASE g = f
    <3>1. c \in Seq(Def) /\ m \in Nat
      BY <1>3, <2>2, <2>5, DefsOf, BaseParts DEF FileStates
    <3>2. l = LaterByte(m, s[1][2]) /\ g = s[1][1]
      BY <1>3, <1>5, <2>1, <2>2, <2>5
    <3>3. \/ d = c
          \/ \E def \in Def : /\ def.byte = s[1][2] /\ def.by # 0
                              /\ d = Append(c, def)
      <4>1. CASE cur'.defs[f] = cur.defs[f]
        BY <2>1, <2>2, <2>5, <4>1
      <4>2. CASE \E def \in Def : /\ def.byte = b /\ def.by = program
                                  /\ cur'.defs[f] = Append(cur.defs[f], def)
        <5>1. PICK def \in Def : /\ def.byte = b /\ def.by = program
                                 /\ cur'.defs[f] = Append(cur.defs[f], def)
          BY <4>2
        <5>2. def.byte = s[1][2] /\ def.by # 0
          BY <1>3, <1>8, <5>1
        <5>3. d = Append(c, def)
          BY <2>1, <2>2, <2>5, <5>1
        <5> QED
          BY <5>2, <5>3
      <4> QED
        BY <1>7, <4>1, <4>2
    <3>4. InTextOrder(t, g, d, l)
      BY <1>3, <2>1, <2>3, <3>1, <3>2, <3>3, ReachOrder
    <3> QED
      BY <1>3, <2>1, <3>4
         DEF Ordered, InTextOrder, Ascends, Distinct, Passed, Forward, Gone
  <2> QED
    BY <2>4, <2>5
<1>11. \A g \in Files : files'[g] = NotRead => opens'[g] = 0
  BY <1>1, <1>5 DEF Once
<1>12. \A g \in Files : \A k \in 1 .. Len(cur'.refs[g]) : cur'.refs[g][k].by > 0
  BY <1>7 DEF Once
<1> QED
  BY <1>1, <1>8, <1>9, <1>10, <1>11, <1>12 DEF Once

LEMMA EndOnce ==
  ASSUME Base, Sound, Once, EndCompile
  PROVE  Once'
<1>1. /\ pc = "asm" /\ pc' = "next" /\ todo = <<>>
      /\ UNCHANGED <<files, todo, program, opens>>
  BY DEF EndCompile
<1>2. /\ cur \in Contexts
      /\ \A f \in Files : /\ cur'.defs[f] = cur.defs[f] \o Carried(f)
                          /\ cur'.refs[f] = cur.refs[f] \o Connected(f)
  BY Ended, BaseParts
<1>3. ASSUME NEW g \in Files, opens[g] = 0
      PROVE  Unopened(g)'
  <2>1. files[g] = NotRead /\ cur.defs[g] = <<>> /\ Gone(todo, g)
    BY <1>3 DEF Once, Unopened
  <2>2. Carried(g) = <<>>
    BY <2>1 DEF Carried, FileHasError
  <2>3. cur'.defs[g] = <<>>
    BY <1>2, <2>1, <2>2
  <2> QED
    BY <1>1, <2>1, <2>3 DEF Unopened, Gone
<1>4. ASSUME NEW g \in Files, opens[g] = 1
      PROVE  Ordered(g)'
  <2>1. PICK d \in Seq(Def), c \in Seq(Def) : d = cur.defs[g] /\ c = Carried(g)
    BY <1>2, DefsOf, CarriedOf
  <2>2. files[g] # NotRead
    BY <1>4 DEF Once
  <2>3. PICK l \in Nat : l = files[g].last
    BY <2>2, FileOf DEF Base
  <2>4. InTextOrder(<<>>, g, d, l)
    BY <1>1, <1>4, <2>1, <2>3 DEF Once, Ordered
  <2>5. \A i \in 1 .. Len(c) : c[i].by = 0 /\ c[i].byte > l
    BY <2>1, <2>3, CarriedOf
  <2>6. InTextOrder(<<>>, g, d \o c, l)
    BY <2>4, <2>5, CarryOrder
  <2>7. /\ todo' = <<>> /\ cur'.defs[g] = d \o c /\ files'[g].last = l
    BY <1>1, <1>2, <2>1, <2>3
  <2> QED
    BY <2>6, <2>7 DEF Ordered, InTextOrder, Ascends, Distinct, Passed, Forward, Gone
<1>5. program \in Nat /\ program > 0
  BY <1>1, BaseParts DEF Once, Working
<1>6. ASSUME NEW f \in Files, NEW k \in 1 .. Len(cur'.refs[f])
      PROVE  cur'.refs[f][k].by > 0
  <2>1. PICK a \in Seq(Ref), b \in Seq(Ref) :
               a = cur.refs[f] /\ b = Connected(f) /\ cur'.refs[f] = a \o b
    BY <1>1, <1>2, DefsOf, ConnectedOf
  <2>2. \A i \in 1 .. Len(a) : a[i].by > 0
    BY <2>1 DEF Once
  <2>3. \A i \in 1 .. Len(b) : b[i].by > 0
    <3>1. ASSUME NEW i \in 1 .. Len(Connected(f))
          PROVE  Connected(f)[i].by > 0
      <4> DEFINE s == Kept(asm.refs, {j \in DOMAIN asm.refs :
                                        /\ asm.refs[j].file = f
                                        /\ Resolve(asm.refs[j]) # None})
                 node(j) == [byte |-> s[j].byte, to |-> Resolve(s[j]), by |-> program]
      <4>1. Connected(f) = [j \in 1 .. Len(s) |-> node(j)]
        BY DEF Connected
      <4>2. \A j : node(j).by = program
        OBVIOUS
      <4>3. i \in DOMAIN Connected(f)
        BY <2>1
      <4> HIDE DEF s, node
      <4>4. Connected(f)[i] = node(i)
        BY <4>1, <4>3
      <4> QED
        BY <1>5, <4>2, <4>4
    <3> QED
      BY <2>1, <3>1
  <2>4. k \in 1 .. Len(a \o b)
    BY <2>1
  <2>5. \/ k \in 1 .. Len(a) /\ (a \o b)[k] = a[k]
        \/ \E i \in 1 .. Len(b) : (a \o b)[k] = b[i]
    BY <2>4, JoinElements
  <2>6. (a \o b)[k].by > 0
    BY <2>2, <2>3, <2>5
  <2> QED
    BY <2>1, <2>6
<1>7. \A g \in Files : files'[g] = NotRead => opens'[g] = 0
  BY <1>1 DEF Once
<1>8. ~Working'
  BY <1>1 DEF Working
<1> QED
  BY <1>1, <1>3, <1>4, <1>6, <1>7, <1>8 DEF Once

LEMMA StartOnce ==
  ASSUME Base, StartRun
  PROVE  Once'
<1>1. /\ cur' = [EmptyContext EXCEPT !.nodes = OpenDocs(docs)]
      /\ files' = NothingRead /\ todo' = todo /\ todo = <<>>
      /\ opens' = [f \in Files |-> 0] /\ pc' = "next"
  BY DEF StartRun, Base, Located
<1>2. \A f \in Files : /\ cur'.defs[f] = <<>> /\ cur'.refs[f] = <<>>
                       /\ files'[f] = NotRead /\ opens'[f] = 0
  BY <1>1 DEF EmptyContext, NothingRead
<1>3. \A g \in Files : Gone(todo, g)'
  BY <1>1 DEF Gone
<1> QED
  BY <1>1, <1>2, <1>3 DEF Once, Unopened, Working

LEMMA SameOnce ==
  ASSUME Base, Once, UNCHANGED <<cur, files, opens>>, todo' = todo \/ todo' = <<>>,
         Working' => program' > 0
  PROVE  Once'
BY OnceStays

LEMMA OnceInit == Init => Once
<1> SUFFICES ASSUME Init PROVE Once
  OBVIOUS
<1>1. \A f \in Files : /\ cur.defs[f] = <<>> /\ cur.refs[f] = <<>>
                       /\ files[f] = NotRead /\ opens[f] = 0
  BY DEF Init, EmptyContext, NothingRead
<1>2. todo = <<>> /\ pc = "idle"
  BY DEF Init
<1> QED
  BY <1>1, <1>2 DEF Once, Unopened, Gone, Working

LEMMA OnceNext == SoundInv /\ Once /\ [Next]_vars => Once'
<1> SUFFICES ASSUME SoundInv, Once, [Next]_vars PROVE Once'
  OBVIOUS
<1>0. Base /\ Sound /\ program \in Nat
  BY BaseParts DEF SoundInv
<1>1. ASSUME NEW m \in Notifications, Update(m)
      PROVE  Once'
  <2>1. UNCHANGED <<cur, files, opens, todo, program, pc>>
    BY <1>1 DEF Update
  <2>2. Working' => program' > 0
    BY <2>1 DEF Once, Working
  <2> QED
    BY <1>0, <2>1, <2>2, SameOnce
<1>2. CASE StartRun
  BY <1>0, <1>2, StartOnce
<1>3. CASE SkipEntry \/ EndRun
  <2>1. UNCHANGED <<cur, files, opens, todo>> /\ ~Working'
    BY <1>3 DEF SkipEntry, EndRun, Working
  <2> QED
    BY <1>0, <2>1, SameOnce
<1>4. CASE CompileEntry
  <2>1. UNCHANGED <<cur, files, opens>> /\ todo' = <<>> /\ program' > 0
    BY <1>0, <1>4 DEF CompileEntry
  <2> QED
    BY <1>0, <2>1, SameOnce
<1>5. CASE OpenEntry
  <2>1. pc = "open" /\ entry \in Files /\ Fopen(entry, Rest)
    BY <1>0, <1>5 DEF OpenEntry, Base, Located
  <2> QED
    BY <1>0, <2>1, FopenOnce
<1>6. CASE Include
  <2>1. /\ pc = "asm" /\ todo # <<>> /\ ItemAt(Here).op = "include"
        /\ Fopen(ItemAt(Here).file, Rest)
    BY <1>6 DEF Include, At
  <2>2. ItemAt(Here).file \in Files
    BY <1>0, <2>1, HereOf, ItemKinds DEF Base
  <2> QED
    BY <1>0, <2>1, <2>2, FopenOnce
<1>7. CASE ReadFile
  <2>1. /\ pc = "read" /\ reading \in Files /\ Disk[reading] \in Texts
        /\ Opened(reading, Disk[reading], Rest) /\ program' = program
        /\ files' = [files EXCEPT ![reading] = NewFile(Disk[reading])]
        /\ files[reading] = NotRead
    BY <1>0, <1>7, SymbolsAssumption DEF ReadFile, Base, Located
  <2>2. files \in [Files -> FileStates \cup {NotRead}]
    BY <1>0 DEF Base, TypeOK
  <2>3. \A g \in Files : g # reading => files'[g] = files[g]
    BY <2>1, <2>2
  <2>4. files'[reading] # NotRead
    BY <1>0, <2>1, FileRead DEF Base
  <2> QED
    BY <1>0, <2>1, <2>3, <2>4, OpenedOnce DEF Working
<1>8. CASE \/ IncludeAgain \/ ReadFailure \/ PutReferences
           \/ Annotate \/ ReportError \/ ChessReport
  BY <1>0, <1>8, AssemblerOnce
<1>9. CASE PutGenerated \/ PutDefinition
  BY <1>0, <1>9, ReachedOnce
<1>10. CASE EndCompile
  BY <1>0, <1>10, EndOnce
<1>11. CASE UNCHANGED vars
  <2>1. UNCHANGED <<cur, files, opens, todo, program, pc>>
    BY <1>11 DEF vars
  <2>2. Working' => program' > 0
    BY <2>1 DEF Once, Working
  <2> QED
    BY <1>0, <2>1, <2>2, SameOnce
<1> QED
  BY <1>1, <1>2, <1>3, <1>4, <1>5, <1>6, <1>7, <1>8, <1>9, <1>10, <1>11 DEF Next

\* Go to references (buxn_ls_handle_find_references) finds every reference that
\* go to definition leads from, for a definition in a file of one program: the
\* node that the reference is connected to is the first at its byte.
THEOREM AlwaysFound == Spec => []ReferencesFound
<1>1. SoundInv /\ Owing /\ Once => ReferencesFound
  <2> SUFFICES ASSUME SoundInv, Owing, Once,
                      NEW f \in Files, NEW k \in DOMAIN cur.refs[f],
                      Unshared(cur.refs[f][k].to[1])
               PROVE  LET r == cur.refs[f][k]
                          n == r.to
                      IN  <<f, r.byte>> \in FindReferences(n[1], cur.defs[n[1]][n[2]].byte)
    BY Zenon DEF ReferencesFound
  <2>1. cur \in Contexts
    BY BaseParts DEF SoundInv
  <2>2. cur.refs[f] \in Seq(Ref)
    BY <2>1, DefsOf
  <2>3. k \in 1 .. Len(cur.refs[f]) /\ cur.refs[f][k] \in Ref
    BY <2>2
  <2>4. PICK r \in Ref, g \in Files, m \in Nat :
               r = cur.refs[f][k] /\ r.to = <<g, m>>
    BY <2>3 DEF Ref
  <2>5. /\ m \in 1 .. Len(cur.defs[g])
        /\ cur.defs[g][m].by = r.by
    <3>1. Leads(f, r)
      BY <2>3, <2>4 DEF SoundInv, Sound, AllLead
    <3>2. r.to[1] = g /\ r.to[2] = m
      BY <2>4
    <3> QED
      BY <3>1, <3>2, Zenon DEF Leads
  <2>6. r.by > 0 /\ opens[g] = 1 /\ r.by \in Nat
    BY <2>3, <2>4 DEF Once, Unshared, Ref
  <2>7. PICK d \in Seq(Def) : d = cur.defs[g]
    BY <2>1, DefsOf
  <2>8. files[g] # NotRead
    BY <2>6 DEF Once
  <2>9. PICK l \in Nat : l = files[g].last
    BY <2>8, FileOf DEF SoundInv, Base
  <2>10. InTextOrder(todo, g, d, l)
    BY <2>6, <2>7, <2>9 DEF Once, Ordered
  <2>11. /\ DOMAIN d = 1 .. Len(d) /\ Len(d) \in Nat
         /\ \A i \in 1 .. Len(d) : d[i].byte \in Nat /\ d[i].by \in Nat
    BY DefParts
  <2>12. \A i \in DOMAIN d : d[i].byte = d[m].byte => i = m
    <3>1. m \in 1 .. Len(d) /\ d[m].by # 0
      BY <2>5, <2>6, <2>7
    <3>2. d[m].byte <= l
      BY <2>10, <3>1 DEF InTextOrder, Passed
    <3>3. ASSUME NEW i \in DOMAIN d, d[i].byte = d[m].byte
          PROVE  i = m
      <4>1. CASE d[i].by = 0
        <5>1. d[i].byte > l
          BY <2>10, <2>11, <3>3, <4>1 DEF InTextOrder, Forward
        <5> QED
          BY <2>11, <3>1, <3>2, <3>3, <5>1
      <4>2. CASE d[i].by # 0
        BY <2>10, <2>11, <3>1, <3>3, <4>2 DEF InTextOrder, Distinct
      <4> QED
        BY <4>1, <4>2
    <3> QED
      BY <3>3
  <2>13. FirstAt(d, d[m].byte) = m /\ m # 0
    <3> DEFINE hits == {i \in DOMAIN d : d[i].byte = d[m].byte}
    <3>1. m \in DOMAIN d /\ m # 0
      BY <2>5, <2>7, <2>11
    <3>2. hits = {m}
      BY <2>12, <3>1
    <3>3. (CHOOSE i \in hits : \A j \in hits : j <= i) = m
      BY <3>2
    <3> QED
      BY <3>1, <3>2, <3>3 DEF FirstAt
  <2>14. g \in cur.nodes
    <3>1. cur.defs[g] # <<>>
      BY <2>5, <2>7
    <3> QED
      BY <3>1 DEF Owing, Known
  <2>15. k \in {i \in DOMAIN cur.refs[f] : cur.refs[f][i].to = <<g, m>>}
    BY <2>4
  <2>16. FindReferences(g, d[m].byte) =
           UNION {{<<h, cur.refs[h][i].byte>> :
                     i \in {i \in DOMAIN cur.refs[h] : cur.refs[h][i].to = <<g, m>>}} :
                  h \in Files}
    BY <2>7, <2>13, <2>14 DEF FindReferences
  <2>17. <<f, cur.refs[f][k].byte>> \in FindReferences(g, d[m].byte)
    BY <2>15, <2>16
  <2> QED
    BY <2>4, <2>7, <2>17
<1> QED
  BY <1>1, SoundInit, SoundNext, OwingInit, OwingNext, OnceInit, OnceNext, PTL DEF Spec
-----------------------------------------------------------------------------
(***************************************************************************)
(* A compilation opens a file once, so that what is yet to come of a file  *)
(* are items of one reading, in their order.                               *)
(***************************************************************************)
Unmixed ==
    /\ \A g \in Files : Ascends(todo, g)
    /\ \A i \in 1 .. Len(todo) : todo[i][1] \in asm.included
    /\ pc = "read" => Gone(todo, reading) /\ reading \in asm.included

\* A reference changes nothing that meanings depend on, and no file is opened.
LEMMA PutKeeps ==
  ASSUME NEW a \in AsmStates, NEW r \in MacroRef \cup LabelRef
  PROVE  /\ PutReference(a, r) \in AsmStates
         /\ PutReference(a, r).enum = a.enum
         /\ PutReference(a, r).scope = a.scope
         /\ PutReference(a, r).node = a.node
         /\ PutReference(a, r).included = a.included
<1>1. CASE r = a.last
  BY <1>1 DEF PutReference
<1>2. CASE r # a.last
  <2>1. a.refs \in Seq(MacroRef \cup LabelRef)
    BY DEF AsmStates
  <2>2. PICK q \in Seq(MacroRef \cup LabelRef) : q = Append(a.refs, r)
    BY <2>1, AppendOf
  <2>3. PutReference(a, r) = [a EXCEPT !.refs = q, !.last = r]
    BY <1>2, <2>2 DEF PutReference, AsmStates
  <2> QED
    BY <2>3 DEF AsmStates
<1> QED
  BY <1>1, <1>2

LEMMA UnmixedStays ==
  ASSUME Base, Unmixed, todo' = todo \/ todo' = <<>> \/ (todo # <<>> /\ todo' = Tail(todo)),
         asm'.included = asm.included \/ todo' = <<>>,
         pc' # "read" \/ UNCHANGED <<pc, reading, todo, asm>>
  PROVE  Unmixed'
<1>1. todo \in Seq(Places)
  BY DEF Base, TypeOK
<1>2. CASE todo' = todo
  BY <1>2 DEF Unmixed
<1>3. CASE todo' = <<>>
  <2>1. \A g : Ascends(<<>>, g) /\ Gone(<<>>, g)
    BY DEF Ascends, Gone
  <2>2. Len(<<>>) = 0
    OBVIOUS
  <2> QED
    BY <1>3, <2>1, <2>2 DEF Unmixed
<1>4. CASE todo # <<>> /\ todo' = Tail(todo) /\ todo' # todo /\ todo' # <<>>
  <2>1. /\ Len(todo) \in Nat
        /\ \A i \in 1 .. Len(todo') : i + 1 \in 1 .. Len(todo) /\ todo'[i] = todo[i + 1]
    BY <1>1, <1>4, TailOf
  <2>2. \A i \in 1 .. Len(todo') : todo'[i][1] \in asm'.included
    BY <1>4, <2>1 DEF Unmixed
  <2>3. \A g \in Files : Ascends(todo', g)
    BY <1>1, <1>4, TailOrder DEF Unmixed
  <2> QED
    BY <1>4, <2>2, <2>3 DEF Unmixed
<1> QED
  BY <1>2, <1>3, <1>4

LEMMA OpenedUnmixed ==
  ASSUME Base, Unmixed, NEW f \in Files, NEW t \in Texts, Opened(f, t, Rest),
         Gone(todo, f), asm.included \cup {f} \subseteq asm'.included
  PROVE  Unmixed'
<1>1. PICK r, z : r = Rest /\ z = PlacesIn(f, t) \o r
  OBVIOUS
<1>2. todo' = z /\ pc' = "asm" /\ todo \in Seq(Places)
  BY <1>1 DEF Opened, Base, TypeOK
<1>3. /\ r \in Seq(Places) /\ Gone(r, f)
      /\ \A g \in Files : Ascends(r, g)
      /\ \A i \in 1 .. Len(r) : r[i][1] \in asm.included
  <2>1. CASE todo = <<>>
    <3>1. r = <<>>
      BY <1>1, <2>1 DEF Rest
    <3> QED
      BY <3>1 DEF Gone, Ascends
  <2>2. CASE todo # <<>>
    <3>1. r = Tail(todo)
      BY <1>1, <2>2 DEF Rest
    <3>2. /\ r \in Seq(Places)
          /\ \A i \in 1 .. Len(r) : i + 1 \in 1 .. Len(todo) /\ r[i] = todo[i + 1]
      BY <1>2, <2>2, <3>1, TailOf
    <3>3. \A g : (Gone(todo, g) => Gone(r, g)) /\ (Ascends(todo, g) => Ascends(r, g))
      BY <1>2, <2>2, <3>1, TailOrder
    <3> QED
      BY <3>2, <3>3 DEF Unmixed
  <2> QED
    BY <2>1, <2>2
<1>4. \A g \in Files : Ascends(z, g)
  <2>1. /\ \A g : g # f /\ Ascends(r, g) => Ascends(PlacesIn(f, t) \o r, g)
        /\ Gone(r, f) => Ascends(PlacesIn(f, t) \o r, f)
    BY <1>3, OpenOrder
  <2> QED
    BY <1>1, <1>3, <2>1
<1>5. ASSUME NEW i \in 1 .. Len(z)
      PROVE  z[i][1] \in asm'.included
  <2>1. PICK a \in Seq(Places) : /\ a = PlacesIn(f, t)
                                 /\ \A k \in 1 .. Len(a) : a[k] = <<f, k - 1>>
    BY PlacesInOf
  <2>2. \/ \E k \in 1 .. Len(a) : z[i] = a[k]
        \/ \E k \in 1 .. Len(r) : z[i] = r[k]
    BY <1>1, <1>3, <2>1, JoinElements
  <2>3. CASE \E k \in 1 .. Len(a) : z[i] = a[k]
    BY <2>1, <2>3
  <2>4. CASE \E k \in 1 .. Len(r) : z[i] = r[k]
    BY <1>3, <2>4
  <2> QED
    BY <2>2, <2>3, <2>4
<1> QED
  BY <1>2, <1>4, <1>5 DEF Unmixed

LEMMA FopenUnmixed ==
  ASSUME Base, Unmixed, NEW f \in Files, Fopen(f, Rest), Gone(todo, f)
  PROVE  Unmixed'
<1>1. TypeOK /\ asm \in AsmStates
  BY DEF Base, TypeOK, AsmStates
<1>2. asm'.included = asm.included \cup {f}
  BY <1>1 DEF Fopen, AsmStates
<1>3. ASSUME NEW t \in Texts, Opened(f, t, Rest)
      PROVE  Unmixed'
  BY <1>2, <1>3, OpenedUnmixed
<1>4. CASE files[f] # NotRead /\ Opened(f, files[f].text, Rest)
  <2>1. files[f].text \in Texts
    BY <1>1, <1>4, FileOf
  <2> QED
    BY <1>3, <1>4, <2>1
<1>5. CASE docs[f] # Closed /\ Opened(f, docs[f], Rest)
  <2>1. docs[f] \in Texts
    BY <1>1, <1>5 DEF TypeOK, Docs
  <2> QED
    BY <1>3, <1>5, <2>1
<1>6. CASE reading' = f /\ pc' = "read" /\ UNCHANGED todo
  BY <1>2, <1>6 DEF Unmixed
<1> QED
  BY <1>4, <1>5, <1>6 DEF Fopen

LEMMA UnmixedInit == Init => Unmixed
<1> SUFFICES ASSUME Init PROVE Unmixed
  OBVIOUS
<1>1. todo = <<>> /\ pc = "idle"
  BY DEF Init
<1> QED
  BY <1>1 DEF Unmixed, Ascends

LEMMA UnmixedNext == SoundInv /\ Unmixed /\ [Next]_vars => Unmixed'
<1> SUFFICES ASSUME Base, Unmixed, [Next]_vars PROVE Unmixed'
  BY DEF SoundInv
<1>0. TypeOK /\ asm \in AsmStates
  BY DEF Base, TypeOK, AsmStates
<1>1. CASE (\E m \in Notifications : Update(m)) \/ SkipEntry \/ EndRun \/ UNCHANGED vars
  <2>1. /\ UNCHANGED <<todo, reading, asm>>
        /\ pc' # "read" \/ pc' = pc
    BY <1>1 DEF Update, SkipEntry, EndRun, vars
  <2> QED
    BY <2>1, UnmixedStays
<1>2. CASE StartRun \/ CompileEntry \/ EndCompile
  <2>1. todo' = <<>> /\ pc' # "read"
    BY <1>2 DEF StartRun, CompileEntry, EndCompile, Base, Located
  <2> QED
    BY <2>1, UnmixedStays
<1>3. CASE OpenEntry
  <2>1. entry \in Files /\ Fopen(entry, Rest) /\ todo = <<>>
    BY <1>3 DEF OpenEntry, Base, Located
  <2>2. Gone(todo, entry)
    BY <2>1 DEF Gone
  <2> QED
    BY <2>1, <2>2, FopenUnmixed
<1>4. CASE Include
  <2>1. PICK f : f = ItemAt(Here).file
    OBVIOUS
  <2>2. /\ todo # <<>> /\ ItemAt(Here).op = "include"
        /\ f \notin asm.included /\ Fopen(f, Rest)
    BY <1>4, <2>1 DEF Include, At
  <2>3. f \in Files
    BY <2>1, <2>2, HereOf, ItemKinds DEF Base
  <2>4. Gone(todo, f)
    BY <2>2 DEF Unmixed, Gone
  <2> QED
    BY <2>2, <2>3, <2>4, FopenUnmixed
<1>5. CASE ReadFile
  <2>1. /\ reading \in Files /\ Disk[reading] \in Texts /\ asm' = asm
        /\ Opened(reading, Disk[reading], Rest)
        /\ Gone(todo, reading) /\ reading \in asm.included
    BY <1>5, SymbolsAssumption DEF ReadFile, Base, Located, Unmixed
  <2> QED
    BY <2>1, OpenedUnmixed
<1>6. CASE ReadFailure \/ ReportError
  <2>1. todo' = <<>> /\ pc' # "read"
    BY <1>6 DEF ReadFailure, ReportError, MarkError, At
  <2> QED
    BY <2>1, UnmixedStays
<1>7. CASE \/ IncludeAgain \/ PutDefinition \/ PutGenerated \/ PutReferences \/ Annotate
           \/ ChessReport
  <2>1. todo # <<>> /\ todo' = Tail(todo) /\ pc' # "read"
    BY <1>7 DEF IncludeAgain, PutDefinition, PutGenerated, PutReferences, Annotate,
                ChessReport, MarkError, At
  <2>2. asm'.included = asm.included
    <3>1. CASE IncludeAgain \/ ChessReport
      BY <3>1 DEF IncludeAgain, ChessReport, MarkError
    <3>2. CASE PutGenerated \/ Annotate \/ PutDefinition
      BY <1>0, <3>2 DEF PutGenerated, Annotate, PutDefinition, AsmStates
    <3>3. CASE PutReferences
      <4>1. PICK r : r = Reference(Here, ItemAt(Here).name)
        OBVIOUS
      <4>2. r \in MacroRef \cup LabelRef
        BY <3>3, <4>1, Handed
      <4>3. PICK a : a = PutReference(asm, r)
        OBVIOUS
      <4>4. asm' = a \/ asm' = PutReference(a, r)
        BY <3>3, <4>1, <4>3 DEF PutReferences
      <4>5. a \in AsmStates /\ a.included = asm.included
        BY <1>0, <4>2, <4>3, PutKeeps
      <4> QED
        BY <4>2, <4>4, <4>5, PutKeeps
    <3> QED
      BY <1>7, <3>1, <3>2, <3>3
  <2> QED
    BY <2>1, <2>2, UnmixedStays
<1> QED
  BY <1>1, <1>2, <1>3, <1>4, <1>5, <1>6, <1>7 DEF Next

-----------------------------------------------------------------------------
(***************************************************************************)
(* What annotations mean: the assembler reaches the items of a file one by *)
(* one, and after an include whatever comes; what it keeps of the comments *)
(* it has passed agrees with the content in front of the item in hand.     *)
(***************************************************************************)
Behind(t, b) == b >= 1 /\ Items[t][b].op = "include"

\* The places s are runs of successive items; x[g] is the content of file g.
InRuns(s, x) ==
    \A i \in 1 .. Len(s) :
      /\ s[i][2] + 2 <= Len(Items[x[s[i][1]]]) =>
           i < Len(s) /\ s[i + 1] = <<s[i][1], s[i][2] + 1>>
      /\ i > 1 => \/ s[i] = <<s[i - 1][1], s[i - 1][2] + 1>>
                  \/ Behind(x[s[i][1]], s[i][2])

LEMMA EmptyRuns ==
  ASSUME NEW x
  PROVE  InRuns(<<>>, x)
BY DEF InRuns

LEMMA SameRuns ==
  ASSUME NEW s, NEW x, NEW y, InRuns(s, x),
         \A i \in 1 .. Len(s) : y[s[i][1]] = x[s[i][1]]
  PROVE  InRuns(s, y)
BY DEF InRuns

LEMMA NotEmpty ==
  ASSUME NEW S, NEW s \in Seq(S)
  PROVE  s # <<>> <=> Len(s) >= 1
OBVIOUS

LEMMA TailRuns ==
  ASSUME NEW s \in Seq(Places), s # <<>>, NEW x, InRuns(s, x)
  PROVE  /\ InRuns(Tail(s), x)
         /\ Tail(s) # <<>> =>
              \/ Tail(s)[1] = <<s[1][1], s[1][2] + 1>>
              \/ Behind(x[Tail(s)[1][1]], Tail(s)[1][2])
         /\ s[1][2] + 2 <= Len(Items[x[s[1][1]]]) =>
              Tail(s) # <<>> /\ Tail(s)[1] = <<s[1][1], s[1][2] + 1>>
<1> DEFINE t == Tail(s)
<1>1. /\ Len(s) \in Nat /\ Len(t) \in Nat /\ Len(t) = Len(s) - 1 /\ 1 \in 1 .. Len(s)
      /\ t \in Seq(Places)
      /\ \A i \in 1 .. Len(t) : i + 1 \in 1 .. Len(s) /\ t[i] = s[i + 1]
  BY TailOf
<1>2. t # <<>> <=> Len(t) >= 1
  BY <1>1, NotEmpty, Zenon
<1> HIDE DEF t
<1>3. ASSUME NEW i \in 1 .. Len(t)
      PROVE  /\ t[i][2] + 2 <= Len(Items[x[t[i][1]]]) =>
                  i < Len(t) /\ t[i + 1] = <<t[i][1], t[i][2] + 1>>
             /\ i > 1 => \/ t[i] = <<t[i - 1][1], t[i - 1][2] + 1>>
                         \/ Behind(x[t[i][1]], t[i][2])
  <2>1. i + 1 \in 1 .. Len(s) /\ t[i] = s[i + 1] /\ i + 1 > 1
    BY <1>1
  <2>2. /\ s[i + 1][2] + 2 <= Len(Items[x[s[i + 1][1]]]) =>
              i + 1 < Len(s) /\ s[i + 1 + 1] = <<s[i + 1][1], s[i + 1][2] + 1>>
        /\ \/ s[i + 1] = <<s[i + 1 - 1][1], s[i + 1 - 1][2] + 1>>
           \/ Behind(x[s[i + 1][1]], s[i + 1][2])
    BY <2>1 DEF InRuns
  <2>3. i + 1 < Len(s) => i < Len(t) /\ t[i + 1] = s[i + 1 + 1]
    BY <1>1
  <2>4. i > 1 => t[i - 1] = s[i + 1 - 1]
    <3>1. i > 1 => i - 1 \in 1 .. Len(t) /\ i - 1 + 1 = i + 1 - 1
      BY <1>1
    <3> QED
      BY <1>1, <3>1
  <2>5. /\ t[i][2] + 2 <= Len(Items[x[t[i][1]]]) =>
              i + 1 < Len(s) /\ s[i + 1 + 1] = <<t[i][1], t[i][2] + 1>>
        /\ \/ t[i] = <<s[i + 1 - 1][1], s[i + 1 - 1][2] + 1>>
           \/ Behind(x[t[i][1]], t[i][2])
    BY <2>1, <2>2, Zenon
  <2> QED
    BY <2>3, <2>4, <2>5, Zenon
<1>4. InRuns(t, x)
  BY <1>3 DEF InRuns
<1>5. t # <<>> => t[1] = s[2] /\ 2 \in 1 .. Len(s)
  BY <1>1, <1>2
<1>6. t # <<>> => \/ t[1] = <<s[1][1], s[1][2] + 1>>
                  \/ Behind(x[t[1][1]], t[1][2])
  <2>1. 2 \in 1 .. Len(s) => \/ s[2] = <<s[2 - 1][1], s[2 - 1][2] + 1>>
                             \/ Behind(x[s[2][1]], s[2][2])
    BY DEF InRuns
  <2> QED
    BY <1>5, <2>1
<1>7. s[1][2] + 2 <= Len(Items[x[s[1][1]]]) => 1 < Len(s) /\ s[1 + 1] = <<s[1][1], s[1][2] + 1>>
  BY <1>1 DEF InRuns
<1>8. 1 < Len(s) => t # <<>> /\ t[1] = s[1 + 1]
  BY <1>1, <1>2, <1>5
<1> QED
  BY <1>4, <1>6, <1>7, <1>8 DEF t

\* What follows an include comes behind it, in the same file or another one.
LEMMA OpenRuns ==
  ASSUME NEW f \in Files, NEW t \in Texts, NEW rest \in Seq(Places), NEW x, x[f] = t,
         InRuns(rest, x), rest # <<>> => Behind(x[rest[1][1]], rest[1][2])
  PROVE  /\ InRuns(PlacesIn(f, t) \o rest, x)
         /\ PlacesIn(f, t) \o rest # <<>> =>
              LET p == (PlacesIn(f, t) \o rest)[1]
              IN  p = <<f, 0>> \/ Behind(x[p[1]], p[2])
<1> DEFINE a == PlacesIn(f, t)
           s == a \o rest
<1>1. /\ a \in Seq(Places) /\ Len(a) \in Nat /\ Len(rest) \in Nat
      /\ \A k \in 1 .. Len(a) : a[k] = <<f, k - 1>>
      /\ Len(a) = Len(Items[t])
  <2>1. Items[t] \in Seq(Item)
    BY SymbolsAssumption
  <2> QED
    BY <2>1, PlacesInOf DEF PlacesIn
<1> HIDE DEF a
<1>2. /\ s \in Seq(Places)
      /\ Len(s) = Len(a) + Len(rest)
      /\ \A k \in 1 .. Len(a) : s[k] = a[k]
      /\ \A k \in 1 .. Len(rest) : s[Len(a) + k] = rest[k]
  <2>1. a \in Seq(Places)
    BY <1>1
  <2> QED
    BY <2>1, JoinOf
<1> HIDE DEF s
<1>3. \A k \in 1 .. Len(a) : s[k] = <<f, k - 1>>
  BY <1>1, <1>2
<1>4. ASSUME NEW i \in 1 .. Len(s), i <= Len(a)
      PROVE  /\ s[i][2] + 2 <= Len(Items[x[s[i][1]]]) =>
                  i < Len(s) /\ s[i + 1] = <<s[i][1], s[i][2] + 1>>
             /\ i > 1 => s[i] = <<s[i - 1][1], s[i - 1][2] + 1>>
  <2>1. i \in 1 .. Len(a) /\ s[i] = <<f, i - 1>> /\ Len(s) \in Nat
    BY <1>1, <1>2, <1>3, <1>4
  <2>2. s[i][2] + 2 <= Len(Items[x[s[i][1]]]) => i + 1 \in 1 .. Len(a)
    <3>1. s[i][1] = f /\ s[i][2] = i - 1
      BY <2>1
    <3> QED
      BY <1>1, <2>1, <3>1
  <2>3. i + 1 \in 1 .. Len(a) => i < Len(s) /\ s[i + 1] = <<s[i][1], s[i][2] + 1>>
    BY <1>1, <1>2, <1>3, <2>1
  <2>4. i > 1 => s[i - 1] = <<f, i - 1 - 1>>
    <3>1. i > 1 => i - 1 \in 1 .. Len(a)
      BY <1>1, <2>1
    <3> QED
      BY <1>3, <3>1
  <2>5. i > 1 => s[i] = <<s[i - 1][1], s[i - 1][2] + 1>>
    <3>1. i - 1 - 1 + 1 = i - 1
      BY <1>1, <2>1
    <3>2. i > 1 => s[i - 1][1] = f /\ s[i - 1][2] = i - 1 - 1
      BY <2>4
    <3> QED
      BY <2>1, <3>1, <3>2, Zenon
  <2> QED
    BY <2>2, <2>3, <2>5
<1>5. ASSUME NEW i \in 1 .. Len(s), ~(i <= Len(a))
      PROVE  /\ s[i][2] + 2 <= Len(Items[x[s[i][1]]]) =>
                  i < Len(s) /\ s[i + 1] = <<s[i][1], s[i][2] + 1>>
             /\ \/ i > 1 /\ s[i] = <<s[i - 1][1], s[i - 1][2] + 1>>
                \/ Behind(x[s[i][1]], s[i][2])
  <2>1. PICK k \in 1 .. Len(rest) : i = Len(a) + k
    <3>1. i - Len(a) \in 1 .. Len(rest) /\ i = Len(a) + (i - Len(a))
      BY <1>1, <1>2, <1>5
    <3> QED
      BY <3>1
  <2>2. s[i] = rest[k] /\ k \in Nat /\ Len(s) \in Nat
    BY <1>1, <1>2, <2>1
  <2>3. /\ rest[k][2] + 2 <= Len(Items[x[rest[k][1]]]) =>
              k < Len(rest) /\ rest[k + 1] = <<rest[k][1], rest[k][2] + 1>>
        /\ k > 1 => \/ rest[k] = <<rest[k - 1][1], rest[k - 1][2] + 1>>
                    \/ Behind(x[rest[k][1]], rest[k][2])
    BY DEF InRuns
  <2>4. k < Len(rest) => i < Len(s) /\ s[i + 1] = rest[k + 1]
    <3>1. k < Len(rest) => k + 1 \in 1 .. Len(rest) /\ Len(a) + (k + 1) = i + 1 /\ i < Len(s)
      <4>1. /\ Len(a) \in Nat /\ Len(rest) \in Nat /\ k \in Nat /\ k >= 1
            /\ Len(s) = Len(a) + Len(rest) /\ i = Len(a) + k
        BY <1>1, <1>2, <2>1, <2>2
      <4> QED
        BY <4>1
    <3>2. k + 1 \in 1 .. Len(rest) => s[Len(a) + (k + 1)] = rest[k + 1]
      BY <1>2
    <3>3. PICK m : m = Len(a) + (k + 1)
      OBVIOUS
    <3> QED
      BY <3>1, <3>2, <3>3, ZenonT(30)
  <2>5. k > 1 => i > 1 /\ s[i - 1] = rest[k - 1]
    <3>1. k > 1 => k - 1 \in 1 .. Len(rest) /\ Len(a) + (k - 1) = i - 1 /\ i > 1
      <4>1. /\ Len(a) \in Nat /\ Len(rest) \in Nat /\ k \in Nat /\ k <= Len(rest)
            /\ i = Len(a) + k
        BY <1>1, <1>2, <2>1, <2>2
      <4> QED
        BY <4>1
    <3> QED
      BY <1>2, <3>1
  <2>6. k = 1 => Behind(x[rest[k][1]], rest[k][2])
    <3>1. rest # <<>>
      BY <1>1, <2>1
    <3> QED
      BY <3>1
  <2>7. k > 1 \/ k = 1
    BY <1>1
  <2> QED
    BY <2>2, <2>3, <2>4, <2>5, <2>6, <2>7
<1>6. InRuns(s, x)
  BY <1>4, <1>5 DEF InRuns
<1>7. ASSUME s # <<>>
      PROVE  s[1] = <<f, 0>> \/ Behind(x[s[1][1]], s[1][2])
  <2>1. CASE Len(a) >= 1
    <3>1. 1 \in 1 .. Len(a) /\ 1 - 1 = 0
      BY <1>1, <2>1
    <3> QED
      BY <1>3, <3>1
  <2>2. CASE Len(a) = 0
    <3>1. 1 \in 1 .. Len(rest) /\ Len(a) + 1 = 1 /\ rest # <<>>
      BY <1>1, <1>2, <1>7, <2>2
    <3>2. s[1] = rest[1]
      BY <1>2, <3>1
    <3> QED
      BY <3>1, <3>2
  <2> QED
    BY <1>1, <2>1, <2>2
<1> QED
  BY <1>6, <1>7 DEF s, a

\* The comment in front of a label, and the group that the last one has opened:
\* e is asm.enum and c is asm.scope in front of the item behind byte b.
Grouped(t, b, e, c) ==
    \A s \in Scopes :
      /\ InGroup(t, b, s) => e \/ c = s
      /\ Apart(t, b, s) => ~e /\ c # s

\* What the item in hand does to them
Takes(it, e, c, e2, c2) ==
    /\ it.op \in Definitions =>
         /\ ~e2
         /\ c2 = IF e THEN it.name.scope
                 ELSE IF it.op = "label" /\ it.zero /\ c # it.name.scope THEN None ELSE c
    /\ it.op \notin Definitions => c2 = c /\ (e2 <=> e \/ it.op = "enum")

\* Nothing is said in front of the first item, nor behind an include.
LEMMA GroupedAfresh ==
  ASSUME NEW t, NEW b \in Nat, b = 0 \/ Behind(t, b), NEW e, NEW c
  PROVE  Grouped(t, b, e, c)
<1>1. ASSUME NEW k \in 1 .. b, Items[t][k].op # "include"
      PROVE  "include" \in Ops(t, k + 1, b)
  <2>1. Items[t][b].op = "include" /\ b \in k + 1 .. b
    <3>1. Items[t][b].op = "include"
      BY <1>1 DEF Behind
    <3>2. k # b
      BY <1>1, <3>1
    <3> QED
      BY <3>1, <3>2
  <2> QED
    BY <2>1 DEF Ops
<1>2. \A s : ~InGroup(t, b, s)
  BY <1>1 DEF InGroup
<1>3. \A s : ~Apart(t, b, s)
  BY <1>1 DEF Apart
<1> QED
  BY <1>2, <1>3 DEF Grouped

LEMMA GroupedOn ==
  ASSUME NEW t, NEW b \in Nat, NEW e \in BOOLEAN, NEW c, NEW e2 \in BOOLEAN, NEW c2,
         Grouped(t, b, e, c), Items[t][b + 1].op # "include",
         Takes(Items[t][b + 1], e, c, e2, c2)
  PROVE  Grouped(t, b + 1, e2, c2)
<1> DEFINE it == Items[t][b + 1]
<1>1. \A k \in 1 .. b + 1 : k = b + 1 \/ (k \in 1 .. b /\ b + 1 \in k + 1 .. b + 1)
  OBVIOUS
<1>2. ASSUME NEW k \in 1 .. b
      PROVE  /\ it.op \in Ops(t, k + 1, b + 1)
             /\ Ops(t, k + 1, b) \subseteq Ops(t, k + 1, b + 1)
             /\ \A m \in k + 1 .. b : m \in k + 1 .. b + 1
  <2>1. b + 1 \in k + 1 .. b + 1 /\ \A m \in k + 1 .. b : m \in k + 1 .. b + 1
    OBVIOUS
  <2> QED
    BY <2>1 DEF Ops
<1> HIDE DEF it
<1>3. ASSUME NEW s \in Scopes, InGroup(t, b + 1, s)
      PROVE  e2 \/ c2 = s
  <2>1. PICK k \in 1 .. b + 1 :
          /\ Items[t][k].op = "enum"
          /\ Ops(t, k + 1, b + 1) \cap {"include", "macro"} = {}
          /\ \A m \in k + 1 .. b + 1 :
               Items[t][m].op = "label" => Items[t][m].name.scope = s
    BY <1>3 DEF InGroup
  <2>2. CASE k = b + 1
    BY <2>1, <2>2 DEF Takes, Definitions, it
  <2>3. CASE k \in 1 .. b /\ b + 1 \in k + 1 .. b + 1
    <3>1. InGroup(t, b, s)
      BY <1>2, <2>1, <2>3 DEF InGroup
    <3>2. e \/ c = s
      BY <3>1 DEF Grouped
    <3>3. it.op # "macro" /\ (it.op = "label" => it.name.scope = s)
      BY <1>2, <2>1, <2>3 DEF it
    <3>4. Takes(it, e, c, e2, c2)
      BY DEF it
    <3> QED
      BY <3>2, <3>3, <3>4 DEF Takes, Definitions
  <2> QED
    BY <1>1, <2>2, <2>3
<1>4. ASSUME NEW s \in Scopes, Apart(t, b + 1, s)
      PROVE  ~e2 /\ c2 # s
  <2>1. PICK k \in 1 .. b + 1 :
          /\ Items[t][k].op = "label" /\ Items[t][k].zero
          /\ Items[t][k].name.scope # s
          /\ Ops(t, k + 1, b + 1) \cap {"include", "enum"} = {}
    BY <1>4 DEF Apart
  <2>2. None # s
    BY SymbolsAssumption
  <2>3. Takes(it, e, c, e2, c2)
    BY DEF it
  <2>4. CASE k = b + 1
    <3>1. it.op = "label" /\ it.zero /\ it.name.scope # s
      BY <2>1, <2>4 DEF it
    <3> QED
      BY <2>2, <2>3, <3>1 DEF Takes, Definitions
  <2>5. CASE k \in 1 .. b /\ b + 1 \in k + 1 .. b + 1
    <3>1. Apart(t, b, s)
      BY <1>2, <2>1, <2>5 DEF Apart
    <3>2. ~e /\ c # s
      BY <3>1 DEF Grouped
    <3>3. it.op # "enum"
      BY <1>2, <2>1, <2>5
    <3> QED
      BY <2>2, <2>3, <3>2, <3>3 DEF Takes, Definitions
  <2> QED
    BY <1>1, <2>4, <2>5
<1> QED
  BY <1>3, <1>4 DEF Grouped

\* The page of the labels behind byte b
LEMMA AfterNext ==
  ASSUME NEW t, NEW b \in Nat
  PROVE  /\ ~AfterDevice(t, 0)
         /\ AfterDevice(t, b + 1) <=>
              \/ Items[t][b + 1].op = "device"
              \/ AfterDevice(t, b) /\ Items[t][b + 1].op # "memory"
<1>1. \A k \in 1 .. b + 1 : k = b + 1 \/ k \in 1 .. b
  OBVIOUS
<1>2. ASSUME NEW k \in 1 .. b
      PROVE  Ops(t, k + 1, b + 1) = Ops(t, k + 1, b) \cup {Items[t][b + 1].op}
  <2>1. \A m : m \in k + 1 .. b + 1 <=> (m \in k + 1 .. b \/ m = b + 1)
    OBVIOUS
  <2> QED
    BY <2>1 DEF Ops
<1>3. Ops(t, b + 1 + 1, b + 1) = {}
  BY DEF Ops
<1>4. ~AfterDevice(t, 0)
  BY DEF AfterDevice
<1>5. ASSUME AfterDevice(t, b + 1)
      PROVE  \/ Items[t][b + 1].op = "device"
             \/ AfterDevice(t, b) /\ Items[t][b + 1].op # "memory"
  <2>1. PICK k \in 1 .. b + 1 : Items[t][k].op = "device" /\ "memory" \notin Ops(t, k + 1, b + 1)
    BY <1>5 DEF AfterDevice
  <2> QED
    BY <1>1, <1>2, <2>1 DEF AfterDevice
<1>6. ASSUME Items[t][b + 1].op = "device"
      PROVE  AfterDevice(t, b + 1)
  <2>1. b + 1 \in 1 .. b + 1
    OBVIOUS
  <2> QED
    BY <1>3, <1>6, <2>1 DEF AfterDevice
<1>7. ASSUME AfterDevice(t, b), Items[t][b + 1].op # "memory"
      PROVE  AfterDevice(t, b + 1)
  <2>1. PICK k \in 1 .. b : Items[t][k].op = "device" /\ "memory" \notin Ops(t, k + 1, b)
    BY <1>7 DEF AfterDevice
  <2>2. k \in 1 .. b + 1 /\ "memory" \notin Ops(t, k + 1, b + 1)
    BY <1>2, <1>7, <2>1
  <2> QED
    BY <2>1, <2>2 DEF AfterDevice
<1> QED
  BY <1>4, <1>5, <1>6, <1>7

\* The page of file g, device or not, is that of the next item of the file, of
\* content t, wherever in s it comes.
IsFirst(s, g, i) == s[i][1] = g /\ \A j \in 1 .. i - 1 : s[j][1] # g

PageAt(s, g, t, device, a) ==
    \A i \in 1 .. Len(s) : IsFirst(s, g, i) =>
      /\ AfterDevice(t, s[i][2]) => device
      /\ device => AfterDevice(t, s[i][2]) \/ a

LEMMA PageEmpty ==
  ASSUME NEW g, NEW t, NEW device, NEW a
  PROVE  PageAt(<<>>, g, t, device, a)
BY DEF PageAt

LEMMA PageElsewhere ==
  ASSUME NEW s \in Seq(Places), s # <<>>, NEW g, s[1][1] # g, NEW t, NEW device,
         NEW a, PageAt(s, g, t, device, a)
  PROVE  PageAt(Tail(s), g, t, device, a)
<1> DEFINE r == Tail(s)
<1>1. /\ Len(s) \in Nat /\ Len(r) \in Nat
      /\ \A i \in 1 .. Len(r) : i + 1 \in 1 .. Len(s) /\ r[i] = s[i + 1]
  BY TailOf
<1> HIDE DEF r
<1>2. ASSUME NEW i \in 1 .. Len(r), IsFirst(r, g, i)
      PROVE  /\ AfterDevice(t, r[i][2]) => device
             /\ device => AfterDevice(t, r[i][2]) \/ a
  <2>1. ASSUME NEW j \in 1 .. i + 1 - 1
        PROVE  s[j][1] # g
    <3>1. CASE j = 1
      BY <3>1
    <3>2. CASE j # 1
      <4>1. j - 1 \in 1 .. i - 1 /\ j - 1 \in 1 .. Len(r) /\ j - 1 + 1 = j
        BY <1>1, <3>2
      <4>2. r[j - 1] = s[j - 1 + 1]
        BY <1>1, <4>1, Zenon
      <4>3. r[j - 1][1] # g
        BY <1>2, <4>1 DEF IsFirst
      <4> QED
        BY <4>1, <4>2, <4>3
    <3> QED
      BY <3>1, <3>2
  <2>2. i + 1 \in 1 .. Len(s) /\ r[i] = s[i + 1] /\ r[i][1] = g
    BY <1>1, <1>2 DEF IsFirst
  <2>3. IsFirst(s, g, i + 1)
    BY <2>1, <2>2 DEF IsFirst
  <2> QED
    BY <2>2, <2>3 DEF PageAt
<1> QED
  BY <1>2 DEF PageAt, r

\* The item in hand is one of file g, which has not been opened twice in this compilation.
LEMMA PageOn ==
  ASSUME NEW s \in Seq(Places), s # <<>>, NEW g, s[1][1] = g, NEW t \in Texts,
         NEW x, x[g] = t, InRuns(s, x), Ascends(s, g),
         \A i \in 1 .. Len(s) : s[i][1] = g => s[i][2] + 1 \in 1 .. Len(Items[t]),
         NEW device, NEW a,
         AfterDevice(t, s[1][2] + 1) => device,
         device => AfterDevice(t, s[1][2] + 1) \/ a
  PROVE  PageAt(Tail(s), g, t, device, a)
<1> DEFINE r == Tail(s)
           b == s[1][2]
<1>1. /\ Len(s) \in Nat /\ Len(r) \in Nat /\ 1 \in 1 .. Len(s)
      /\ \A i \in 1 .. Len(r) : i + 1 \in 1 .. Len(s) /\ r[i] = s[i + 1]
  BY TailOf
<1>2. Items[t] \in Seq(Item)
  BY SymbolsAssumption
<1>3. b + 2 <= Len(Items[t]) => r # <<>> /\ r[1] = <<g, b + 1>>
  BY TailRuns
<1>4. \A i \in 1 .. Len(s) : s[i][1] \in Files /\ s[i][2] \in Nat
  BY PlaceParts
<1> HIDE DEF r
<1>5. ASSUME NEW i \in 1 .. Len(r), IsFirst(r, g, i)
      PROVE  r[i][2] = b + 1
  <2>1. i + 1 \in 1 .. Len(s) /\ 1 < i + 1 /\ r[i] = s[i + 1] /\ r[i][1] = g
    BY <1>1, <1>5 DEF IsFirst
  <2>2. b < r[i][2] /\ r[i][2] \in Nat /\ b \in Nat /\ r[i][2] + 1 \in 1 .. Len(Items[t])
    BY <1>1, <1>4, <2>1 DEF Ascends
  <2>3. b + 2 <= Len(Items[t])
    BY <1>2, <2>2
  <2>4. r[1] = <<g, b + 1>> /\ r[1][1] = g
    BY <1>3, <2>3
  <2>5. CASE i = 1
    BY <2>4, <2>5
  <2>6. CASE i # 1
    <3>1. 1 \in 1 .. i - 1
      BY <1>1, <2>6
    <3> QED
      BY <1>5, <2>4, <3>1 DEF IsFirst
  <2> QED
    BY <2>5, <2>6
<1> HIDE DEF b
<1>6. \A i \in 1 .. Len(r) : IsFirst(r, g, i) =>
        /\ AfterDevice(t, r[i][2]) => device
        /\ device => AfterDevice(t, r[i][2]) \/ a
  BY <1>5 DEF b
<1> QED
  BY <1>6 DEF PageAt, r

\* A file is opened: what comes of the others stays behind it.
LEMMA PageOpen ==
  ASSUME NEW f \in Files, NEW u \in Texts, NEW rest \in Seq(Places), NEW g, NEW t,
         NEW device, NEW a,
         \/ g # f /\ PageAt(rest, g, t, device, a)
         \/ g = f /\ Gone(rest, f) /\ (device => a)
  PROVE  PageAt(PlacesIn(f, u) \o rest, g, t, device, a)
<1> DEFINE h == PlacesIn(f, u)
           s == h \o rest
<1>1. /\ h \in Seq(Places) /\ Len(h) \in Nat /\ Len(rest) \in Nat
      /\ \A k \in 1 .. Len(h) : h[k] = <<f, k - 1>>
  BY PlacesInOf
<1> HIDE DEF h
<1>2. /\ Len(s) = Len(h) + Len(rest)
      /\ \A k \in 1 .. Len(h) : s[k] = h[k]
      /\ \A k \in 1 .. Len(rest) : s[Len(h) + k] = rest[k]
  <2>1. h \in Seq(Places)
    BY <1>1
  <2> QED
    BY <2>1, JoinOf
<1> HIDE DEF s
<1>3. \A k \in 1 .. Len(h) : s[k] = <<f, k - 1>>
  BY <1>1, <1>2
<1>4. ASSUME NEW i \in 1 .. Len(s)
      PROVE  \/ i \in 1 .. Len(h)
             \/ \E k \in 1 .. Len(rest) : i = Len(h) + k /\ s[i] = rest[k]
  <2>1. CASE i <= Len(h)
    BY <1>1, <2>1
  <2>2. CASE ~(i <= Len(h))
    <3>1. i - Len(h) \in 1 .. Len(rest) /\ i = Len(h) + (i - Len(h))
      BY <1>1, <1>2, <2>2
    <3> QED
      BY <1>2, <3>1
  <2> QED
    BY <2>1, <2>2
<1>5. ASSUME NEW i \in 1 .. Len(s), IsFirst(s, g, i)
      PROVE  /\ AfterDevice(t, s[i][2]) => device
             /\ device => AfterDevice(t, s[i][2]) \/ a
  <2>1. s[i][1] = g
    BY <1>5 DEF IsFirst
  <2>2. CASE g # f
    <3>1. PICK k \in 1 .. Len(rest) : i = Len(h) + k /\ s[i] = rest[k]
      <4>1. i \notin 1 .. Len(h)
        <5>1. ASSUME i \in 1 .. Len(h)
              PROVE  s[i][1] = f
          BY <1>3, <5>1
        <5> QED
          BY <2>1, <2>2, <5>1
      <4> QED
        BY <1>4, <4>1
    <3>2. ASSUME NEW j \in 1 .. k - 1
          PROVE  rest[j][1] # g
      <4>1. j \in 1 .. Len(rest) /\ Len(h) + j \in 1 .. i - 1
        BY <1>1, <3>1
      <4>2. s[Len(h) + j] = rest[j]
        BY <1>2, <4>1, Zenon
      <4>3. s[Len(h) + j][1] # g
        BY <1>5, <4>1 DEF IsFirst
      <4> QED
        BY <4>2, <4>3
    <3>3. IsFirst(rest, g, k)
      BY <2>1, <3>1, <3>2 DEF IsFirst
    <3> QED
      BY <2>2, <3>1, <3>3 DEF PageAt
  <2>3. CASE g = f
    <3>1. i \in 1 .. Len(h)
      BY <1>4, <2>1, <2>3 DEF Gone
    <3>2. CASE i = 1
      <4>1. s[i] = <<f, 0>>
        BY <1>1, <1>3, <3>1, <3>2
      <4> QED
        BY <2>3, <4>1, AfterNext
    <3>3. CASE i # 1
      <4>1. 1 \in 1 .. i - 1 /\ 1 \in 1 .. Len(h)
        BY <1>1, <3>1, <3>3
      <4>2. s[1][1] = f
        BY <1>3, <4>1
      <4> QED
        BY <1>5, <2>3, <4>1, <4>2 DEF IsFirst
    <3> QED
      BY <3>2, <3>3
  <2> QED
    BY <2>2, <2>3
<1> QED
  BY <1>5 DEF PageAt, s, h

\* There is no definition among these items.
Free(t, i, j) == \A k \in i .. j : Items[t][k].op \notin Definitions

\* What definition d of content t means is right as long as no stack comment
\* follows.
Fits(t, d, a) ==
    LET scope == Items[t][d.byte + 1].name.scope
    IN  /\ InGroup(t, d.byte, scope) => d.sem \in {"enum", "subroutine"}
        /\ Apart(t, d.byte, scope) => d.sem # "enum"
        /\ d.sem = "device_port" => AfterDevice(t, d.byte) \/ (a /\ HasDevice(t))
        /\ d.sem = "variable" => ~AfterDevice(t, d.byte)
        /\ Unsigned(t, d.byte) => d.sem # "subroutine"

\* When the places s are left, and n is asm.node: the item in hand is behind
\* definition d, which is node p; and no definition of p's file is between them.
Waiting(p, d, s, n, c) == c = "asm" /\ s # <<>> /\ s[1] = <<p[1], d.byte + 1>> /\ n = p

Since(p, d, t, s) ==
    s # <<>> => s[1][1] = p[1] /\ s[1][2] > d.byte /\ Free(t, d.byte + 2, s[1][2])

NodeRight(p, d, t, s, n, c, a) ==
    d.by # 0 /\ IsZeroLabel(Items[t][d.byte + 1]) =>
      /\ Fits(t, d, a)
      /\ Signed(t, d.byte) => d.sem = "subroutine" \/ Waiting(p, d, s, n, c)
      /\ n = p /\ Unsigned(t, d.byte) => Since(p, d, t, s)

\* Up to the next definition there is neither a stack comment nor an include.
LEMMA UnsignedOn ==
  ASSUME NEW t \in Texts, NEW b \in Nat, Unsigned(t, b), NEW j \in Nat, j > b,
         Free(t, b + 2, j)
  PROVE  /\ Items[t][j + 1].op \notin {"sig", "include"}
         /\ Items[t][j + 1].op \notin Definitions =>
              j + 2 <= Len(Items[t]) /\ Free(t, b + 2, j + 1)
<1>1. Len(Items[t]) \in Nat
  BY SymbolsAssumption
<1>2. PICK d \in b + 2 .. Len(Items[t]) :
        Items[t][d].op \in Definitions /\ Ops(t, b + 2, d - 1) \cap {"sig", "include"} = {}
  BY DEF Unsigned
<1>3. d >= j + 1
  <2>1. d \notin b + 2 .. j
    BY <1>2 DEF Free
  <2> QED
    BY <1>1, <2>1
<1>4. CASE d = j + 1
  BY <1>2, <1>4 DEF Definitions
<1>5. CASE d # j + 1
  <2>1. j + 1 \in b + 2 .. d - 1 /\ j + 2 <= Len(Items[t])
    BY <1>1, <1>3, <1>5
  <2>2. Items[t][j + 1].op \notin {"sig", "include"}
    BY <1>2, <2>1 DEF Ops
  <2>3. \A k \in b + 2 .. j + 1 : k = j + 1 \/ k \in b + 2 .. j
    OBVIOUS
  <2> QED
    BY <2>1, <2>2, <2>3 DEF Free
<1> QED
  BY <1>4, <1>5

LEMMA NodeKept ==
  ASSUME NEW p, NEW d, NEW t, NEW s, NEW n, NEW c, NEW a, NodeRight(p, d, t, s, n, c, a),
         NEW x, x[p[1]] = t, d.byte \in Nat,
         c = "asm" /\ s # <<>> => Items[x[s[1][1]]][s[1][2] + 1].op # "sig",
         NEW s2, NEW n2, NEW c2,
         n2 = p /\ Unsigned(t, d.byte) /\ (n = p => Since(p, d, t, s)) =>
           Since(p, d, t, s2)
  PROVE  NodeRight(p, d, t, s2, n2, c2, a)
<1> SUFFICES ASSUME d.by # 0, IsZeroLabel(Items[t][d.byte + 1])
             PROVE  /\ Fits(t, d, a)
                    /\ Signed(t, d.byte) => d.sem = "subroutine" \/ Waiting(p, d, s2, n2, c2)
                    /\ n2 = p /\ Unsigned(t, d.byte) => Since(p, d, t, s2)
  BY DEF NodeRight
<1>1. /\ Fits(t, d, a)
      /\ Signed(t, d.byte) => d.sem = "subroutine" \/ Waiting(p, d, s, n, c)
      /\ n = p /\ Unsigned(t, d.byte) => Since(p, d, t, s)
  BY DEF NodeRight
<1>2. ASSUME Signed(t, d.byte), Waiting(p, d, s, n, c)
      PROVE  FALSE
  <2>1. /\ c = "asm" /\ s # <<>> /\ s[1][1] = p[1] /\ s[1][2] = d.byte + 1
        /\ Items[t][d.byte + 2].op = "sig"
    BY <1>2 DEF Signed, Waiting
  <2>2. d.byte + 1 + 1 = d.byte + 2
    OBVIOUS
  <2> QED
    BY <2>1, <2>2
<1> QED
  BY <1>1, <1>2

\* The item in hand is neither a definition nor a stack comment.
LEMMA NodeOn ==
  ASSUME NEW p, NEW d, NEW t \in Texts, NEW s \in Seq(Places), s # <<>>, NEW n, NEW c, NEW a,
         NodeRight(p, d, t, s, n, c, a), NEW x, x[p[1]] = t, d.byte \in Nat, InRuns(s, x),
         Items[x[s[1][1]]][s[1][2] + 1].op \notin Definitions \cup {"sig"},
         NEW s2, NEW c2,
         s2 \in {<<>>, Tail(s)} \/ Items[x[s[1][1]]][s[1][2] + 1].op = "include"
  PROVE  NodeRight(p, d, t, s2, n, c2, a)
<1> DEFINE b == s[1][2]
<1>1. ASSUME Unsigned(t, d.byte), Since(p, d, t, s)
      PROVE  Since(p, d, t, s2)
  <2>1. s[1][1] = p[1] /\ b > d.byte /\ Free(t, d.byte + 2, b)
    BY <1>1 DEF Since
  <2>2. b \in Nat
    BY TailOf, PlaceParts
  <2>3. Items[t][b + 1].op \notin Definitions \cup {"sig"}
    BY <2>1
  <2>4. /\ Items[t][b + 1].op # "include"
        /\ b + 2 <= Len(Items[t]) /\ Free(t, d.byte + 2, b + 1)
    BY <1>1, <2>1, <2>2, <2>3, UnsignedOn
  <2>5. s2 \in {<<>>, Tail(s)}
    BY <2>1, <2>4
  <2>6. Tail(s)[1] = <<p[1], b + 1>>
    BY <2>1, <2>4, TailRuns
  <2>7. CASE s2 = <<>>
    BY <2>7 DEF Since
  <2>8. CASE s2 = Tail(s)
    <3>1. s2[1][1] = p[1] /\ s2[1][2] = b + 1
      <4>1. PICK q : q = s2[1]
        OBVIOUS
      <4>2. q = <<p[1], b + 1>>
        BY <2>6, <2>8, <4>1, Zenon
      <4>3. q[1] = p[1] /\ q[2] = b + 1
        BY <4>2
      <4> QED
        BY <4>1, <4>3, Zenon
    <3>2. b + 1 > d.byte
      BY <2>1, <2>2
    <3> QED
      BY <2>4, <3>1, <3>2 DEF Since
  <2> QED
    BY <2>5, <2>7, <2>8
<1>2. Items[x[s[1][1]]][s[1][2] + 1].op # "sig"
  OBVIOUS
<1>3. n = p /\ Unsigned(t, d.byte) /\ (n = p => Since(p, d, t, s)) => Since(p, d, t, s2)
  BY <1>1
<1> HIDE DEF b
<1> QED
  BY <1>2, <1>3, NodeKept, Zenon

\* The item in hand is a stack comment.
LEMMA NodeSigned ==
  ASSUME NEW p, NEW d \in Def, NEW t \in Texts, NEW s \in Seq(Places), s # <<>>, NEW n, NEW a,
         NodeRight(p, d, t, s, n, "asm", a), NEW x, x[p[1]] = t,
         Items[x[s[1][1]]][s[1][2] + 1].op = "sig", NEW s2, NEW e \in Def,
         e.by = d.by, e.byte = d.byte, e.sem = IF n = p THEN "subroutine" ELSE d.sem
  PROVE  NodeRight(p, e, t, s2, n, "asm", a)
<1> SUFFICES ASSUME d.by # 0, IsZeroLabel(Items[t][d.byte + 1])
             PROVE  /\ Fits(t, e, a)
                    /\ Signed(t, d.byte) => e.sem = "subroutine"
                    /\ n = p => ~Unsigned(t, d.byte)
  BY DEF NodeRight
<1>1. /\ Fits(t, d, a)
      /\ Signed(t, d.byte) => d.sem = "subroutine" \/ Waiting(p, d, s, n, "asm")
      /\ n = p /\ Unsigned(t, d.byte) => Since(p, d, t, s)
  BY DEF NodeRight
<1>2. s[1][2] \in Nat /\ d.byte \in Nat
  BY TailOf, PlaceParts DEF Def
<1>3. ASSUME n = p, Unsigned(t, d.byte)
      PROVE  FALSE
  <2>1. s[1][1] = p[1] /\ s[1][2] > d.byte /\ Free(t, d.byte + 2, s[1][2])
    BY <1>1, <1>3 DEF Since
  <2>2. Items[t][s[1][2] + 1].op # "sig"
    BY <1>2, <1>3, <2>1, UnsignedOn
  <2> QED
    BY <2>1, <2>2
<1>4. CASE n = p
  BY <1>1, <1>3, <1>4 DEF Fits
<1>5. CASE n # p
  BY <1>1, <1>5 DEF Fits, Waiting
<1> QED
  BY <1>3, <1>4, <1>5

\* What definition d of item it means, a label in the zero page
NewMeaning(d, it, e, c, page) ==
    IsZeroLabel(it) => d.sem = IF e \/ c = it.name.scope THEN "enum" ELSE page

\* The item in hand is the definition d, which becomes node p.
LEMMA NodeNew ==
  ASSUME NEW p, NEW d \in Def, NEW t \in Texts, NEW s \in Seq(Places), s # <<>>,
         s[1] = <<p[1], d.byte>>, NEW x, x[p[1]] = t, InRuns(s, x),
         Items[t][d.byte + 1] \in Item,
         NEW e \in BOOLEAN, NEW c, Grouped(t, d.byte, e, c),
         NEW page \in {"variable", "device_port"},
         NEW a, AfterDevice(t, d.byte) => page = "device_port",
         page = "device_port" => AfterDevice(t, d.byte) \/ (a /\ HasDevice(t)),
         NewMeaning(d, Items[t][d.byte + 1], e, c, page)
  PROVE  NodeRight(p, d, t, Tail(s), p, "asm", a)
<1> DEFINE b == d.byte
           scope == Items[t][b + 1].name.scope
<1> SUFFICES ASSUME IsZeroLabel(Items[t][b + 1])
             PROVE  /\ Fits(t, d, a)
                    /\ Signed(t, b) => Waiting(p, d, Tail(s), p, "asm")
                    /\ Unsigned(t, b) => Since(p, d, t, Tail(s))
  BY DEF NodeRight
<1>1. b \in Nat /\ Len(Items[t]) \in Nat
  BY SymbolsAssumption DEF Def
<1>2. scope \in Scopes
  <2>1. Items[t][b + 1].op \in Definitions
    BY DEF IsZeroLabel, Definitions
  <2> QED
    BY <2>1, ItemKinds, NameParts
<1>3. /\ InGroup(t, b, scope) => e \/ c = scope
      /\ Apart(t, b, scope) => ~e /\ c # scope
  BY <1>2 DEF Grouped
<1>4. s[1][1] = p[1] /\ s[1][2] = b
  OBVIOUS
<1>5. d.sem = IF e \/ c = scope THEN "enum" ELSE page
  BY DEF NewMeaning
<1>6. Fits(t, d, a)
  BY <1>3, <1>5 DEF Fits
<1>7. b + 2 <= Len(Items[t]) => Tail(s) # <<>> /\ Tail(s)[1] = <<p[1], b + 1>>
  BY <1>4, TailRuns
<1> HIDE DEF scope
<1>8. Signed(t, b) => Waiting(p, d, Tail(s), p, "asm")
  BY <1>7 DEF Signed, Waiting
<1>9. Unsigned(t, b) => b + 2 <= Len(Items[t])
  BY <1>1 DEF Unsigned
<1>10. Free(t, b + 2, b + 1)
  BY <1>1 DEF Free
<1>11. Unsigned(t, b) => Since(p, d, t, Tail(s))
  BY <1>1, <1>7, <1>9, <1>10 DEF Since
<1> QED
  BY <1>6, <1>8, <1>11

\* The page of a file stays when it is opened again.
LEMMA DeviceFound ==
  ASSUME NEW t \in Texts, NEW b \in 1 .. Len(Items[t]), Items[t][b].op = "device"
  PROVE  HasDevice(t)
BY DEF HasDevice, Ops

TextsOf == [g \in Files |-> files[g].text]

Again(g) == opens[g] # 1

FileRight(g) ==
    /\ PageAt(todo, g, files[g].text, files[g].page = "device_port", Again(g))
    /\ files[g].page = "device_port" => HasDevice(files[g].text)
    /\ \A k \in 1 .. Len(cur.defs[g]) :
         NodeRight(<<g, k>>, cur.defs[g][k], files[g].text, todo, asm.node, pc, Again(g))

Meanings ==
    /\ InRuns(todo, TextsOf)
    /\ pc = "open" \/ (pc = "read" /\ todo = <<>>) => asm.node = None
    /\ pc = "read" /\ todo # <<>> => ItemAt(Here).op = "include"
    /\ todo # <<>> => Grouped(files[Here[1]].text, Here[2], asm.enum, asm.scope)
    /\ \A g \in Files : opens[g] # 0 => FileRight(g)

\* The content of every file the assembler has places in stays.
LEMMA RunsStay ==
  ASSUME TextsStay, NEW s \in Seq(Places), \A k \in 1 .. Len(s) : IsPlace(s[k]),
         InRuns(s, TextsOf)
  PROVE  InRuns(s, TextsOf')
<1>1. ASSUME NEW i \in 1 .. Len(s)
      PROVE  TextsOf'[s[i][1]] = TextsOf[s[i][1]]
  <2>1. PICK g \in Files : g = s[i][1]
    BY PlaceParts
  <2>2. files[g] # NotRead
    BY <2>1 DEF IsPlace
  <2>3. files'[g].text = files[g].text
    BY <2>2 DEF TextsStay
  <2>4. TextsOf'[g] = files'[g].text /\ TextsOf[g] = files[g].text
    BY DEF TextsOf
  <2> QED
    BY <2>1, <2>3, <2>4
<1>2. PICK x, y : x = TextsOf /\ y = TextsOf'
  OBVIOUS
<1>3. InRuns(s, y)
  BY <1>1, <1>2, SameRuns
<1> QED
  BY <1>2, <1>3

LEMMA MeaningsSame ==
  ASSUME Meanings, UNCHANGED <<cur, files, opens, todo, asm, pc>>
  PROVE  Meanings'
BY DEF Meanings, FileRight, Again, TextsOf, ItemAt, Here

\* The assembly ends, or has ended.
LEMMA MeaningsEnd ==
  ASSUME Base, Once, Meanings, TextsStay, todo' = <<>>, opens' = opens, pc' # "read",
         pc' = "open" => asm'.node = None,
         pc = "asm" /\ todo # <<>> => ItemAt(Here).op # "sig",
         \A g \in Files :
           /\ files[g] # NotRead => files'[g].page = files[g].page
           /\ \A k \in 1 .. Len(cur'.defs[g]) :
                \/ cur'.defs[g][k].by = 0
                \/ k \in 1 .. Len(cur.defs[g]) /\ cur'.defs[g][k] = cur.defs[g][k]
  PROVE  Meanings'
<1>1. PICK x, s : x = TextsOf /\ s = todo
  OBVIOUS
<1>2. InRuns(todo', TextsOf')
  <2>1. PICK y : y = TextsOf'
    OBVIOUS
  <2> QED
    BY <2>1, EmptyRuns
<1>3. ASSUME NEW g \in Files, opens[g] # 0
      PROVE  FileRight(g)'
  <2>1. files[g] # NotRead
    BY <1>3 DEF Once
  <2>2. PICK t : t = files[g].text /\ files'[g].text = t
    BY <2>1 DEF TextsStay
  <2>3. ASSUME NEW k \in 1 .. Len(cur'.defs[g])
        PROVE  NodeRight(<<g, k>>, cur'.defs[g][k], t, <<>>, asm'.node, pc', Again(g))
    <3>1. CASE cur'.defs[g][k].by = 0
      BY <3>1 DEF NodeRight
    <3>2. CASE k \in 1 .. Len(cur.defs[g]) /\ cur'.defs[g][k] = cur.defs[g][k]
      <4>1. NodeRight(<<g, k>>, cur.defs[g][k], t, s, asm.node, pc, Again(g))
        BY <1>1, <1>3, <2>2, <3>2 DEF Meanings, FileRight
      <4>2. x[<<g, k>>[1]] = t
        BY <1>1, <2>2 DEF TextsOf
      <4>3. cur.defs[g][k].byte \in Nat
        BY <3>2, BaseParts, DefsOf, DefParts
      <4>4. pc = "asm" /\ s # <<>> => Items[x[s[1][1]]][s[1][2] + 1].op # "sig"
        <5>1. ASSUME s # <<>>
              PROVE  Items[x[s[1][1]]][s[1][2] + 1] = ItemAt(Here)
          <6>1. Here = s[1] /\ s[1][1] \in Files
            BY <1>1, <5>1, HereOf DEF Here, Base
          <6> QED
            BY <1>1, <6>1 DEF TextsOf, ItemAt
        <5> QED
          BY <1>1, <5>1
      <4>5. \A p, d : Since(p, d, t, <<>>)
        BY DEF Since
      <4>6. PICK p, d : p = <<g, k>> /\ d = cur.defs[g][k]
        OBVIOUS
      <4>7. NodeRight(p, d, t, <<>>, asm'.node, pc', Again(g))
        BY <4>1, <4>2, <4>3, <4>4, <4>5, <4>6, NodeKept
      <4> QED
        BY <3>2, <4>6, <4>7
    <3> QED
      BY <3>1, <3>2
  <2>4. PageAt(<<>>, g, t, files'[g].page = "device_port", Again(g))
    BY PageEmpty
  <2>5. files'[g].page = "device_port" => HasDevice(t)
    BY <1>3, <2>1, <2>2 DEF Meanings, FileRight
  <2>6. Again(g)' = Again(g)
    BY DEF Again
  <2> QED
    BY <2>2, <2>3, <2>4, <2>5, <2>6 DEF FileRight
<1> QED
  BY <1>2, <1>3 DEF Meanings

\* The assembler goes on behind the item in hand.
LEMMA MeaningsStep ==
  ASSUME Base, Once, Unmixed, Meanings, pc = "asm", pc' = "asm", todo # <<>>, todo' = Tail(todo),
         opens' = opens, TextsStay,
         asm.enum \in BOOLEAN, asm'.enum \in BOOLEAN,
         Takes(ItemAt(Here), asm.enum, asm.scope, asm'.enum, asm'.scope),
         \A g \in Files : files[g] # NotRead /\ g # Here[1] => files'[g].page = files[g].page,
         files'[Here[1]].page = "device_port" <=>
           \/ ItemAt(Here).op = "device"
           \/ files[Here[1]].page = "device_port" /\ ItemAt(Here).op # "memory",
         \A g \in Files : opens[g] # 0 =>
           \A k \in 1 .. Len(cur'.defs[g]) :
             NodeRight(<<g, k>>, cur'.defs[g][k], files[g].text, Tail(todo), asm'.node, "asm", Again(g))
  PROVE  Meanings'
<1>1. PICK s, f, b, t, x, r : /\ s = todo /\ f = Here[1] /\ b = Here[2] /\ r = Tail(s)
                              /\ t = files[f].text /\ x = TextsOf
  OBVIOUS
<1>2. /\ s \in Seq(Places) /\ s # <<>> /\ f = s[1][1] /\ b = s[1][2] /\ s[1] = <<f, b>>
      /\ f \in Files /\ b \in Nat /\ files[f] # NotRead /\ t \in Texts
      /\ r \in Seq(Places) /\ todo' = r
      /\ \A k \in 1 .. Len(r) : IsPlace(r[k])
      /\ x[f] = t /\ ItemAt(Here) = Items[t][b + 1]
  <2>1. Here = s[1] /\ Here \in Places /\ s \in Seq(Places)
    BY <1>1, HereOf DEF Here, Base, TypeOK
  <2>2. s[1] = <<s[1][1], s[1][2]>>
    BY <2>1 DEF Places
  <2> QED
    BY <1>1, <2>1, <2>2, HereOf, FileOf DEF Base, TextsOf, ItemAt
<1>3. InRuns(s, x) /\ Grouped(t, b, asm.enum, asm.scope)
  BY <1>1, <1>2 DEF Meanings
<1>4. /\ InRuns(r, x)
      /\ r # <<>> => r[1] = <<f, b + 1>> \/ Behind(x[r[1][1]], r[1][2])
  BY <1>1, <1>2, <1>3, TailRuns
<1>5. InRuns(r, TextsOf')
  BY <1>1, <1>2, <1>4, RunsStay
<1>6. ASSUME r # <<>>
      PROVE  Grouped(files'[r[1][1]].text, r[1][2], asm'.enum, asm'.scope)
  <2>1. PICK g \in Files, c \in Nat : r[1] = <<g, c>> /\ r[1][1] = g /\ r[1][2] = c
    <3>1. r[1] \in Places
      BY <1>2, <1>6, TailOf
    <3> QED
      BY <3>1 DEF Places
  <2>2. files'[g].text = x[g]
    <3>1. IsPlace(r[1])
      BY <1>2, <1>6, TailOf
    <3>2. files[g] # NotRead
      BY <2>1, <3>1 DEF IsPlace
    <3> QED
      BY <1>1, <3>2 DEF TextsStay, TextsOf
  <2>3. CASE Behind(x[g], c)
    BY <2>1, <2>2, <2>3, GroupedAfresh
  <2>4. CASE g = f /\ c = b + 1 /\ ~Behind(x[g], c)
    <3>1. Items[t][b + 1].op # "include"
      BY <1>2, <2>4 DEF Behind
    <3>2. Grouped(t, b + 1, asm'.enum, asm'.scope)
      <4>1. Takes(Items[t][b + 1], asm.enum, asm.scope, asm'.enum, asm'.scope)
        BY <1>2, Zenon
      <4>2. b \in Nat
        BY <1>2
      <4> QED
        BY <1>3, <3>1, <4>1, <4>2, GroupedOn, Zenon
    <3> QED
      BY <1>2, <2>1, <2>2, <2>4, <3>2
  <2> QED
    BY <1>4, <1>6, <2>1, <2>3, <2>4
<1>7. ASSUME NEW g \in Files, opens[g] # 0
      PROVE  FileRight(g)'
  <2>1. files[g] # NotRead
    BY <1>7 DEF Once
  <2>2. PICK u : u = files[g].text /\ files'[g].text = u
    BY <2>1 DEF TextsStay
  <2>3. PICK v, w : v = (files[g].page = "device_port") /\ w = (files'[g].page = "device_port")
    OBVIOUS
  <2>4. PageAt(s, g, u, v, Again(g)) /\ (v => HasDevice(u))
    BY <1>1, <1>7, <2>2, <2>3 DEF Meanings, FileRight
  <2>5. PageAt(r, g, u, w, Again(g)) /\ (w => HasDevice(u))
    <3>1. CASE g # f
      <4>1. v = w /\ s[1][1] # g
        BY <1>1, <1>2, <2>1, <2>3, <3>1
      <4> QED
        BY <1>1, <1>2, <2>4, <4>1, PageElsewhere
    <3>2. CASE g = f
      <4>1. u = t
        BY <1>1, <2>2, <3>2
      <4>2. IsFirst(s, g, 1) /\ 1 \in 1 .. Len(s)
        BY <1>2, <3>2, TailOf DEF IsFirst
      <4>3. /\ AfterDevice(t, b) => v
            /\ v => AfterDevice(t, b) \/ Again(g)
        BY <1>2, <2>4, <4>1, <4>2 DEF PageAt
      <4>4. w <=> \/ Items[t][b + 1].op = "device"
                  \/ v /\ Items[t][b + 1].op # "memory"
        BY <1>1, <1>2, <2>3, <3>2
      <4>5. /\ AfterDevice(t, b + 1) => w
            /\ w => AfterDevice(t, b + 1) \/ Again(g)
        BY <1>2, <4>3, <4>4, AfterNext
      <4>6. Ascends(s, g)
        BY <1>1 DEF Unmixed
      <4>7. \A i \in 1 .. Len(s) : s[i][1] = g => s[i][2] + 1 \in 1 .. Len(Items[t])
        <5>1. \A i \in 1 .. Len(s) : IsPlace(s[i])
          BY <1>1 DEF Base, Located
        <5> QED
          BY <1>1, <3>2, <5>1 DEF IsPlace
      <4>8. PageAt(r, g, t, w, Again(g))
        BY <1>1, <1>2, <1>3, <3>2, <4>5, <4>6, <4>7, PageOn
      <4>9. Items[t][b + 1].op = "device" => HasDevice(t)
        BY <1>2, <3>2, <4>2, <4>7, DeviceFound
      <4> QED
        BY <2>4, <4>1, <4>4, <4>8, <4>9
    <3> QED
      BY <3>1, <3>2
  <2>6. \A k \in 1 .. Len(cur'.defs[g]) :
          NodeRight(<<g, k>>, cur'.defs[g][k], u, r, asm'.node, pc', Again(g))
    BY <1>1, <1>7, <2>2
  <2>7. Again(g)' = Again(g)
    BY DEF Again
  <2> QED
    BY <1>2, <2>2, <2>3, <2>5, <2>6, <2>7 DEF FileRight
<1>8. todo' # <<>> => Grouped(files'[Here'[1]].text, Here'[2], asm'.enum, asm'.scope)
  BY <1>2, <1>6 DEF Here
<1> QED
  BY <1>2, <1>5, <1>7, <1>8 DEF Meanings

LEMMA NodeParts ==
  ASSUME Base, Once, Meanings, NEW g \in Files, opens[g] # 0,
         NEW k \in 1 .. Len(cur.defs[g])
  PROVE  /\ files[g].text \in Texts /\ TextsOf[g] = files[g].text
         /\ cur.defs[g][k] \in Def /\ cur.defs[g][k].byte \in Nat
         /\ NodeRight(<<g, k>>, cur.defs[g][k], files[g].text, todo, asm.node, pc, Again(g))
<1>1. files[g] # NotRead
  BY DEF Once
<1>2. files[g].text \in Texts
  BY <1>1, FileOf DEF Base
<1>3. cur.defs[g][k] \in Def /\ cur.defs[g][k].byte \in Nat
  BY BaseParts, DefsOf DEF Def
<1>4. NodeRight(<<g, k>>, cur.defs[g][k], files[g].text, todo, asm.node, pc, Again(g))
  BY DEF Meanings, FileRight
<1> QED
  BY <1>2, <1>3, <1>4 DEF TextsOf

LEMMA ItemHere ==
  ASSUME Base, Meanings, todo # <<>>
  PROVE  /\ todo \in Seq(Places) /\ InRuns(todo, TextsOf)
         /\ Items[TextsOf[todo[1][1]]][todo[1][2] + 1] = ItemAt(Here)
<1>1. Here = todo[1] /\ Here[1] \in Files
  BY HereOf DEF Here, Base
<1>2. todo \in Seq(Places) /\ InRuns(todo, TextsOf)
  BY DEF Base, TypeOK, Meanings
<1> QED
  BY <1>1, <1>2 DEF TextsOf, ItemAt

\* Steps past an item that is no definition and no stack comment
LEMMA PassingMeans ==
  ASSUME Base, Once, Meanings, pc = "asm", todo # <<>>, cur'.defs = cur.defs,
         ItemAt(Here).op \notin Definitions \cup {"sig"}, asm'.node = asm.node,
         NEW g \in Files, opens[g] # 0, NEW k \in 1 .. Len(cur'.defs[g])
  PROVE  NodeRight(<<g, k>>, cur'.defs[g][k], files[g].text, Tail(todo), asm'.node, "asm", Again(g))
<1>1. PICK p, d, t, s, n, x : /\ p = <<g, k>> /\ d = cur.defs[g][k] /\ t = files[g].text
                              /\ s = todo /\ n = asm.node /\ x = TextsOf
  OBVIOUS
<1>2. t \in Texts /\ x[g] = t /\ d.byte \in Nat /\ NodeRight(p, d, t, s, n, pc, Again(g))
  BY <1>1, NodeParts
<1>3. /\ s \in Seq(Places) /\ s # <<>> /\ InRuns(s, x)
      /\ Items[x[s[1][1]]][s[1][2] + 1].op \notin Definitions \cup {"sig"}
  BY <1>1, ItemHere
<1>4. x[p[1]] = t
  BY <1>1, <1>2
<1>5. NodeRight(p, d, t, Tail(s), n, "asm", Again(g))
  BY <1>2, <1>3, <1>4, NodeOn
<1> QED
  BY <1>1, <1>5

LEMMA SignedMeans ==
  ASSUME Base, Once, Meanings, Annotate, ItemAt(Here).op = "sig",
         NEW g \in Files, opens[g] # 0, NEW k \in 1 .. Len(cur'.defs[g])
  PROVE  NodeRight(<<g, k>>, cur'.defs[g][k], files[g].text, Tail(todo), asm.node, "asm", Again(g))
<1>0. pc = "asm" /\ todo # <<>>
  BY DEF Annotate, At
<1>1. PICK p, d, t, s, n, x, e : /\ p = <<g, k>> /\ d = cur.defs[g][k] /\ t = files[g].text
                                 /\ s = todo /\ n = asm.node /\ x = TextsOf
                                 /\ e = cur'.defs[g][k]
  OBVIOUS
<1>2. /\ cur' \in Contexts /\ k \in 1 .. Len(cur.defs[g])
      /\ e.by = d.by /\ e.byte = d.byte /\ e \in Def
  <2>1. /\ cur' \in Contexts /\ Len(cur'.defs[g]) = Len(cur.defs[g])
        /\ \A i \in 1 .. Len(cur.defs[g]) : /\ cur'.defs[g][i].by = cur.defs[g][i].by
                                            /\ cur'.defs[g][i].byte = cur.defs[g][i].byte
    BY Annotated
  <2>2. cur'.defs[g] \in Seq(Def)
    BY <2>1 DEF Contexts
  <2> QED
    BY <1>1, <2>1, <2>2
<1>3. /\ t \in Texts /\ x[g] = t /\ d \in Def /\ d.byte \in Nat
      /\ NodeRight(p, d, t, s, n, "asm", Again(g))
  BY <1>0, <1>1, <1>2, NodeParts
<1>4. /\ s \in Seq(Places) /\ s # <<>> /\ InRuns(s, x)
      /\ Items[x[s[1][1]]][s[1][2] + 1].op = "sig"
  BY <1>0, <1>1, ItemHere
<1>5. e.sem = IF n = p THEN "subroutine" ELSE d.sem
  <2>1. cur \in Contexts /\ cur.defs \in [Files -> Seq(Def)] /\ n \in Places \cup {None}
    BY <1>1, BaseParts DEF Contexts, Base, TypeOK
  <2>2. n # None => cur' = [cur EXCEPT !.defs[n[1]][n[2]].sem = "subroutine"]
    BY <1>1 DEF Annotate
  <2>3. n = None => cur' = cur
    BY <1>1 DEF Annotate
  <2>4. p \in Places /\ p[1] = g /\ p[2] = k /\ p # None
    BY <1>1, <1>2, SymbolsAssumption DEF Places
  <2>5. ASSUME n # None
        PROVE  /\ cur'.defs = [cur.defs EXCEPT ![n[1]][n[2]].sem = "subroutine"]
               /\ n = <<n[1], n[2]>> /\ n[1] \in Files
    BY <2>1, <2>2, <2>5 DEF Contexts, Places
  <2>6. CASE n = p
    <3>1. cur'.defs = [cur.defs EXCEPT ![g][k].sem = "subroutine"]
      BY <2>4, <2>5, <2>6
    <3>2. cur'.defs[g] = [cur.defs[g] EXCEPT ![k].sem = "subroutine"]
      BY <2>1, <3>1
    <3>3. cur.defs[g] \in Seq(Def)
      BY <2>1
    <3>4. e = [d EXCEPT !.sem = "subroutine"]
      BY <1>1, <1>2, <3>2, <3>3
    <3> QED
      BY <1>3, <2>6, <3>4 DEF Def
  <2>7. CASE n # p /\ n # None
    <3>1. n[1] # g \/ n[2] # k
      BY <1>1, <2>5, <2>7
    <3>2. cur.defs[g] \in Seq(Def)
      BY <2>1
    <3>3. e = d
      <4>1. CASE n[1] # g
        BY <1>1, <2>1, <2>5, <2>7, <4>1
      <4>2. CASE n[1] = g /\ n[2] # k
        <5>1. cur'.defs[g] = [cur.defs[g] EXCEPT ![n[2]].sem = "subroutine"]
          BY <2>1, <2>5, <2>7, <4>2
        <5>2. cur'.defs[g][k] = cur.defs[g][k]
          BY <1>2, <3>2, <4>2, <5>1
        <5> QED
          BY <1>1, <5>2
      <4> QED
        BY <3>1, <4>1, <4>2
    <3> QED
      BY <2>7, <3>3
  <2>8. CASE n = None
    BY <1>1, <2>3, <2>4, <2>8
  <2> QED
    BY <2>6, <2>7, <2>8
<1>6. x[p[1]] = t
  BY <1>1, <1>3
<1>7. NodeRight(p, e, t, Tail(s), n, "asm", Again(g))
  BY <1>2, <1>3, <1>4, <1>5, <1>6, NodeSigned
<1> QED
  BY <1>1, <1>7

\* What PutDefinition makes of the comments in front of it
LEMMA DefinedMeaning ==
  ASSUME Base, PutDefinition
  PROVE  LET f == Here[1]
             it == ItemAt(Here)
             d == cur'.defs[f][Len(cur.defs[f]) + 1]
         IN  /\ Takes(it, asm.enum, asm.scope, asm'.enum, asm'.scope)
             /\ asm'.node = <<f, Len(cur.defs[f]) + 1>>
             /\ IsZeroLabel(it) =>
                  d.sem = IF asm.enum \/ asm.scope = it.name.scope THEN "enum"
                          ELSE files[f].page
<1> DEFINE f == Here[1]
           it == ItemAt(Here)
           node == <<f, Len(cur.defs[f]) + 1>>
           label == it.op = "label"
           sem == IF asm.enum THEN "enum"
                  ELSE IF ~label THEN "subroutine"
                  ELSE IF it.zero THEN ZeroPage(f, it.name) ELSE "variable"
           def == [name |-> it.name, type |-> it.op, byte |-> Here[2],
                   sem |-> sem, by |-> program]
           scope == EnumScope(it)
           macros == IF label THEN asm.macros ELSE Append(asm.macros, node)
           labels == IF label THEN [asm.labels EXCEPT ![it.name] = node] ELSE asm.labels
<1>1. /\ TypeOK /\ it.op \in Definitions /\ f \in Files
  BY HereOf DEF Base, PutDefinition, At
<1>2. /\ cur.defs \in [Files -> Seq(Def)]
      /\ cur \in Contexts /\ asm \in AsmStates
  BY <1>1 DEF TypeOK, Contexts, AsmStates
<1>3. /\ cur' = [cur EXCEPT !.defs[f] = Append(@, def)]
      /\ asm' = [asm EXCEPT !.macros = macros, !.labels = labels, !.scope = scope,
                            !.node = node, !.last = None, !.enum = FALSE]
  <2>1. /\ cur' = [cur EXCEPT !.defs[f] = Append(@, def)]
        /\ asm' = [asm EXCEPT
                !.macros = IF label THEN @ ELSE Append(@, node),
                !.labels = IF label THEN [@ EXCEPT ![it.name] = node] ELSE @,
                !.scope = EnumScope(it),
                !.node = node,
                !.last = None,
                !.enum = FALSE]
    BY DEF PutDefinition
  <2> QED
    BY <1>2, <2>1 DEF AsmStates
<1>4. sem = IF asm.enum THEN "enum" ELSE IF ~label THEN "subroutine"
            ELSE IF it.zero THEN ZeroPage(f, it.name) ELSE "variable"
  OBVIOUS
<1>5. scope = IF asm.enum THEN it.name.scope
              ELSE IF IsZeroLabel(it) /\ asm.scope # it.name.scope THEN None ELSE asm.scope
  BY DEF EnumScope
<1> HIDE DEF it, sem, scope, macros, labels, node
<1>6. asm'.scope = scope /\ asm'.node = node /\ asm'.enum = FALSE
  BY <1>2, <1>3 DEF AsmStates
<1>7. def.sem = sem
  OBVIOUS
<1> HIDE DEF def
<1>8. cur'.defs[f] = Append(cur.defs[f], def)
  BY <1>1, <1>2, <1>3 DEF Contexts
<1>9. cur'.defs[f][Len(cur.defs[f]) + 1] = def
  <2>1. PICK s : s = cur.defs[f]
    OBVIOUS
  <2>2. s \in Seq(Def)
    BY <1>1, <1>2, <2>1
  <2> QED
    BY <1>8, <2>1, <2>2
<1>10. Takes(it, asm.enum, asm.scope, asm'.enum, asm'.scope)
  BY <1>1, <1>5, <1>6 DEF Takes, IsZeroLabel, it
<1>11. IsZeroLabel(it) =>
         sem = IF asm.enum \/ asm.scope = it.name.scope THEN "enum" ELSE files[f].page
  BY <1>4 DEF IsZeroLabel, ZeroPage
<1> QED
  BY <1>6, <1>7, <1>9, <1>10, <1>11 DEF it, node

LEMMA DefinitionMeans ==
  ASSUME Base, Once, Meanings, PutDefinition,
         NEW g \in Files, opens[g] # 0, NEW k \in 1 .. Len(cur'.defs[g])
  PROVE  NodeRight(<<g, k>>, cur'.defs[g][k], files[g].text, Tail(todo), asm'.node, "asm", Again(g))
<1>1. pc = "asm" /\ todo # <<>> /\ ItemAt(Here).op \in Definitions
  BY DEF PutDefinition, At
<1>2. PICK p, t, s, n, x, f, l : /\ p = <<g, k>> /\ t = files[g].text /\ s = todo
                                 /\ n = asm.node /\ x = TextsOf /\ f = Here[1]
                                 /\ l = Len(cur.defs[f])
  OBVIOUS
<1>3. PICK def \in Def : Adds(f, <<f, l + 1>>, def)
  BY <1>2, Defined
<1>4. /\ f \in Files /\ cur.defs[f] \in Seq(Def) /\ cur.defs \in [Files -> Seq(Def)]
      /\ cur'.defs = [cur.defs EXCEPT ![f] = Append(cur.defs[f], def)]
      /\ def.byte = Here[2] /\ l \in Nat
  BY <1>2, <1>3, BaseParts DEF Contexts, Adds
<1>5. /\ asm'.node = <<f, l + 1>>
      /\ IsZeroLabel(ItemAt(Here)) =>
           cur'.defs[f][l + 1].sem =
             IF asm.enum \/ asm.scope = ItemAt(Here).name.scope THEN "enum"
             ELSE files[f].page
  BY <1>2, DefinedMeaning
<1>6. /\ s \in Seq(Places) /\ s # <<>> /\ InRuns(s, x)
      /\ Items[x[s[1][1]]][s[1][2] + 1] = ItemAt(Here)
  BY <1>1, <1>2, ItemHere
<1>7. CASE g = f /\ k = l + 1
  <2>1. cur'.defs[g] = Append(cur.defs[g], def)
    BY <1>4, <1>7
  <2>2. cur'.defs[g][k] = def
    <3>1. PICK q : q = cur.defs[g]
      OBVIOUS
    <3>2. q \in Seq(Def) /\ k = Len(q) + 1
      BY <1>2, <1>4, <1>7, <3>1
    <3> QED
      BY <2>1, <3>1, <3>2
  <2>3. /\ s[1] = <<g, def.byte>> /\ x[g] = t
        /\ files[g] # NotRead /\ t \in Texts /\ files[g].page \in {"variable", "device_port"}
        /\ Items[t][def.byte + 1] = ItemAt(Here) /\ ItemAt(Here) \in Item
    <3>1. Here = s[1] /\ Here \in Places
      BY <1>1, <1>2, HereOf DEF Here, Base
    <3>2. Here = <<f, Here[2]>>
      BY <1>2, <3>1 DEF Places
    <3>3. files[g] # NotRead /\ ItemAt(Here) \in Item
      BY <1>1, <1>2, <1>7, HereOf DEF Base
    <3>4. t \in Texts /\ files[g].page \in {"variable", "device_port"}
      BY <1>2, <3>3, FileOf DEF Base
    <3> QED
      BY <1>2, <1>4, <1>7, <3>1, <3>2, <3>3, <3>4 DEF TextsOf, ItemAt
  <2>4. Grouped(t, def.byte, asm.enum, asm.scope)
    BY <1>1, <1>2, <1>4, <1>7 DEF Meanings
  <2>5. PICK page : page = files[g].page
    OBVIOUS
  <2>6. /\ page \in {"variable", "device_port"}
        /\ AfterDevice(t, def.byte) => page = "device_port"
        /\ page = "device_port" => AfterDevice(t, def.byte) \/ (Again(g) /\ HasDevice(t))
    <3>1. /\ PageAt(s, g, t, page = "device_port", Again(g))
          /\ page = "device_port" => HasDevice(t)
      BY <1>2, <2>5 DEF Meanings, FileRight
    <3>2. IsFirst(s, g, 1) /\ 1 \in 1 .. Len(s) /\ s[1][2] = def.byte
      BY <1>6, <2>3, TailOf DEF IsFirst
    <3> QED
      BY <2>3, <2>5, <3>1, <3>2 DEF PageAt
  <2>7. NewMeaning(def, Items[t][def.byte + 1], asm.enum, asm.scope, page)
    <3>1. cur'.defs[f][l + 1] = def
      BY <1>7, <2>2
    <3>2. files[f].page = page
      BY <1>7, <2>5
    <3> QED
      BY <1>5, <2>3, <3>1, <3>2 DEF NewMeaning
  <2>8. p[1] = g
    BY <1>2
  <2>9. asm.enum \in BOOLEAN
    BY DEF Base, TypeOK
  <2>10. NodeRight(p, def, t, Tail(s), p, "asm", Again(g))
    <3>1. s[1] = <<p[1], def.byte>> /\ x[p[1]] = t /\ Items[t][def.byte + 1] \in Item
      BY <2>3, <2>8
    <3>2. s \in Seq(Places) /\ s # <<>> /\ InRuns(s, x) /\ t \in Texts
      BY <1>6, <2>3
    <3> QED
      BY <2>4, <2>6, <2>7, <2>9, <3>1, <3>2, NodeNew
  <2> QED
    BY <1>2, <1>5, <1>7, <2>2, <2>10
<1>8. CASE ~(g = f /\ k = l + 1)
  <2>1. k \in 1 .. Len(cur.defs[g]) /\ cur'.defs[g][k] = cur.defs[g][k]
    <3>1. CASE g # f
      BY <1>4, <3>1
    <3>2. CASE g = f
      <4>1. PICK q, r : q = cur.defs[g] /\ r = cur'.defs[g]
        OBVIOUS
      <4>2. q \in Seq(Def) /\ r = Append(q, def) /\ l = Len(q)
        BY <1>2, <1>4, <3>2, <4>1
      <4>3. k \in 1 .. Len(r) /\ k # Len(q) + 1
        BY <1>8, <3>2, <4>1, <4>2
      <4>4. k \in 1 .. Len(q) /\ r[k] = q[k]
        BY <4>2, <4>3, AppendOf
      <4> QED
        BY <4>1, <4>4
    <3> QED
      BY <3>1, <3>2
  <2>2. PICK d : d = cur.defs[g][k]
    OBVIOUS
  <2>3. /\ t \in Texts /\ x[g] = t /\ d.byte \in Nat
        /\ NodeRight(p, d, t, s, n, "asm", Again(g))
    BY <1>1, <1>2, <2>1, <2>2, NodeParts
  <2>4. Items[x[s[1][1]]][s[1][2] + 1].op # "sig"
    BY <1>1, <1>6 DEF Definitions
  <2>5. asm'.node # p
    BY <1>2, <1>5, <1>8
  <2>6. x[p[1]] = t
    BY <1>2, <2>3
  <2>7. NodeRight(p, d, t, Tail(s), asm'.node, "asm", Again(g))
    BY <2>3, <2>4, <2>5, <2>6, NodeKept
  <2> QED
    BY <1>2, <2>1, <2>2, <2>7
<1> QED
  BY <1>7, <1>8

\* What a step does to the page of the file in hand, and to no other
PageBecomes(p) ==
    /\ \A g \in Files : g # Here[1] => files'[g].page = files[g].page
    /\ files'[Here[1]].page = p

LEMMA PageFields ==
  ASSUME NEW h \in FileStates, NEW b \in Nat
  PROVE  /\ [h EXCEPT !.err = TRUE].page = h.page
         /\ [h EXCEPT !.last = LaterByte(@, b)].page = h.page
         /\ \A p \in {"variable", "device_port"} : [h EXCEPT !.page = p].page = p
BY DEF FileStates

LEMMA PageMoves ==
  ASSUME Base, todo # <<>>
  PROVE  /\ UNCHANGED files => PageBecomes(files[Here[1]].page)
         /\ files' = [files EXCEPT ![Here[1]].err = TRUE] => PageBecomes(files[Here[1]].page)
         /\ files' = [files EXCEPT ![Here[1]].last = LaterByte(@, Here[2])] =>
              PageBecomes(files[Here[1]].page)
         /\ \A p \in {"variable", "device_port"} :
              files' = [files EXCEPT ![Here[1]].page = p] => PageBecomes(p)
<1>1. PICK f, b, h : f = Here[1] /\ b = Here[2] /\ h = files[f]
  OBVIOUS
<1>2. /\ f \in Files /\ b \in Nat /\ h \in FileStates
      /\ files \in [Files -> FileStates \cup {NotRead}]
  BY <1>1, HereOf, FileOf DEF Base, TypeOK
<1>3. ASSUME NEW n, files' = [files EXCEPT ![f] = n]
      PROVE  PageBecomes(n.page)
  BY <1>1, <1>2, <1>3 DEF PageBecomes
<1>4. UNCHANGED files => PageBecomes(files[f].page)
  BY <1>1 DEF PageBecomes
<1>5. /\ files' = [files EXCEPT ![f].err = TRUE] =>
           files' = [files EXCEPT ![f] = [h EXCEPT !.err = TRUE]]
      /\ files' = [files EXCEPT ![f].last = LaterByte(@, b)] =>
           files' = [files EXCEPT ![f] = [h EXCEPT !.last = LaterByte(@, b)]]
      /\ \A p : files' = [files EXCEPT ![f].page = p] =>
           files' = [files EXCEPT ![f] = [h EXCEPT !.page = p]]
  BY <1>1
<1>6. files' = [files EXCEPT ![f].err = TRUE] => PageBecomes(h.page)
  <2>1. PICK n : n = [h EXCEPT !.err = TRUE]
    OBVIOUS
  <2>2. n.page = h.page
    BY <1>2, <2>1, PageFields
  <2> QED
    BY <1>3, <1>5, <2>1, <2>2
<1>7. files' = [files EXCEPT ![f].last = LaterByte(@, b)] => PageBecomes(h.page)
  <2>1. PICK n : n = [h EXCEPT !.last = LaterByte(@, b)]
    OBVIOUS
  <2>2. n.page = h.page
    BY <1>2, <2>1, PageFields
  <2> QED
    BY <1>3, <1>5, <2>1, <2>2
<1>8. ASSUME NEW p \in {"variable", "device_port"}, files' = [files EXCEPT ![f].page = p]
      PROVE  PageBecomes(p)
  <2>1. PICK n : n = [h EXCEPT !.page = p]
    OBVIOUS
  <2>2. n.page = p
    BY <1>2, <2>1, PageFields
  <2>3. files' = [files EXCEPT ![f] = n]
    BY <1>5, <1>8, <2>1
  <2>4. PageBecomes(n.page)
    BY <1>3, <2>3
  <2> QED
    BY <2>2, <2>4
<1> QED
  BY <1>1, <1>4, <1>6, <1>7, <1>8

\* The steps that go on to the next item
LEMMA AssemblerMeans ==
  ASSUME Base, Once, Unmixed, Meanings,
         IncludeAgain \/ PutDefinition \/ PutGenerated \/ PutReferences \/ Annotate
           \/ ChessReport
  PROVE  Meanings'
<1> DEFINE it == ItemAt(Here)
           f == Here[1]
<1>1. /\ pc = "asm" /\ pc' = "asm" /\ todo # <<>> /\ todo' = Tail(todo) /\ opens' = opens
  BY DEF IncludeAgain, PutDefinition, PutGenerated, PutReferences, Annotate, ChessReport,
         MarkError, At
<1>2. TextsStay /\ asm \in AsmStates
  BY AgainBase, DefinitionBase, GeneratedBase, ReferencesBase, AnnotateBase, ReportBase
     DEF Base, TypeOK, AsmStates
<1>3. asm'.enum \in BOOLEAN /\ asm.enum \in BOOLEAN
  BY AgainBase, DefinitionBase, GeneratedBase, ReferencesBase, AnnotateBase, ReportBase
     DEF Base, TypeOK
<1>4. /\ PutDefinition => it.op \in Definitions
      /\ ~PutDefinition => it.op \notin Definitions
      /\ it.op \in {"device", "memory", "enum", "sig"} => Annotate
  BY DEF IncludeAgain, PutDefinition, PutGenerated, PutReferences, Annotate, ChessReport,
         At, Definitions, References
<1>5. \/ /\ it.op # "device" /\ it.op # "memory" /\ PageBecomes(files[f].page)
      \/ it.op = "device" /\ PageBecomes("device_port")
      \/ it.op = "memory" /\ PageBecomes("variable")
  <2>1. CASE Annotate
    <3>1. files' = IF it.op \in {"device", "memory"}
                     THEN [files EXCEPT ![f].page =
                             IF it.op = "device" THEN "device_port" ELSE "variable"]
                     ELSE files
      BY <2>1 DEF Annotate
    <3>2. CASE it.op = "device"
      <4>1. files' = [files EXCEPT ![f].page = "device_port"]
        BY <3>1, <3>2
      <4> QED
        BY <1>1, <3>2, <4>1, PageMoves
    <3>3. CASE it.op = "memory"
      <4>1. files' = [files EXCEPT ![f].page = "variable"]
        BY <3>1, <3>3
      <4> QED
        BY <1>1, <3>3, <4>1, PageMoves
    <3>4. CASE it.op # "device" /\ it.op # "memory"
      <4>1. files' = files
        BY <3>1, <3>4
      <4> QED
        BY <1>1, <3>4, <4>1, PageMoves
    <3> QED
      BY <3>2, <3>3, <3>4
  <2>2. CASE ~Annotate
    <3>1. \/ UNCHANGED files
          \/ files' = [files EXCEPT ![f].err = TRUE]
          \/ files' = [files EXCEPT ![f].last = LaterByte(@, Here[2])]
      BY <2>2 DEF IncludeAgain, PutDefinition, PutGenerated, PutReferences, ChessReport,
                  MarkError
    <3>2. PageBecomes(files[f].page)
      BY <1>1, <3>1, PageMoves
    <3> QED
      BY <1>4, <2>2, <3>2
  <2> QED
    BY <2>1, <2>2
<1>6. /\ \A g \in Files : files[g] # NotRead /\ g # f => files'[g].page = files[g].page
      /\ files'[f].page = "device_port" <=>
           \/ it.op = "device"
           \/ files[f].page = "device_port" /\ it.op # "memory"
  BY <1>5 DEF PageBecomes
<1>7. ~PutDefinition =>
        /\ asm'.scope = asm.scope /\ asm'.node = asm.node
        /\ asm'.enum <=> asm.enum \/ it.op = "enum"
  <2>1. CASE IncludeAgain \/ ChessReport
    BY <1>4, <2>1 DEF IncludeAgain, ChessReport, MarkError, At
  <2>2. CASE PutGenerated
    <3>1. asm' = [asm EXCEPT !.last = None] /\ it.op # "enum"
      BY <2>2 DEF PutGenerated, At
    <3> QED
      BY <1>2, <3>1 DEF AsmStates
  <2>3. CASE Annotate
    <3>1. asm' = [asm EXCEPT !.last = None, !.enum = asm.enum \/ it.op = "enum"]
      BY <1>2, <2>3 DEF Annotate, AsmStates
    <3> QED
      BY <1>2, <3>1 DEF AsmStates
  <2>4. CASE PutReferences
    <3>1. PICK r : r = Reference(Here, it.name)
      OBVIOUS
    <3>2. r \in MacroRef \cup LabelRef
      BY <2>4, <3>1, Handed
    <3>3. PICK a : a = PutReference(asm, r)
      OBVIOUS
    <3>4. asm' = a \/ asm' = PutReference(a, r)
      BY <2>4, <3>1, <3>3 DEF PutReferences
    <3>5. it.op # "enum"
      BY <2>4 DEF PutReferences, At, References
    <3>6. /\ a \in AsmStates
          /\ a.enum = asm.enum /\ a.scope = asm.scope /\ a.node = asm.node
      BY <1>2, <3>2, <3>3, PutKeeps
    <3>7. asm'.enum = asm.enum /\ asm'.scope = asm.scope /\ asm'.node = asm.node
      BY <3>2, <3>4, <3>6, PutKeeps
    <3> QED
      BY <1>3, <3>5, <3>7
  <2> QED
    BY <2>1, <2>2, <2>3, <2>4
<1>8. Takes(it, asm.enum, asm.scope, asm'.enum, asm'.scope)
  <2>1. CASE PutDefinition
    BY <2>1, DefinedMeaning
  <2>2. CASE ~PutDefinition
    BY <1>4, <1>7, <2>2 DEF Takes
  <2> QED
    BY <2>1, <2>2
<1>9. ASSUME NEW g \in Files, opens[g] # 0, NEW k \in 1 .. Len(cur'.defs[g])
      PROVE  NodeRight(<<g, k>>, cur'.defs[g][k], files[g].text, Tail(todo), asm'.node, "asm", Again(g))
  <2>1. CASE PutDefinition
    BY <1>9, <2>1, DefinitionMeans
  <2>2. CASE it.op = "sig"
    <3>1. Annotate /\ asm'.node = asm.node
      BY <1>4, <1>7, <2>2 DEF Definitions
    <3> QED
      BY <1>9, <2>2, <3>1, SignedMeans
  <2>3. CASE ~PutDefinition /\ it.op # "sig"
    <3>1. cur'.defs = cur.defs
      <4>1. cur' = cur
        BY <2>3 DEF IncludeAgain, PutGenerated, PutReferences, Annotate, ChessReport, MarkError
      <4> QED
        BY <4>1
    <3>2. it.op \notin Definitions \cup {"sig"} /\ asm'.node = asm.node
      BY <1>4, <1>7, <2>3
    <3> QED
      BY <1>1, <1>9, <3>1, <3>2, PassingMeans
  <2> QED
    BY <2>1, <2>2, <2>3
<1> HIDE DEF it, f
<1>10. Takes(ItemAt(Here), asm.enum, asm.scope, asm'.enum, asm'.scope)
  BY <1>8 DEF it
<1>11. /\ \A g \in Files : files[g] # NotRead /\ g # Here[1] => files'[g].page = files[g].page
       /\ files'[Here[1]].page = "device_port" <=>
            \/ ItemAt(Here).op = "device"
            \/ files[Here[1]].page = "device_port" /\ ItemAt(Here).op # "memory"
  BY <1>6, Zenon DEF it, f
<1> QED
  BY <1>1, <1>2, <1>3, <1>9, <1>10, <1>11, MeaningsStep

\* The assembler continues with the first item of a file, or behind its include.
LEMMA OpenedMeans ==
  ASSUME Base, Once, Unmixed, Meanings, TextsStay, NEW f \in Files, NEW t \in Texts,
         Opened(f, t, Rest), asm'.node = asm.node, Gone(todo, f),
         files'[f].text = t,
         IF files[f] = NotRead THEN files'[f].page = "variable" ELSE files'[f] = files[f],
         \A g \in Files : g # f => files'[g] = files[g],
         todo # <<>> => ItemAt(Here).op = "include",
         todo = <<>> => asm.node = None
  PROVE  Meanings'
<1>1. PICK s, r, x, y, z : /\ s = todo /\ r = Rest /\ x = TextsOf /\ y = TextsOf'
                           /\ z = PlacesIn(f, t) \o r
  OBVIOUS
<1>2. /\ todo' = z /\ pc' = "asm" /\ cur'.defs = cur.defs
      /\ opens' = [opens EXCEPT ![f] = @ + 1] /\ opens \in [Files -> Nat]
      /\ s \in Seq(Places) /\ InRuns(s, x) /\ y[f] = t
  BY <1>1, OpenedContext, BaseParts DEF Opened, Base, TypeOK, Meanings, TextsOf
<1>3. s # <<>> => /\ r = Tail(s) /\ s[1] = Here
                  /\ Items[x[s[1][1]]][s[1][2] + 1].op = "include"
  <2>1. s # <<>> => r = Tail(s) /\ s[1] = Here
    BY <1>1 DEF Rest, Here
  <2> QED
    BY <1>1, <2>1, ItemHere
<1>4. s = <<>> => r = <<>>
  BY <1>1 DEF Rest
<1>5. /\ r \in Seq(Places) /\ InRuns(r, x)
      /\ \A k \in 1 .. Len(r) : IsPlace(r[k])
      /\ r # <<>> => \/ r[1] = <<s[1][1], s[1][2] + 1>>
                     \/ Behind(x[r[1][1]], r[1][2])
  <2>1. CASE s = <<>>
    BY <1>4, <2>1, EmptyRuns
  <2>2. CASE s # <<>>
    <3>1. r = Tail(s)
      BY <1>3, <2>2
    <3>2. \A k \in 1 .. Len(r) : IsPlace(r[k])
      BY <1>1, <2>2, <3>1, HereOf DEF Base
    <3>3. r \in Seq(Places)
      BY <1>2, <2>2, <3>1, TailOf
    <3> QED
      BY <1>2, <2>2, <3>1, <3>2, <3>3, TailRuns
  <2> QED
    BY <2>1, <2>2
<1>6. InRuns(r, y)
  BY <1>1, <1>5, RunsStay
<1>7. ASSUME r # <<>>
      PROVE  Behind(y[r[1][1]], r[1][2])
  <2>1. s # <<>>
    BY <1>4, <1>7
  <2>2. PICK h, b : h = s[1][1] /\ b = s[1][2]
    OBVIOUS
  <2>3. h \in Files /\ b \in Nat
    BY <1>2, <2>1, <2>2, TailOf, PlaceParts
  <2>4. PICK g, c : g = r[1][1] /\ c = r[1][2]
    OBVIOUS
  <2>5. g \in Files /\ IsPlace(r[1])
    BY <1>5, <1>7, <2>4, TailOf, PlaceParts
  <2>6. Behind(x[g], c)
    <3>1. CASE r[1] = <<h, b + 1>>
      <4>1. g = h /\ c = b + 1
        BY <2>4, <3>1
      <4>2. Items[x[h]][b + 1].op = "include"
        BY <1>3, <2>1, <2>2
      <4> QED
        BY <2>3, <4>1, <4>2 DEF Behind
    <3>2. CASE Behind(x[r[1][1]], r[1][2])
      BY <2>4, <3>2
    <3> QED
      BY <1>5, <1>7, <2>2, <3>1, <3>2
  <2>7. y[g] = x[g]
    <3>1. files[g] # NotRead
      BY <2>4, <2>5 DEF IsPlace
    <3> QED
      BY <1>1, <2>5, <3>1 DEF TextsStay, TextsOf
  <2> QED
    BY <2>4, <2>6, <2>7
<1>8. /\ InRuns(z, y)
      /\ z # <<>> => z[1] = <<f, 0>> \/ Behind(y[z[1][1]], z[1][2])
  BY <1>1, <1>2, <1>5, <1>6, <1>7, OpenRuns
<1>9. ASSUME z # <<>>
      PROVE  Grouped(files'[z[1][1]].text, z[1][2], asm'.enum, asm'.scope)
  <2>1. PICK g, c : g = z[1][1] /\ c = z[1][2]
    OBVIOUS
  <2>2. g \in Files /\ c \in Nat
    <3>1. z \in Seq(Places)
      BY <1>1, <1>5, PlacesInOf, JoinOf
    <3> QED
      BY <1>9, <2>1, <3>1, TailOf, PlaceParts
  <2>3. y[g] = files'[g].text
    BY <1>1, <2>2 DEF TextsOf
  <2>4. c = 0 \/ Behind(y[g], c)
    BY <1>8, <1>9, <2>1
  <2>5. Grouped(y[g], c, asm'.enum, asm'.scope)
    BY <2>2, <2>4, GroupedAfresh
  <2> QED
    BY <2>1, <2>3, <2>5
<1>10. ASSUME NEW g \in Files, opens'[g] # 0
       PROVE  FileRight(g)'
  <2>1. CASE opens[g] = 0
    <3>1. g = f /\ files[f] = NotRead /\ cur.defs[f] = <<>>
      BY <1>2, <1>10, <2>1 DEF Once, Unopened
    <3>2. Gone(r, f)
      BY <1>1, <1>2, <1>3, <1>4, TailOrder
    <3>3. PICK u, v, a : u = files'[f].text /\ v = (files'[f].page = "device_port")
                         /\ a = Again(f)'
      OBVIOUS
    <3>4. ~v
      BY <3>1, <3>3
    <3>5. PageAt(z, f, u, v, a)
      BY <1>1, <1>5, <3>2, <3>4, PageOpen
    <3>6. Len(cur'.defs[f]) = 0
      BY <1>2, <3>1
    <3> QED
      BY <1>2, <3>1, <3>3, <3>4, <3>5, <3>6 DEF FileRight
  <2>2. CASE opens[g] # 0
    <3>1. files[g] # NotRead /\ files'[g] = files[g] /\ cur'.defs[g] = cur.defs[g]
      BY <1>2, <2>2 DEF Once
    <3>2. PICK u, v, a, e : u = files[g].text /\ v = (files[g].page = "device_port")
                            /\ a = Again(g) /\ e = Again(g)'
      OBVIOUS
    <3>3. (g = f => e) /\ (g # f => e = a)
      <4>1. CASE g = f
        <5>1. opens'[g] = opens[g] + 1 /\ opens[g] \in Nat
          BY <1>2, <4>1
        <5>2. opens'[g] # 1
          BY <2>2, <5>1
        <5> QED
          BY <3>2, <4>1, <5>2 DEF Again
      <4>2. CASE g # f
        <5>1. opens'[g] = opens[g]
          BY <1>2, <4>2
        <5> QED
          BY <3>2, <4>2, <5>1 DEF Again
      <4> QED
        BY <4>1, <4>2
    <3>4. PageAt(s, g, u, v, a) /\ (v => HasDevice(u))
      BY <1>1, <2>2, <3>2 DEF Meanings, FileRight
    <3>5. u \in Texts /\ x[g] = u
      BY <1>1, <3>1, <3>2, FileOf DEF Base, TextsOf
    <3>6. PageAt(z, g, u, v, e)
      <4>1. CASE g = f
        <5>1. Gone(r, f)
          BY <1>1, <1>2, <1>3, <1>4, TailOrder
        <5> QED
          BY <1>1, <1>5, <3>3, <4>1, <5>1, PageOpen
      <4>2. CASE g # f
        <5>1. PageAt(r, g, u, v, a)
          <6>1. CASE s = <<>>
            BY <1>4, <6>1, PageEmpty
          <6>2. CASE s # <<>> /\ s[1][1] # g
            BY <1>2, <1>3, <3>4, <6>2, PageElsewhere
          <6>3. CASE s # <<>> /\ s[1][1] = g
            <7>1. PICK b \in Nat : b = s[1][2]
              BY <1>2, <6>3, TailOf, PlaceParts
            <7>2. IsFirst(s, g, 1) /\ 1 \in 1 .. Len(s)
              BY <1>2, <6>3, TailOf DEF IsFirst
            <7>3. /\ AfterDevice(u, b) => v
                  /\ v => AfterDevice(u, b) \/ a
              BY <3>4, <7>1, <7>2 DEF PageAt
            <7>4. Items[u][b + 1].op = "include"
              BY <1>3, <3>5, <6>3, <7>1
            <7>5. /\ AfterDevice(u, s[1][2] + 1) => v
                  /\ v => AfterDevice(u, s[1][2] + 1) \/ a
              BY <7>1, <7>3, <7>4, AfterNext
            <7>6. Ascends(s, g)
              BY <1>1 DEF Unmixed
            <7>7. \A i \in 1 .. Len(s) : s[i][1] = g => s[i][2] + 1 \in 1 .. Len(Items[u])
              <8>1. \A i \in 1 .. Len(s) : IsPlace(s[i])
                BY <1>1 DEF Base, Located
              <8> QED
                BY <3>2, <8>1 DEF IsPlace
            <7>8. PageAt(Tail(s), g, u, v, a)
              BY <1>2, <3>5, <6>3, <7>5, <7>6, <7>7, PageOn
            <7> QED
              BY <1>3, <6>3, <7>8
          <6> QED
            BY <6>1, <6>2, <6>3
        <5>2. PageAt(z, g, u, v, a)
          BY <1>1, <1>5, <4>2, <5>1, PageOpen
        <5> QED
          BY <3>3, <4>2, <5>2 DEF PageAt
      <4> QED
        BY <4>1, <4>2
    <3>7. ASSUME NEW k \in 1 .. Len(cur'.defs[g])
          PROVE  NodeRight(<<g, k>>, cur'.defs[g][k], u, z, asm'.node, pc', e)
      <4>1. PICK p, d, n : p = <<g, k>> /\ d = cur.defs[g][k] /\ n = asm.node
        OBVIOUS
      <4>2. d.byte \in Nat /\ NodeRight(p, d, u, s, n, pc, a) /\ p \in Places /\ k \in Nat
        <5>1. k \in 1 .. Len(cur.defs[g]) /\ k \in Nat
          BY <3>1
        <5> QED
          BY <1>1, <2>2, <3>2, <4>1, <5>1, NodeParts DEF Places
      <4>3. x[p[1]] = u
        BY <3>5, <4>1
      <4>4. NodeRight(p, d, u, z, n, "asm", a)
        <5>1. CASE s = <<>>
          <6>1. n # p
            BY <1>1, <4>1, <4>2, <5>1, SymbolsAssumption DEF Places
          <6> QED
            BY <4>2, <4>3, <5>1, <6>1, NodeKept
        <5>2. CASE s # <<>>
          <6>1. Items[x[s[1][1]]][s[1][2] + 1].op = "include"
            BY <1>3, <5>2
          <6>2. "include" \notin Definitions \cup {"sig"}
            BY DEF Definitions
          <6> QED
            BY <1>2, <3>5, <4>2, <4>3, <5>2, <6>1, <6>2, NodeOn
        <5> QED
          BY <5>1, <5>2
      <4>5. NodeRight(p, d, u, z, n, "asm", e)
        BY <3>3, <4>4 DEF NodeRight, Fits
      <4> QED
        BY <1>2, <3>1, <4>1, <4>5
    <3> QED
      BY <1>2, <3>1, <3>2, <3>4, <3>6, <3>7 DEF FileRight
  <2> QED
    BY <2>1, <2>2
<1>11. InRuns(todo', TextsOf')
  BY <1>1, <1>2, <1>8
<1>12. todo' # <<>> => Grouped(files'[Here'[1]].text, Here'[2], asm'.enum, asm'.scope)
  BY <1>2, <1>9 DEF Here
<1> QED
  BY <1>2, <1>10, <1>11, <1>12 DEF Meanings

LEMMA FopenMeans ==
  ASSUME Base, Once, Unmixed, Meanings, NEW f \in Files, Fopen(f, Rest), Gone(todo, f),
         \/ pc = "open"
         \/ pc = "asm" /\ todo # <<>> /\ ItemAt(Here).op = "include"
  PROVE  Meanings'
<1>1. /\ asm'.node = asm.node /\ asm'.enum = asm.enum /\ asm'.scope = asm.scope
      /\ TypeOK /\ asm \in AsmStates
  <2>1. asm \in AsmStates
    BY DEF Base, TypeOK, AsmStates
  <2>2. asm' = [asm EXCEPT !.included = @ \cup {f}]
    BY DEF Fopen
  <2> QED
    BY <2>1, <2>2 DEF AsmStates, Base
<1>2. /\ todo # <<>> => ItemAt(Here).op = "include"
      /\ todo = <<>> => pc = "open" /\ asm.node = None
  BY DEF Base, Located, Meanings
<1>3. CASE /\ files[f] # NotRead
           /\ Opened(f, files[f].text, Rest)
           /\ UNCHANGED <<files, reading>>
  <2>1. files[f].text \in Texts /\ TextsStay
    BY <1>1, <1>3, FileOf DEF TextsStay
  <2> QED
    BY <1>1, <1>2, <1>3, <2>1, OpenedMeans
<1>4. CASE /\ files[f] = NotRead
           /\ docs[f] # Closed
           /\ files' = [files EXCEPT ![f] = NewFile(docs[f])]
           /\ Opened(f, docs[f], Rest)
           /\ UNCHANGED reading
  <2>1. docs[f] \in Texts /\ files \in [Files -> FileStates \cup {NotRead}]
    BY <1>1, <1>4 DEF TypeOK, Docs
  <2>2. \A g \in Files : g # f => files'[g] = files[g]
    BY <1>4, <2>1
  <2>3. files'[f].page = "variable"
    BY <1>4, <2>1 DEF NewFile
  <2>4. TextsStay /\ files'[f].text = docs[f]
    BY <1>1, <1>4, <2>1, FileRead
  <2> QED
    BY <1>1, <1>2, <1>4, <2>1, <2>2, <2>3, <2>4, OpenedMeans
<1>5. CASE /\ files[f] = NotRead
           /\ docs[f] = Closed
           /\ reading' = f
           /\ pc' = "read"
           /\ UNCHANGED <<cur, files, todo, opens>>
  <2>1. ASSUME NEW g \in Files, opens[g] # 0, NEW k \in 1 .. Len(cur.defs[g])
        PROVE  NodeRight(<<g, k>>, cur.defs[g][k], files[g].text, todo, asm.node, "read", Again(g))
    <3>1. PICK p, d, t, s, n, x : /\ p = <<g, k>> /\ d = cur.defs[g][k]
                                  /\ t = files[g].text /\ s = todo /\ n = asm.node
                                  /\ x = TextsOf
      OBVIOUS
    <3>2. x[g] = t /\ d.byte \in Nat /\ NodeRight(p, d, t, s, n, pc, Again(g))
      BY <2>1, <3>1, NodeParts
    <3>3. pc = "asm" /\ s # <<>> => Items[x[s[1][1]]][s[1][2] + 1].op # "sig"
      <4>1. s # <<>> => Items[x[s[1][1]]][s[1][2] + 1] = ItemAt(Here)
        BY <3>1, ItemHere
      <4>2. s # <<>> => ItemAt(Here).op = "include"
        BY <1>2, <3>1
      <4> QED
        BY <4>1, <4>2
    <3>4. x[p[1]] = t
      BY <3>1, <3>2
    <3>5. NodeRight(p, d, t, s, n, "read", Again(g))
      BY <3>2, <3>3, <3>4, NodeKept
    <3> QED
      BY <3>1, <3>5
  <2>2. \A g \in Files : opens[g] # 0 => FileRight(g)'
    BY <1>1, <1>5, <2>1 DEF Meanings, FileRight, Again
  <2>3. InRuns(todo', TextsOf')
    BY <1>5 DEF Meanings, TextsOf
  <2> QED
    BY <1>1, <1>2, <1>5, <2>2, <2>3 DEF Meanings, Here, ItemAt
<1> QED
  BY <1>3, <1>4, <1>5 DEF Fopen

LEMMA MeaningsInit == Init => Meanings
<1> SUFFICES ASSUME Init PROVE Meanings
  OBVIOUS
<1>1. todo = <<>> /\ pc = "idle" /\ \A g \in Files : opens[g] = 0
  BY DEF Init
<1>2. InRuns(todo, TextsOf)
  <2>1. PICK x : x = TextsOf
    OBVIOUS
  <2> QED
    BY <1>1, <2>1, EmptyRuns
<1> QED
  BY <1>1, <1>2 DEF Meanings

LEMMA MeaningsNext == SoundInv /\ Once /\ Unmixed /\ Meanings /\ [Next]_vars => Meanings'
<1> SUFFICES ASSUME SoundInv, Once, Unmixed, Meanings, [Next]_vars PROVE Meanings'
  OBVIOUS
<1>0. Base /\ cur \in Contexts
  BY BaseParts DEF SoundInv
<1>1. CASE (\E m \in Notifications : Update(m)) \/ SkipEntry \/ UNCHANGED vars
  <2>1. UNCHANGED <<cur, files, opens, todo, asm, pc>>
    BY <1>1 DEF Update, SkipEntry, vars
  <2> QED
    BY <2>1, MeaningsSame
<1>2. CASE StartRun
  <2>1. /\ todo' = <<>> /\ pc' = "next" /\ \A g \in Files : opens'[g] = 0
    BY <1>0, <1>2 DEF StartRun, Base, Located
  <2>2. InRuns(todo', TextsOf')
    <3>1. PICK x : x = TextsOf'
      OBVIOUS
    <3> QED
      BY <2>1, <3>1, EmptyRuns
  <2> QED
    BY <2>1, <2>2 DEF Meanings
<1>3. CASE OpenEntry
  <2>1. pc = "open" /\ entry \in Files /\ Fopen(entry, Rest)
    BY <1>0, <1>3 DEF OpenEntry, Base, Located
  <2>2. Gone(todo, entry)
    BY <1>0, <2>1 DEF Base, Located, Gone
  <2> QED
    BY <1>0, <2>1, <2>2, FopenMeans
<1>4. CASE Include
  <2>1. /\ pc = "asm" /\ todo # <<>> /\ ItemAt(Here).op = "include"
        /\ Fopen(ItemAt(Here).file, Rest) /\ ItemAt(Here).file \notin asm.included
    BY <1>4 DEF Include, At
  <2>2. ItemAt(Here).file \in Files
    BY <1>0, <2>1, HereOf, ItemKinds DEF Base
  <2>3. Gone(todo, ItemAt(Here).file)
    BY <2>1 DEF Unmixed, Gone
  <2> QED
    BY <1>0, <2>1, <2>2, <2>3, FopenMeans
<1>5. CASE ReadFile
  <2>1. /\ pc = "read" /\ reading \in Files /\ Disk[reading] \in Texts
        /\ Opened(reading, Disk[reading], Rest) /\ asm' = asm
        /\ files' = [files EXCEPT ![reading] = NewFile(Disk[reading])]
        /\ files[reading] = NotRead /\ Gone(todo, reading)
    BY <1>0, <1>5, SymbolsAssumption DEF ReadFile, Base, Located, Unmixed
  <2>2. files \in [Files -> FileStates \cup {NotRead}] /\ TypeOK
    BY <1>0 DEF Base, TypeOK
  <2>3. \A g \in Files : g # reading => files'[g] = files[g]
    BY <2>1, <2>2
  <2>4. TextsStay /\ files'[reading].text = Disk[reading]
    BY <2>1, <2>2, FileRead
  <2>5. files'[reading].page = "variable"
    BY <2>1, <2>2 DEF NewFile
  <2>6. /\ todo # <<>> => ItemAt(Here).op = "include"
        /\ todo = <<>> => asm.node = None
    BY <2>1 DEF Meanings
  <2> QED
    BY <1>0, <2>1, <2>3, <2>4, <2>5, <2>6, OpenedMeans
<1>6. CASE \/ IncludeAgain \/ PutDefinition \/ PutGenerated \/ PutReferences \/ Annotate
           \/ ChessReport
  BY <1>0, <1>6, AssemblerMeans
<1>7. CASE CompileEntry \/ EndRun
  <2>1. /\ todo' = <<>> /\ UNCHANGED <<opens, cur, files>> /\ pc = "next" /\ pc' # "read"
        /\ pc' = "open" => asm'.node = None
    BY <1>0, <1>7 DEF CompileEntry, EndRun, NewAsm, Base, Located
  <2>2. TextsStay
    BY <2>1 DEF TextsStay
  <2> QED
    BY <1>0, <2>1, <2>2, MeaningsEnd
<1>8. CASE EndCompile
  <2>1. /\ todo' = <<>> /\ todo = <<>> /\ UNCHANGED <<opens, files>> /\ pc' = "next"
    BY <1>8 DEF EndCompile
  <2>2. TextsStay
    BY <2>1 DEF TextsStay
  <2>3. ASSUME NEW g \in Files, NEW k \in 1 .. Len(cur'.defs[g])
        PROVE  \/ cur'.defs[g][k].by = 0
               \/ k \in 1 .. Len(cur.defs[g]) /\ cur'.defs[g][k] = cur.defs[g][k]
    <3>1. PICK d \in Seq(Def), c \in Seq(Def) : d = cur.defs[g] /\ c = Carried(g)
      BY <1>0, DefsOf, CarriedOf
    <3>2. cur'.defs[g] = d \o c
      BY <1>0, <1>8, <3>1, Ended DEF SoundInv
    <3>3. \A i \in 1 .. Len(c) : c[i].by = 0
      BY <1>0, <3>1, CarriedOf
    <3>4. k \in 1 .. Len(d \o c)
      BY <3>2
    <3>5. \/ k \in 1 .. Len(d) /\ (d \o c)[k] = d[k]
          \/ \E i \in 1 .. Len(c) : (d \o c)[k] = c[i]
      BY <3>1, <3>4, JoinElements
    <3> QED
      BY <3>1, <3>2, <3>3, <3>5
  <2> QED
    BY <1>0, <2>1, <2>2, <2>3, MeaningsEnd
<1>9. CASE ReportError \/ ReadFailure
  <2>1. /\ todo' = <<>> /\ UNCHANGED <<opens, cur>> /\ pc' = "asm"
        /\ pc = "asm" /\ todo # <<>> => ItemAt(Here).op # "sig"
    BY <1>9 DEF ReportError, ReadFailure, MarkError, At
  <2>2. TextsStay
    BY <1>0, <1>9, ReportBase, FailureBase
  <2>3. \A g \in Files : files'[g].page = files[g].page
    <3>1. UNCHANGED files \/ (todo # <<>> /\ files' = [files EXCEPT ![Here[1]].err = TRUE])
      BY <1>9 DEF ReportError, ReadFailure, MarkError, At
    <3>2. CASE UNCHANGED files
      BY <3>2
    <3>3. CASE todo # <<>> /\ files' = [files EXCEPT ![Here[1]].err = TRUE]
      <4>1. PageBecomes(files[Here[1]].page)
        BY <1>0, <3>3, PageMoves
      <4> QED
        BY <4>1 DEF PageBecomes
    <3> QED
      BY <3>1, <3>2, <3>3
  <2> QED
    BY <1>0, <2>1, <2>2, <2>3, MeaningsEnd
<1> QED
  BY <1>1, <1>2, <1>3, <1>4, <1>5, <1>6, <1>7, <1>8, <1>9 DEF Next

\* What the annotation comments of a file and the stack comment behind a label make
\* of the labels in the zero page is settled by the text of the file, whatever files
\* are included in it or include it (buxn_ls_handle_annotation and
\* buxn_asm_put_symbol); a file that several compilations open keeps its page.
THEOREM AlwaysMeant == Spec => []MeaningFromText
<1>1. SoundInv /\ Once /\ Meanings => MeaningFromText
  <2> SUFFICES ASSUME SoundInv, Once, Meanings, Observable,
                      NEW f \in Files, NEW k \in DOMAIN cur.defs[f],
                      cur.defs[f][k].by # 0,
                      IsZeroLabel(Text(f)[cur.defs[f][k].byte + 1])
               PROVE  MeaningIn(files[f].text, cur.defs[f][k].byte, cur.defs[f][k].sem,
                                ~Unshared(f))
    BY Zenon DEF MeaningFromText
  <2>1. Base /\ cur \in Contexts /\ pc # "asm"
    BY BaseParts DEF SoundInv, Observable
  <2>2. cur.defs[f] \in Seq(Def)
    BY <2>1, DefsOf
  <2>3. k \in 1 .. Len(cur.defs[f]) /\ opens[f] # 0
    BY <2>2 DEF Once, Unopened
  <2>4. PICK d, t, a : d = cur.defs[f][k] /\ t = files[f].text /\ a = Again(f)
    OBVIOUS
  <2>5. NodeRight(<<f, k>>, d, t, todo, asm.node, pc, a)
    BY <2>1, <2>3, <2>4, NodeParts
  <2>6. d.by # 0 /\ IsZeroLabel(Items[t][d.byte + 1])
    BY <2>4 DEF Text
  <2>7. Fits(t, d, a) /\ (Signed(t, d.byte) => d.sem = "subroutine")
    BY <2>1, <2>5, <2>6 DEF NodeRight, Waiting
  <2>8. MeaningIn(t, d.byte, d.sem, a)
    BY <2>7 DEF MeaningIn, Fits
  <2>9. a = ~Unshared(f)
    BY <2>4 DEF Again, Unshared
  <2> QED
    BY <2>4, <2>8, <2>9
<1> QED
  BY <1>1, SoundInit, SoundNext, OnceInit, OnceNext, UnmixedInit, UnmixedNext,
     MeaningsInit, MeaningsNext, PTL DEF Spec
-----------------------------------------------------------------------------
(***************************************************************************)
(* The symbols after a run without errors: in a file that was opened once, *)
(* each definition that the assembler has passed is listed once, and the   *)
(* others are in front of it; its references are handed over in the order  *)
(* of the text, by one compilation, and connected when it ends.            *)
(***************************************************************************)
\* The list d, in the order of the text, and the places in s: together they
\* have the definitions that content t of file g makes.
Rising(d) == \A k, l \in 1 .. Len(d) : k < l => d[k].byte < d[l].byte

Right(d, t) ==
    \A k \in 1 .. Len(d) : /\ d[k].by # 0
                           /\ d[k].byte + 1 \in DefinedIn(t)
                           /\ d[k].name = Items[t][d[k].byte + 1].name

ListedAt(d, j) == \E k \in 1 .. Len(d) : d[k].byte + 1 = j
AheadAt(s, g, j) == \E i \in 1 .. Len(s) : s[i][1] = g /\ s[i][2] + 1 = j

Listed(s, g, d, t) ==
    /\ Rising(d)
    /\ Right(d, t)
    /\ \A j \in DefinedIn(t) : ListedAt(d, j) \/ AheadAt(s, g, j)

Complete ==
    NoErrors => \A g \in Files : opens[g] = 1 =>
                  Listed(todo, g, cur.defs[g], files[g].text)

\* A place is the item in hand or behind it.
LEMMA AheadOf ==
  ASSUME NEW s \in Seq(Places), s # <<>>, NEW g, NEW j, AheadAt(s, g, j)
  PROVE  AheadAt(Tail(s), g, j) \/ (s[1][1] = g /\ s[1][2] + 1 = j)
<1>1. PICK i \in 1 .. Len(s) : s[i][1] = g /\ s[i][2] + 1 = j
  BY DEF AheadAt
<1>2. /\ Len(s) \in Nat /\ Len(Tail(s)) \in Nat /\ Len(Tail(s)) = Len(s) - 1
      /\ \A k \in 1 .. Len(Tail(s)) : Tail(s)[k] = s[k + 1]
  BY TailOf
<1>3. CASE i = 1
  BY <1>1, <1>3
<1>4. CASE i # 1
  <2>1. i - 1 \in 1 .. Len(Tail(s)) /\ (i - 1) + 1 = i
    BY <1>1, <1>2, <1>4
  <2>2. Tail(s)[i - 1] = s[i]
    BY <1>2, <2>1
  <2> QED
    BY <1>1, <2>1, <2>2 DEF AheadAt
<1> QED
  BY <1>3, <1>4

\* The assembler passes an item that is no definition of the file.
LEMMA TailListed ==
  ASSUME NEW s \in Seq(Places), s # <<>>, NEW g, NEW d, NEW t, Listed(s, g, d, t),
         s[1][1] = g => s[1][2] + 1 \notin DefinedIn(t)
  PROVE  Listed(Tail(s), g, d, t)
<1>1. ASSUME NEW j \in DefinedIn(t)
      PROVE  ListedAt(d, j) \/ AheadAt(Tail(s), g, j)
  BY AheadOf DEF Listed
<1> QED
  BY <1>1 DEF Listed

\* What a node means does not matter.
LEMMA SameListed ==
  ASSUME NEW s, NEW g, NEW d, NEW t, NEW e, Listed(s, g, d, t), Len(e) = Len(d),
         \A k \in 1 .. Len(d) :
           e[k].name = d[k].name /\ e[k].by = d[k].by /\ e[k].byte = d[k].byte
  PROVE  Listed(s, g, e, t)
<1>1. Rising(e)
  BY DEF Listed, Rising
<1>2. Right(e, t)
  BY DEF Listed, Right
<1>3. \A j : ListedAt(d, j) => ListedAt(e, j)
  BY DEF ListedAt
<1> QED
  BY <1>1, <1>2, <1>3 DEF Listed

\* The item in hand defines a symbol.
LEMMA AppendListed ==
  ASSUME NEW s \in Seq(Places), s # <<>>, NEW g, g = s[1][1], NEW d \in Seq(Def), NEW l \in Nat,
         NEW t, NEW def \in Def, Listed(s, g, d, t), InTextOrder(s, g, d, l),
         def.byte = s[1][2], def.by # 0, def.byte + 1 \in DefinedIn(t),
         def.name = Items[t][def.byte + 1].name
  PROVE  Listed(Tail(s), g, Append(d, def), t)
<1>1. PICK e : e = Append(d, def)
  OBVIOUS
<1>2. /\ Len(d) \in Nat
      /\ Len(e) = Len(d) + 1
      /\ \A k \in 1 .. Len(d) : k \in 1 .. Len(e) /\ e[k] = d[k]
      /\ Len(d) + 1 \in 1 .. Len(e) /\ e[Len(d) + 1] = def
      /\ \A k \in 1 .. Len(e) : k \in 1 .. Len(d) \/ k = Len(d) + 1
  BY <1>1, AppendOf
<1>3. \A k \in 1 .. Len(d) : d[k].byte < def.byte
  <2>1. 1 \in 1 .. Len(s)
    BY TailOf
  <2> QED
    BY <2>1 DEF InTextOrder, Passed, Listed, Right
<1>4. Rising(e)
  <2>1. ASSUME NEW k \in 1 .. Len(e), NEW m \in 1 .. Len(e), k < m
        PROVE  e[k].byte < e[m].byte
    <3>1. k \in 1 .. Len(d)
      BY <1>2, <2>1
    <3>2. CASE m \in 1 .. Len(d)
      BY <1>2, <2>1, <3>1, <3>2 DEF Listed, Rising
    <3>3. CASE m = Len(d) + 1
      BY <1>2, <1>3, <3>1, <3>3
    <3> QED
      BY <1>2, <3>2, <3>3
  <2> QED
    BY <2>1 DEF Rising
<1>5. Right(e, t)
  <2>1. ASSUME NEW k \in 1 .. Len(e)
        PROVE  /\ e[k].by # 0
               /\ e[k].byte + 1 \in DefinedIn(t)
               /\ e[k].name = Items[t][e[k].byte + 1].name
    <3>1. CASE k \in 1 .. Len(d)
      BY <1>2, <3>1 DEF Listed, Right
    <3>2. CASE k = Len(d) + 1
      BY <1>2, <3>2
    <3> QED
      BY <1>2, <3>1, <3>2
  <2> QED
    BY <2>1 DEF Right
<1>6. \A j : ListedAt(d, j) => ListedAt(e, j)
  BY <1>2 DEF ListedAt
<1>7. ListedAt(e, s[1][2] + 1)
  BY <1>2 DEF ListedAt
<1>8. ASSUME NEW j \in DefinedIn(t)
      PROVE  ListedAt(e, j) \/ AheadAt(Tail(s), g, j)
  BY <1>6, <1>7, AheadOf DEF Listed
<1> QED
  BY <1>1, <1>4, <1>5, <1>8 DEF Listed

\* The content of a file is put in front of what follows its include.
LEMMA OpenListed ==
  ASSUME NEW f \in Files, NEW t \in Texts, NEW rest \in Seq(Places)
  PROVE  /\ \A g, d, u : Listed(rest, g, d, u) => Listed(PlacesIn(f, t) \o rest, g, d, u)
         /\ Listed(PlacesIn(f, t) \o rest, f, <<>>, t)
<1>1. PICK a, s : a = PlacesIn(f, t) /\ s = a \o rest
  OBVIOUS
<1>2. /\ a \in Seq(Places) /\ Len(a) \in Nat /\ Len(rest) \in Nat
      /\ Items[t] \in Seq(Item)
  BY <1>1, PlacesInOf, SymbolsAssumption
<1>3. /\ Len(s) = Len(a) + Len(rest)
      /\ \A k \in 1 .. Len(a) : s[k] = a[k]
      /\ \A k \in 1 .. Len(rest) : s[Len(a) + k] = rest[k]
  BY <1>1, <1>2, JoinOf
<1>4. ASSUME NEW g, NEW j, AheadAt(rest, g, j)
      PROVE  AheadAt(s, g, j)
  <2>1. PICK i \in 1 .. Len(rest) : rest[i][1] = g /\ rest[i][2] + 1 = j
    BY <1>4 DEF AheadAt
  <2>2. Len(a) + i \in 1 .. Len(s) /\ s[Len(a) + i] = rest[i]
    BY <1>2, <1>3
  <2> QED
    BY <2>1, <2>2 DEF AheadAt
<1>5. \A g, d, u : Listed(rest, g, d, u) => Listed(s, g, d, u)
  BY <1>4 DEF Listed
<1>6. ASSUME NEW j \in DefinedIn(t)
      PROVE  AheadAt(s, f, j)
  <2>1. j \in 1 .. Len(Items[t]) /\ Len(Items[t]) \in Nat
    BY <1>2 DEF DefinedIn
  <2>2. Len(a) = Len(Items[t]) /\ a[j] = <<f, j - 1>>
    BY <1>1, <2>1 DEF PlacesIn
  <2>3. j \in 1 .. Len(a) /\ j \in 1 .. Len(s)
    BY <1>2, <1>3, <2>1, <2>2
  <2>4. s[j] = <<f, j - 1>>
    BY <1>3, <2>2, <2>3
  <2>5. s[j][1] = f /\ s[j][2] + 1 = j
    BY <2>1, <2>4
  <2> QED
    BY <2>3, <2>5 DEF AheadAt
<1>7. Listed(s, f, <<>>, t)
  BY <1>6 DEF Listed, Rising, Right
<1> QED
  BY <1>1, <1>5, <1>7

\* A rising list that has all of a set of numbers counts them.
LEMMA CountOf ==
  ASSUME NEW k \in Nat, NEW S, NEW F \in [1 .. k -> S],
         \A i, j \in 1 .. k : F[i] = F[j] => i = j,
         \A x \in S : \E i \in 1 .. k : F[i] = x
  PROVE  IsFiniteSet(S) /\ Cardinality(S) = k
<1>1. F \in Injection(1 .. k, S)
  BY DEF Injection, IsInjective
<1>2. F \in Surjection(1 .. k, S)
  BY DEF Surjection
<1>3. ExistsBijection(1 .. k, S)
  BY <1>1, <1>2 DEF ExistsBijection, Bijection
<1>4. IsFiniteSet(1 .. k) /\ Cardinality(1 .. k) = k
  <2>1. IsFiniteSet(1 .. k) /\ Cardinality(1 .. k) = IF 1 > k THEN 0 ELSE k - 1 + 1
    BY FS_Interval
  <2> QED
    BY <2>1
<1> QED
  BY <1>3, <1>4, FS_Bijection

LEMMA RisingCounts ==
  ASSUME NEW n \in Nat, NEW T \in SUBSET (1 .. n), NEW d \in Seq(Def), Rising(d),
         \A k \in 1 .. Len(d) : d[k].byte + 1 \in T,
         \A j \in T : ListedAt(d, j)
  PROVE  /\ Cardinality(T) = Len(d)
         /\ \A k \in 1 .. Len(d) : Nth(T, k) = d[k].byte + 1
<1> DEFINE e(k) == d[k].byte + 1
<1>1. /\ Len(d) \in Nat
      /\ \A k \in 1 .. Len(d) : d[k].byte \in Nat
  BY DefParts
<1>2. \A k, l \in 1 .. Len(d) : (k < l => e(k) < e(l)) /\ e(k) \in T /\ e(k) \in Nat
  BY <1>1 DEF Rising
<1>3. \A k, l \in 1 .. Len(d) : /\ e(k) <= e(l) <=> k <= l
                                /\ e(k) = e(l) => k = l
  <2>1. ASSUME NEW k \in 1 .. Len(d), NEW l \in 1 .. Len(d)
        PROVE  (e(k) <= e(l) <=> k <= l) /\ (e(k) = e(l) => k = l)
    <3>1. k < l \/ k = l \/ l < k
      BY <1>1
    <3>2. (k < l => e(k) < e(l)) /\ (l < k => e(l) < e(k)) /\ e(k) \in Nat /\ e(l) \in Nat
      BY <1>2
    <3> HIDE DEF e
    <3> QED
      BY <1>1, <3>1, <3>2
  <2> QED
    BY <2>1
<1>4. \A j \in T : \E k \in 1 .. Len(d) : e(k) = j
  BY DEF ListedAt
<1> HIDE DEF e
<1>5. Cardinality(T) = Len(d)
  <2>0. PICK m \in Nat : m = Len(d)
    BY <1>1
  <2>1. PICK F : m = Len(d) /\ F = [k \in 1 .. m |-> e(k)]
    BY <2>0
  <2>2. F \in [1 .. m -> T] /\ \A k \in 1 .. m : F[k] = e(k)
    BY <1>2, <2>1
  <2>3. \A i, j \in 1 .. m : F[i] = F[j] => i = j
    BY <1>3, <2>1, <2>2
  <2>4. \A x \in T : \E i \in 1 .. m : F[i] = x
    BY <1>4, <2>1, <2>2
  <2> QED
    BY <2>1, <2>2, <2>3, <2>4, CountOf
<1>6. ASSUME NEW k \in 1 .. Len(d)
      PROVE  Nth(T, k) = e(k)
  <2>1. PICK S : S = UpToIn(T, e(k))
    OBVIOUS
  <2>2. \A i \in 1 .. k : i \in 1 .. Len(d) /\ e(i) \in S
    BY <1>1, <1>2, <1>3, <2>1 DEF UpToIn
  <2>3. \A i, j \in 1 .. k : e(i) = e(j) => i = j
    BY <1>3, <2>2
  <2>4. \A x \in S : \E i \in 1 .. k : e(i) = x
    <3>1. ASSUME NEW x \in S
          PROVE  \E i \in 1 .. k : e(i) = x
      <4>1. x \in T /\ x <= e(k)
        BY <2>1, <3>1 DEF UpToIn
      <4>2. PICK i \in 1 .. Len(d) : e(i) = x
        BY <1>4, <4>1
      <4>3. i <= k
        BY <1>3, <4>1, <4>2
      <4> QED
        BY <1>1, <4>2, <4>3
    <3> QED
      BY <3>1
  <2>5. k \in Nat
    BY <1>1
  <2>6. Cardinality(S) = k
    <3>1. PICK F : F = [i \in 1 .. k |-> e(i)]
      OBVIOUS
    <3>2. F \in [1 .. k -> S] /\ \A i \in 1 .. k : F[i] = e(i)
      BY <2>2, <3>1
    <3>3. \A i, j \in 1 .. k : F[i] = F[j] => i = j
      BY <2>3, <3>2
    <3>4. \A x \in S : \E i \in 1 .. k : F[i] = x
      BY <2>4, <3>2
    <3> QED
      BY <2>5, <3>2, <3>3, <3>4, CountOf
  <2>7. k \in 1 .. Cardinality(T)
    BY <1>5
  <2>8. /\ Nth(T, k) \in T
        /\ Cardinality(UpToIn(T, Nth(T, k))) = k
    BY <2>7, NthOf
  <2>9. e(k) \in T /\ Cardinality(UpToIn(T, e(k))) = k
    BY <1>2, <2>1, <2>6
  <2>10. PICK a \in T, b \in T : a = Nth(T, k) /\ b = e(k)
    BY <2>8, <2>9
  <2>11. a \in Nat /\ b \in Nat
    OBVIOUS
  <2>12. a <= b \/ b <= a
    BY <2>11
  <2>13. Cardinality(UpToIn(T, a)) = Cardinality(UpToIn(T, b))
    BY <2>8, <2>9, <2>10
  <2>14. a = b
    BY <2>12, <2>13, NthUnique
  <2> QED
    BY <2>10, <2>14
<1> QED
  BY <1>5, <1>6 DEF e

\* When the assembler has passed the whole content, the symbols are those of it.
LEMMA ListedIsDeclared ==
  ASSUME cur \in Contexts, NEW f \in Files, NEW t \in Texts, Listed(<<>>, f, cur.defs[f], t)
  PROVE  DocSymbols(f) = Declared(t)
<1>1. PICK d \in Seq(Def) : d = cur.defs[f]
  BY DefsOf
<1>2. PICK T : T = DefinedIn(t)
  OBVIOUS
<1>3. PICK n \in Nat : n = Len(Items[t])
  BY SymbolsAssumption
<1>4. T \in SUBSET (1 .. n) /\ Items[t] \in Seq(Item)
  BY <1>2, <1>3, SymbolsAssumption DEF DefinedIn
<1>5. Rising(d) /\ Right(d, t) /\ \A j \in T : ListedAt(d, j)
  BY <1>1, <1>2 DEF Listed, AheadAt
<1>6. \A k \in 1 .. Len(d) : d[k].byte + 1 \in T /\ d[k].name = Items[t][d[k].byte + 1].name
  BY <1>2, <1>5 DEF Right
<1>7. PICK m \in Nat : m = Len(d)
  OBVIOUS
<1>8. Cardinality(T) = m /\ \A k \in 1 .. m : Nth(T, k) = d[k].byte + 1
  BY <1>4, <1>5, <1>6, <1>7, RisingCounts
<1>9. ASSUME NEW k \in 1 .. m
      PROVE  /\ m + 1 - k \in 1 .. m
             /\ Nth(T, m + 1 - k) - 1 = d[m + 1 - k].byte
             /\ Items[t][Nth(T, m + 1 - k)].name = d[m + 1 - k].name
  <2>1. PICK l \in 1 .. m : l = m + 1 - k
    OBVIOUS
  <2>2. d[l].byte \in Nat
    BY <1>7, DefParts
  <2>3. Nth(T, l) = d[l].byte + 1 /\ d[l].name = Items[t][d[l].byte + 1].name
    BY <1>6, <1>7, <1>8
  <2>4. Nth(T, l) - 1 = d[l].byte
    BY <2>2, <2>3
  <2> QED
    BY <2>1, <2>3, <2>4
<1> DEFINE a(k) == LET c == d[m + 1 - k] IN <<c.name, c.byte>>
           b(k) == LET i == Nth(T, m + 1 - k) IN <<Items[t][i].name, i - 1>>
<1>10. DocSymbols(f) = [k \in 1 .. m |-> a(k)]
  BY <1>1, <1>7 DEF DocSymbols
<1>11. Declared(t) = [k \in 1 .. m |-> b(k)]
  BY <1>2, <1>8 DEF Declared
<1>12. \A k \in 1 .. m : a(k) = b(k)
  BY <1>9
<1> HIDE DEF a, b
<1> QED
  BY <1>10, <1>11, <1>12

\* Errors stay until the next run.
ErrorsStay == \A f \in Files : FileHasError(f) => files'[f] # NotRead /\ files'[f].err

LEMMA NoErrorsBefore ==
  ASSUME ErrorsStay, NoErrors'
  PROVE  NoErrors
BY DEF ErrorsStay, NoErrors, FileHasError

LEMMA NoneCarried ==
  ASSUME NoErrors, NEW f \in Files
  PROVE  Carried(f) = <<>>
BY DEF NoErrors, Carried

\* A file is changed in another field than its error.
LEMMA ErrorKept ==
  ASSUME TypeOK, NEW f \in Files, files[f] # NotRead, NEW n \in FileStates,
         files[f].err => n.err, files' = [files EXCEPT ![f] = n]
  PROVE  ErrorsStay
<1>1. n # NotRead
  BY SymbolsAssumption
<1>2. files \in [Files -> FileStates \cup {NotRead}]
  BY DEF TypeOK
<1> QED
  BY <1>1, <1>2 DEF ErrorsStay, FileHasError

\* The steps of the assembler: only those that mark an error add one.
LEMMA AssemblerErrors ==
  ASSUME Base, PutGenerated \/ PutDefinition \/ Annotate
  PROVE  ErrorsStay
<1>1. todo # <<>>
  BY DEF PutGenerated, PutDefinition, Annotate, At
<1>2. PICK f, b, h : f = Here[1] /\ b = Here[2] /\ h = files[f]
  OBVIOUS
<1>3. /\ f \in Files /\ b \in Nat /\ files[f] # NotRead /\ h \in FileStates
      /\ TypeOK
  BY <1>1, <1>2, HereOf, FileOf DEF Base
<1>4. CASE files' = files
  BY <1>4 DEF ErrorsStay, FileHasError
<1>5. CASE files' # files
  <2>1. \/ files' = [files EXCEPT ![f].last = LaterByte(@, b)]
        \/ \E p \in {"variable", "device_port"} : files' = [files EXCEPT ![f].page = p]
    BY <1>2, <1>5 DEF PutGenerated, PutDefinition, Annotate
  <2>2. CASE files' = [files EXCEPT ![f].last = LaterByte(@, b)]
    <3>1. PICK n : n = [h EXCEPT !.last = LaterByte(@, b)]
      OBVIOUS
    <3>2. n \in FileStates
      BY <1>3, <3>1, LastType
    <3>3. n.err = h.err
      BY <1>3, <3>1 DEF FileStates
    <3>4. files' = [files EXCEPT ![f] = n]
      BY <1>2, <2>2, <3>1
    <3> QED
      BY <1>2, <1>3, <3>2, <3>3, <3>4, ErrorKept
  <2>3. CASE \E p \in {"variable", "device_port"} : files' = [files EXCEPT ![f].page = p]
    <3>1. PICK p \in {"variable", "device_port"} : files' = [files EXCEPT ![f].page = p]
      BY <2>3
    <3>2. PICK n : n = [h EXCEPT !.page = p]
      OBVIOUS
    <3>3. n \in FileStates
      BY <1>3, <3>2, PageType
    <3>4. n.err = h.err
      BY <1>3, <3>2 DEF FileStates
    <3>5. files' = [files EXCEPT ![f] = n]
      BY <1>2, <3>1, <3>2
    <3> QED
      BY <1>2, <1>3, <3>3, <3>4, <3>5, ErrorKept
  <2> QED
    BY <2>1, <2>2, <2>3
<1> QED
  BY <1>4, <1>5

\* Steps that define nothing and open no file
LEMMA CompleteStays ==
  ASSUME Base, Once, Complete, opens' = opens, TextsStay, NoErrors' => NoErrors,
         NoErrors' => \/ todo' = todo
                      \/ /\ todo # <<>> /\ todo' = Tail(todo)
                         /\ ItemAt(Here).op \notin Definitions,
         NoErrors' => \A g \in Files :
           /\ Len(cur'.defs[g]) = Len(cur.defs[g])
           /\ \A k \in 1 .. Len(cur.defs[g]) :
                /\ cur'.defs[g][k].name = cur.defs[g][k].name
                /\ cur'.defs[g][k].by = cur.defs[g][k].by
                /\ cur'.defs[g][k].byte = cur.defs[g][k].byte
  PROVE  Complete'
<1> SUFFICES ASSUME NoErrors', NEW g \in Files, opens'[g] = 1
             PROVE  Listed(todo', g, cur'.defs[g], files'[g].text)
  BY DEF Complete, Listed, AheadAt, ListedAt, Rising, Right, DefinedIn
<1>1. PICK s, d, e, t, r : /\ s = todo /\ d = cur.defs[g] /\ e = cur'.defs[g]
                           /\ t = files[g].text /\ r = todo'
  OBVIOUS
<1>2. Listed(s, g, d, t)
  BY <1>1 DEF Complete
<1>3. files'[g].text = t
  BY <1>1 DEF Once, TextsStay
<1>4. s \in Seq(Places)
  BY <1>1 DEF Base, TypeOK
<1>5. Listed(r, g, d, t)
  <2>1. CASE r = s
    BY <1>2, <2>1
  <2>2. CASE s # <<>> /\ r = Tail(s) /\ ItemAt(Here).op \notin Definitions
    <3>1. s[1][1] = g => s[1][2] + 1 \notin DefinedIn(t)
      BY <1>1, <2>2 DEF ItemAt, Here, DefinedIn
    <3> QED
      BY <1>2, <1>4, <2>2, <3>1, TailListed
  <2> QED
    BY <1>1, <2>1, <2>2
<1>6. Len(e) = Len(d) /\ \A k \in 1 .. Len(d) :
        e[k].name = d[k].name /\ e[k].by = d[k].by /\ e[k].byte = d[k].byte
  BY <1>1
<1>7. Listed(r, g, e, t)
  BY <1>5, <1>6, SameListed
<1> QED
  BY <1>1, <1>3, <1>7

\* A file is opened, for the first time or again.
LEMMA OpenedComplete ==
  ASSUME Base, Once, Complete, ErrorsStay, TextsStay, NEW f \in Files, NEW t \in Texts,
         Opened(f, t, Rest), files'[f].text = t, todo # <<>> => ItemAt(Here).op = "include"
  PROVE  Complete'
<1> SUFFICES ASSUME NoErrors', NEW g \in Files, opens'[g] = 1
             PROVE  Listed(todo', g, cur'.defs[g], files'[g].text)
  BY DEF Complete, Listed, AheadAt, ListedAt, Rising, Right, DefinedIn
<1>1. NoErrors
  BY NoErrorsBefore
<1>2. /\ cur'.defs = cur.defs
      /\ opens \in [Files -> Nat] /\ opens' = [opens EXCEPT ![f] = @ + 1]
      /\ todo \in Seq(Places)
  BY OpenedContext, BaseParts DEF Opened, TypeOK
<1>3. PICK r, s : r = Rest /\ s = PlacesIn(f, t) \o r
  OBVIOUS
<1>4. todo' = s
  BY <1>3 DEF Opened
<1>5. r \in Seq(Places)
  <2>1. CASE todo = <<>>
    BY <1>3, <2>1 DEF Rest
  <2>2. CASE todo # <<>>
    BY <1>2, <1>3, <2>2, TailOf DEF Rest
  <2> QED
    BY <2>1, <2>2
<1>6. CASE g = f
  <2>1. cur.defs[f] = <<>>
    BY <1>2, <1>6 DEF Once, Unopened
  <2>2. Listed(s, f, <<>>, t)
    BY <1>3, <1>5, OpenListed
  <2> QED
    BY <1>2, <1>4, <1>6, <2>1, <2>2
<1>7. CASE g # f
  <2>1. opens[g] = 1
    BY <1>2, <1>7
  <2>2. PICK u, d : u = files[g].text /\ d = cur.defs[g]
    OBVIOUS
  <2>3. Listed(todo, g, d, u) /\ files'[g].text = u
    BY <1>1, <2>1, <2>2 DEF Complete, Once, TextsStay
  <2>4. Listed(r, g, d, u)
    <3>1. CASE todo = <<>>
      BY <1>3, <2>3, <3>1 DEF Rest
    <3>2. CASE todo # <<>>
      <4>1. todo[1][1] = g => todo[1][2] + 1 \notin DefinedIn(u)
        BY <2>2, <3>2 DEF ItemAt, Here, DefinedIn, Definitions
      <4>2. Listed(Tail(todo), g, d, u)
        BY <1>2, <2>3, <3>2, <4>1, TailListed
      <4> QED
        BY <1>3, <3>2, <4>2 DEF Rest
    <3> QED
      BY <3>1, <3>2
  <2>5. Listed(s, g, d, u)
    BY <1>3, <1>5, <2>4, OpenListed
  <2> QED
    BY <1>2, <1>4, <2>2, <2>3, <2>5
<1> QED
  BY <1>6, <1>7

\* The item in hand is a definition: it is added to the list of its file.
LEMMA DefinitionComplete ==
  ASSUME Base, Once, Complete, PutDefinition
  PROVE  Complete'
<1> SUFFICES ASSUME NoErrors', NEW g \in Files, opens'[g] = 1
             PROVE  Listed(todo', g, cur'.defs[g], files'[g].text)
  BY DEF Complete, Listed, AheadAt, ListedAt, Rising, Right, DefinedIn
<1>1. NoErrors
  BY AssemblerErrors, NoErrorsBefore
<1>2. /\ pc = "asm" /\ todo # <<>> /\ todo' = Tail(todo) /\ opens' = opens
      /\ ItemAt(Here).op \in Definitions
  BY DEF PutDefinition, At
<1>3. TextsStay /\ todo \in Seq(Places)
  BY DefinitionBase DEF Base, TypeOK
<1>4. PICK s, t, d, l : /\ s = todo /\ t = files[g].text /\ d = cur.defs[g]
                        /\ l = files[g].last
  OBVIOUS
<1>5. Listed(s, g, d, t) /\ InTextOrder(s, g, d, l)
  BY <1>1, <1>2, <1>4 DEF Complete, Once, Ordered
<1>6. files[g] # NotRead /\ files'[g].text = t
  BY <1>2, <1>3, <1>4 DEF Once, TextsStay
<1>7. PICK f, node : f = Here[1] /\ node = <<f, Len(cur.defs[f]) + 1>>
                     /\ \E def \in Def : Adds(f, node, def)
  BY Defined
<1>8. PICK def \in Def : Adds(f, node, def)
  BY <1>7
<1>9. /\ def.byte = s[1][2] /\ def.by = program /\ def.name = ItemAt(Here).name
      /\ cur'.defs = [cur.defs EXCEPT ![f] = Append(cur.defs[f], def)]
      /\ f = s[1][1] /\ f \in Files
  BY <1>4, <1>7, <1>8 DEF Adds, Here
<1>10. cur.defs \in [Files -> Seq(Def)]
  BY BaseParts DEF Contexts
<1>11. CASE g # f
  <2>1. cur'.defs[g] = d
    BY <1>4, <1>9, <1>10, <1>11
  <2>2. Listed(Tail(s), g, d, t)
    BY <1>2, <1>3, <1>4, <1>5, <1>9, <1>11, TailListed
  <2> QED
    BY <1>2, <1>4, <1>6, <2>1, <2>2
<1>12. CASE g = f
  <2>1. cur'.defs[g] = Append(d, def) /\ d \in Seq(Def)
    BY <1>4, <1>9, <1>10, <1>12
  <2>2. l \in Nat
    BY <1>4, <1>6, BaseParts, FileOf
  <2>3. ItemAt(Here) = Items[t][def.byte + 1] /\ def.byte = Here[2]
    BY <1>4, <1>7, <1>9, <1>12 DEF ItemAt, Here
  <2>4. def.byte + 1 \in DefinedIn(t)
    <3>1. IsPlace(Here)
      BY <1>2, HereOf DEF Base
    <3>2. def.byte + 1 \in 1 .. Len(Items[t])
      BY <1>4, <1>7, <1>12, <2>3, <3>1 DEF IsPlace
    <3>3. DOMAIN Items[t] = 1 .. Len(Items[t])
      BY <1>4, <1>6, BaseParts, FileOf
    <3> QED
      BY <1>2, <2>3, <3>2, <3>3 DEF DefinedIn
  <2>5. def.by # 0
    BY <1>2, <1>9, BaseParts DEF Once, Working
  <2>6. Listed(Tail(s), g, Append(d, def), t)
    BY <1>2, <1>3, <1>4, <1>5, <1>9, <1>12, <2>1, <2>2, <2>3, <2>4, <2>5, AppendListed
  <2> QED
    BY <1>2, <1>4, <1>6, <2>1, <2>6
<1> QED
  BY <1>11, <1>12

LEMMA FopenComplete ==
  ASSUME Base, Once, Complete, NEW f \in Files, Fopen(f, Rest),
         todo # <<>> => ItemAt(Here).op = "include"
  PROVE  Complete'
<1>1. TypeOK
  BY BaseParts
<1>2. CASE /\ files[f] # NotRead
           /\ Opened(f, files[f].text, Rest)
           /\ UNCHANGED <<files, reading>>
  <2>1. files[f].text \in Texts
    BY <1>1, <1>2, FileOf
  <2>2. TextsStay /\ ErrorsStay
    BY <1>2 DEF TextsStay, ErrorsStay, FileHasError
  <2>3. files'[f].text = files[f].text
    BY <1>2
  <2> QED
    BY <1>2, <2>1, <2>2, <2>3, OpenedComplete
<1>3. CASE /\ files[f] = NotRead
           /\ docs[f] # Closed
           /\ files' = [files EXCEPT ![f] = NewFile(docs[f])]
           /\ Opened(f, docs[f], Rest)
           /\ UNCHANGED reading
  <2>1. docs[f] \in Texts /\ files \in [Files -> FileStates \cup {NotRead}]
    BY <1>1, <1>3 DEF TypeOK, Docs
  <2>2. TextsStay /\ files'[f].text = docs[f]
    BY <1>1, <1>3, <2>1, FileRead
  <2>3. ErrorsStay
    <3>1. \A g \in Files : g # f => files'[g] = files[g]
      BY <1>3, <2>1
    <3> QED
      BY <1>3, <3>1 DEF ErrorsStay, FileHasError
  <2> QED
    BY <1>3, <2>1, <2>2, <2>3, OpenedComplete
<1>4. CASE /\ files[f] = NotRead
           /\ docs[f] = Closed
           /\ reading' = f
           /\ pc' = "read"
           /\ UNCHANGED <<cur, files, todo, opens>>
  <2>1. TextsStay /\ (NoErrors' => NoErrors)
    BY <1>4 DEF TextsStay, NoErrors, FileHasError
  <2> QED
    BY <1>4, <2>1, CompleteStays
<1> QED
  BY <1>2, <1>3, <1>4 DEF Fopen

LEMMA CompleteInit == Init => Complete
BY DEF Init, Complete

LEMMA CompleteNext == SoundInv /\ Once /\ Meanings /\ Complete /\ [Next]_vars => Complete'
<1> SUFFICES ASSUME SoundInv, Once, Meanings, Complete, [Next]_vars PROVE Complete'
  OBVIOUS
<1>0. Base /\ Sound /\ TypeOK /\ (pc \in {"idle", "next", "open"} => todo = <<>>)
  BY BaseParts DEF SoundInv, Base, Located
<1>1. CASE \/ \E m \in Notifications : Update(m)
           \/ SkipEntry \/ CompileEntry \/ EndRun \/ UNCHANGED vars
  <2>1. UNCHANGED <<cur, files, opens>> /\ todo' = todo
    BY <1>0, <1>1 DEF Update, SkipEntry, CompileEntry, EndRun, vars
  <2>2. TextsStay /\ (NoErrors' => NoErrors)
    BY <2>1 DEF TextsStay, NoErrors, FileHasError
  <2> QED
    BY <1>0, <2>1, <2>2, CompleteStays
<1>2. CASE StartRun
  <2>1. \A g \in Files : opens'[g] = 0
    BY <1>2 DEF StartRun
  <2> QED
    BY <2>1 DEF Complete
<1>3. CASE OpenEntry
  <2>1. entry \in Files /\ Fopen(entry, Rest) /\ todo = <<>>
    BY <1>0, <1>3 DEF OpenEntry, Base, Located
  <2> QED
    BY <1>0, <2>1, FopenComplete
<1>4. CASE Include
  <2>1. /\ todo # <<>> /\ ItemAt(Here).op = "include" /\ Fopen(ItemAt(Here).file, Rest)
    BY <1>4 DEF Include, At
  <2>2. ItemAt(Here).file \in Files
    BY <1>0, <2>1, HereOf, ItemKinds DEF Base
  <2> QED
    BY <1>0, <2>1, <2>2, FopenComplete
<1>5. CASE ReadFile
  <2>1. /\ pc = "read" /\ reading \in Files /\ Disk[reading] \in Texts
        /\ Opened(reading, Disk[reading], Rest)
        /\ files' = [files EXCEPT ![reading] = NewFile(Disk[reading])]
        /\ files[reading] = NotRead
    BY <1>0, <1>5, SymbolsAssumption DEF ReadFile, Base, Located
  <2>2. TextsStay /\ files'[reading].text = Disk[reading]
    BY <1>0, <2>1, FileRead
  <2>3. ErrorsStay
    <3>1. \A g \in Files : g # reading => files'[g] = files[g]
      BY <1>0, <2>1 DEF TypeOK
    <3> QED
      BY <2>1, <3>1 DEF ErrorsStay, FileHasError
  <2>4. todo # <<>> => ItemAt(Here).op = "include"
    BY <2>1 DEF Meanings
  <2> QED
    BY <1>0, <2>1, <2>2, <2>3, <2>4, OpenedComplete
<1>6. CASE PutDefinition
  BY <1>0, <1>6, DefinitionComplete
<1>7. CASE IncludeAgain \/ PutGenerated \/ PutReferences \/ Annotate
  <2>1. /\ todo # <<>> /\ todo' = Tail(todo) /\ opens' = opens
        /\ ItemAt(Here).op \notin Definitions
    BY <1>7 DEF IncludeAgain, PutGenerated, PutReferences, Annotate, At, Definitions, References
  <2>2. TextsStay
    BY <1>0, <1>7, AgainBase, GeneratedBase, ReferencesBase, AnnotateBase
  <2>3. NoErrors' => NoErrors
    <3>1. CASE IncludeAgain \/ PutReferences
      <4>1. files' = files
        BY <3>1 DEF IncludeAgain, PutReferences
      <4> QED
        BY <4>1 DEF NoErrors, FileHasError
    <3>2. CASE PutGenerated \/ Annotate
      BY <1>0, <3>2, AssemblerErrors, NoErrorsBefore
    <3> QED
      BY <1>7, <3>1, <3>2
  <2>4. ASSUME NEW g \in Files
        PROVE  /\ Len(cur'.defs[g]) = Len(cur.defs[g])
               /\ \A k \in 1 .. Len(cur.defs[g]) :
                    /\ cur'.defs[g][k].name = cur.defs[g][k].name
                    /\ cur'.defs[g][k].by = cur.defs[g][k].by
                    /\ cur'.defs[g][k].byte = cur.defs[g][k].byte
    <3>1. CASE Annotate
      BY <1>0, <3>1, Annotated
    <3>2. CASE ~Annotate
      <4>1. cur' = cur
        BY <1>7, <3>2 DEF IncludeAgain, PutGenerated, PutReferences
      <4> QED
        BY <4>1
    <3> QED
      BY <3>1, <3>2
  <2> QED
    BY <1>0, <2>1, <2>2, <2>3, <2>4, CompleteStays
<1>8. CASE ReportError \/ ChessReport \/ (ReadFailure /\ todo # <<>>)
  <2>1. todo # <<>> /\ files' = [files EXCEPT ![Here[1]].err = TRUE]
    BY <1>8 DEF ReportError, ChessReport, MarkError, ReadFailure, At
  <2>2. PICK f, h : f = Here[1] /\ h = files[f]
    OBVIOUS
  <2>3. f \in Files /\ h \in FileStates
    BY <1>0, <2>1, <2>2, HereOf, FileOf DEF Base
  <2>4. PICK n : n = [h EXCEPT !.err = TRUE]
    OBVIOUS
  <2>5. n \in FileStates
    BY <2>3, <2>4, ErrorType
  <2>6. n.err = TRUE
    BY <2>3, <2>4 DEF FileStates
  <2>7. files'[f] = n
    BY <1>0, <2>1, <2>2, <2>3, <2>4 DEF TypeOK
  <2>8. n # NotRead
    BY <2>5, SymbolsAssumption
  <2>9. ~NoErrors'
    BY <2>3, <2>6, <2>7, <2>8 DEF NoErrors, FileHasError
  <2> QED
    BY <2>9 DEF Complete
<1>9. CASE ReadFailure /\ todo = <<>>
  <2>1. UNCHANGED <<cur, files, opens>> /\ todo' = todo
    BY <1>9 DEF ReadFailure
  <2>2. TextsStay /\ (NoErrors' => NoErrors)
    BY <2>1 DEF TextsStay, NoErrors, FileHasError
  <2> QED
    BY <1>0, <2>1, <2>2, CompleteStays
<1>10. CASE EndCompile
  <2>1. UNCHANGED <<files, opens>> /\ todo' = todo
    BY <1>10 DEF EndCompile
  <2>2. TextsStay /\ (NoErrors' => NoErrors)
    BY <2>1 DEF TextsStay, NoErrors, FileHasError
  <2>3. ASSUME NoErrors', NEW g \in Files
        PROVE  cur'.defs[g] = cur.defs[g]
    <3>1. cur'.defs[g] = cur.defs[g] \o Carried(g)
      BY <1>0, <1>10, Ended
    <3>2. Carried(g) = <<>>
      BY <2>2, <2>3, NoneCarried
    <3>3. PICK d \in Seq(Def) : d = cur.defs[g]
      BY <1>0, BaseParts, DefsOf
    <3> QED
      BY <3>1, <3>2, <3>3
  <2> QED
    BY <1>0, <2>1, <2>2, <2>3, CompleteStays
<1> QED
  BY <1>1, <1>2, <1>3, <1>4, <1>5, <1>6, <1>7, <1>8, <1>9, <1>10 DEF Next

\* The references a of a file that the assembler has handed over, the places in
\* s, and the list r of the references that are connected
NoneOf(a, g) == \A k \in 1 .. Len(a) : a[k].file # g

EachOnce(r) == \A k, l \in 1 .. Len(r) : r[k].byte = r[l].byte => k = l

HandedOnce(a, s, g) ==
    /\ \A k, l \in 1 .. Len(a) :
         a[k].file = g /\ a[l].file = g /\ a[k].byte = a[l].byte => k = l
    /\ \A k \in 1 .. Len(a) : \A i \in 1 .. Len(s) :
         a[k].file = g /\ s[i][1] = g => a[k].byte < s[i][2]

\* One compilation has handed over the references of g, or will do so.
ByOne(a, s, g, r) == HandedOnce(a, s, g) /\ (r = <<>> \/ (NoneOf(a, g) /\ Gone(s, g)))

Single ==
    \A g \in Files :
      /\ opens[g] = 0 => cur.refs[g] = <<>> /\ (Working => NoneOf(asm.refs, g))
      /\ opens[g] = 1 => /\ EachOnce(cur.refs[g])
                         /\ Working => ByOne(asm.refs, todo, g, cur.refs[g])

LEMMA TailByOne ==
  ASSUME NEW a, NEW g, NEW r
  PROVE  /\ \A s \in Seq(Places) : s # <<>> /\ ByOne(a, s, g, r) => ByOne(a, Tail(s), g, r)
         /\ \A s : ByOne(a, s, g, r) => ByOne(a, <<>>, g, r)
         /\ ByOne(<<>>, <<>>, g, r)
<1>1. ASSUME NEW s \in Seq(Places), s # <<>>, ByOne(a, s, g, r)
      PROVE  ByOne(a, Tail(s), g, r)
  <2>1. PICK t : t = Tail(s)
    OBVIOUS
  <2>2. /\ Len(s) \in Nat /\ Len(t) \in Nat
        /\ \A i \in 1 .. Len(t) : i + 1 \in 1 .. Len(s) /\ t[i] = s[i + 1]
    BY <1>1, <2>1, TailOf
  <2>3. HandedOnce(a, t, g)
    BY <1>1, <2>2 DEF ByOne, HandedOnce
  <2>4. Gone(s, g) => Gone(t, g)
    BY <2>2 DEF Gone
  <2> QED
    BY <1>1, <2>1, <2>3, <2>4 DEF ByOne
<1>2. \A s : ByOne(a, s, g, r) => ByOne(a, <<>>, g, r)
  BY DEF ByOne, HandedOnce, Gone
<1>3. ByOne(<<>>, <<>>, g, r)
  BY DEF ByOne, HandedOnce, NoneOf, Gone
<1> QED
  BY <1>1, <1>2, <1>3

\* The item in hand is a reference in file g, or in another one.
LEMMA AppendByOne ==
  ASSUME NEW a \in Seq(MacroRef \cup LabelRef), NEW s \in Seq(Places), s # <<>>,
         NEW q \in MacroRef \cup LabelRef, q.file = s[1][1], q.byte = s[1][2],
         NEW g, NEW r, Ascends(s, g), ByOne(a, s, g, r)
  PROVE  ByOne(Append(a, q), Tail(s), g, r)
<1>1. PICK c, t : c = Append(a, q) /\ t = Tail(s)
  OBVIOUS
<1>2. /\ Len(a) \in Nat
      /\ Len(c) = Len(a) + 1
      /\ \A k \in 1 .. Len(a) : c[k] = a[k]
      /\ c[Len(a) + 1] = q
      /\ \A k \in 1 .. Len(c) : k \in 1 .. Len(a) \/ k = Len(a) + 1
  BY <1>1, AppendOf
<1>3. ByOne(a, t, g, r) /\ 1 \in 1 .. Len(s)
  BY <1>1, TailByOne, TailOf
<1>4. \A k \in 1 .. Len(a) : a[k].byte \in Nat /\ q.byte \in Nat
  BY RefParts
<1>5. \A k \in 1 .. Len(a) : a[k].file = g /\ q.file = g => a[k].byte < q.byte
  BY <1>3 DEF ByOne, HandedOnce
<1>6. ASSUME NEW i \in 1 .. Len(t), t[i][1] = g, q.file = g
      PROVE  q.byte < t[i][2]
  <2>1. /\ Len(s) \in Nat /\ Len(t) \in Nat
        /\ i + 1 \in 1 .. Len(s) /\ t[i] = s[i + 1] /\ 1 < i + 1
    BY <1>1, TailOf
  <2> QED
    BY <1>3, <1>6, <2>1 DEF Ascends
<1>7. HandedOnce(c, t, g)
  <2>1. ASSUME NEW k \in 1 .. Len(c), NEW l \in 1 .. Len(c),
               c[k].file = g, c[l].file = g, c[k].byte = c[l].byte
        PROVE  k = l
    <3>1. CASE k \in 1 .. Len(a) /\ l \in 1 .. Len(a)
      BY <1>2, <1>3, <2>1, <3>1 DEF ByOne, HandedOnce
    <3>2. CASE k \in 1 .. Len(a) /\ l = Len(a) + 1
      BY <1>2, <1>4, <1>5, <2>1, <3>2
    <3>3. CASE l \in 1 .. Len(a) /\ k = Len(a) + 1
      BY <1>2, <1>4, <1>5, <2>1, <3>3
    <3> QED
      BY <1>2, <3>1, <3>2, <3>3
  <2>2. ASSUME NEW k \in 1 .. Len(c), NEW i \in 1 .. Len(t), c[k].file = g, t[i][1] = g
        PROVE  c[k].byte < t[i][2]
    <3>1. CASE k \in 1 .. Len(a)
      BY <1>2, <1>3, <2>2, <3>1 DEF ByOne, HandedOnce
    <3>2. CASE k = Len(a) + 1
      BY <1>2, <1>6, <2>2, <3>2
    <3> QED
      BY <1>2, <3>1, <3>2
  <2> QED
    BY <2>1, <2>2 DEF HandedOnce
<1>8. r = <<>> \/ (NoneOf(c, g) /\ Gone(t, g))
  <2>1. ASSUME r # <<>>
        PROVE  NoneOf(c, g) /\ Gone(t, g)
    <3>1. NoneOf(a, g) /\ Gone(s, g) /\ Gone(t, g)
      BY <1>3, <2>1 DEF ByOne
    <3>2. q.file # g
      BY <1>3, <3>1 DEF Gone
    <3> QED
      BY <1>2, <3>1, <3>2 DEF NoneOf
  <2> QED
    BY <2>1
<1> QED
  BY <1>1, <1>7, <1>8 DEF ByOne

\* Steps that open no file, hand over no reference and connect none
LEMMA SingleStays ==
  ASSUME Base, Single, opens' = opens, cur'.refs = cur.refs,
         Working' =>
           \/ asm'.refs = <<>> /\ todo' = <<>>
           \/ /\ Working /\ asm'.refs = asm.refs
              /\ todo' = todo \/ todo' = <<>> \/ (todo # <<>> /\ todo' = Tail(todo))
  PROVE  Single'
<1> SUFFICES ASSUME NEW g \in Files
             PROVE  /\ opens[g] = 0 => cur.refs[g] = <<>> /\ (Working' => NoneOf(asm'.refs, g))
                    /\ opens[g] = 1 =>
                         /\ EachOnce(cur.refs[g])
                         /\ Working' => ByOne(asm'.refs, todo', g, cur.refs[g])
  BY DEF Single, NoneOf, EachOnce, ByOne, HandedOnce, Gone
<1>1. PICK s, u, a, c, r : /\ s = todo /\ u = todo' /\ a = asm.refs /\ c = asm'.refs
                           /\ r = cur.refs[g]
  OBVIOUS
<1>2. s \in Seq(Places)
  BY <1>1 DEF Base, TypeOK
<1>3. /\ opens[g] = 0 => r = <<>> /\ (Working => NoneOf(a, g))
      /\ opens[g] = 1 => EachOnce(r) /\ (Working => ByOne(a, s, g, r))
  BY <1>1 DEF Single
<1>4. NoneOf(<<>>, g)
  BY DEF NoneOf
<1>5. Working' /\ opens[g] = 0 => NoneOf(c, g)
  BY <1>1, <1>3, <1>4
<1>6. ASSUME Working', opens[g] = 1
      PROVE  ByOne(c, u, g, r)
  <2>1. CASE c = <<>> /\ u = <<>>
    BY <2>1, TailByOne
  <2>2. CASE /\ Working /\ c = a
             /\ u = s \/ u = <<>> \/ (s # <<>> /\ u = Tail(s))
    <3>1. ByOne(a, s, g, r)
      BY <1>3, <1>6, <2>2
    <3> QED
      BY <1>2, <2>2, <3>1, TailByOne
  <2> QED
    BY <1>1, <1>6, <2>1, <2>2
<1> QED
  BY <1>1, <1>3, <1>5, <1>6

\* A file is opened: the first time it has no references yet.
LEMMA OpenedSingle ==
  ASSUME Base, Once, Single, Working, NEW f \in Files, NEW t \in Texts, Opened(f, t, Rest),
         asm'.refs = asm.refs
  PROVE  Single'
<1> SUFFICES ASSUME NEW g \in Files
             PROVE  /\ opens'[g] = 0 => cur'.refs[g] = <<>> /\ NoneOf(asm'.refs, g)
                    /\ opens'[g] = 1 => /\ EachOnce(cur'.refs[g])
                                        /\ ByOne(asm'.refs, todo', g, cur'.refs[g])
  BY DEF Single, NoneOf, EachOnce, ByOne, HandedOnce, Gone
<1>1. /\ cur'.refs = cur.refs
      /\ opens \in [Files -> Nat] /\ opens' = [opens EXCEPT ![f] = @ + 1]
      /\ todo \in Seq(Places)
  BY OpenedContext, BaseParts DEF Opened, TypeOK
<1>2. PICK s, rest, u, a, r : /\ s = todo /\ rest = Rest /\ u = PlacesIn(f, t) \o rest
                              /\ a = asm.refs /\ r = cur.refs[g]
  OBVIOUS
<1>3. todo' = u /\ asm'.refs = a /\ cur'.refs[g] = r
  BY <1>1, <1>2 DEF Opened
<1>4. /\ opens[g] = 0 => r = <<>> /\ NoneOf(a, g)
      /\ opens[g] = 1 => EachOnce(r) /\ ByOne(a, s, g, r)
  BY <1>2 DEF Single
<1>5. CASE g = f
  <2>1. opens'[g] # 0 /\ (opens'[g] = 1 => opens[g] = 0)
    BY <1>1, <1>5
  <2>2. opens[g] = 0 => EachOnce(r) /\ ByOne(a, u, g, r)
    BY <1>4 DEF EachOnce, ByOne, HandedOnce, NoneOf
  <2> QED
    BY <1>3, <2>1, <2>2
<1>6. CASE g # f
  <2>1. opens'[g] = opens[g]
    BY <1>1, <1>6
  <2>2. ASSUME opens[g] = 1
        PROVE  ByOne(a, u, g, r)
    <3>1. rest \in Seq(Places) /\ ByOne(a, rest, g, r)
      <4>1. CASE todo = <<>>
        BY <1>2, <1>4, <2>2, <4>1 DEF Rest
      <4>2. CASE todo # <<>>
        BY <1>1, <1>2, <1>4, <2>2, <4>2, TailOf, TailByOne DEF Rest
      <4> QED
        BY <4>1, <4>2
    <3>2. Gone(rest, g) => Gone(u, g)
      BY <1>2, <1>6, <3>1, OpenOrder
    <3>3. HandedOnce(a, u, g)
      <4>1. PICK p : p = PlacesIn(f, t)
        OBVIOUS
      <4>2. p \in Seq(Places) /\ \A k \in 1 .. Len(p) : p[k][1] = f
        BY <4>1, PlacesInOf
      <4>3. \A i \in 1 .. Len(u) : u[i][1] = g => \E k \in 1 .. Len(rest) : u[i] = rest[k]
        BY <1>2, <1>6, <3>1, <4>1, <4>2, JoinElements
      <4> QED
        BY <3>1, <4>3 DEF ByOne, HandedOnce
    <3> QED
      BY <3>1, <3>2, <3>3 DEF ByOne
  <2> QED
    BY <1>3, <1>4, <2>1, <2>2
<1> QED
  BY <1>5, <1>6

LEMMA FopenSingle ==
  ASSUME Base, Once, Single, NEW f \in Files, pc \in {"open", "asm"}, Fopen(f, Rest)
  PROVE  Single'
<1>1. TypeOK /\ Working
  BY BaseParts DEF Working
<1>2. asm'.refs = asm.refs
  <2>1. \E S : asm' = [asm EXCEPT !.included = S]
    BY DEF Fopen
  <2> QED
    BY <1>1, <2>1 DEF TypeOK
<1>3. CASE files[f] # NotRead /\ Opened(f, files[f].text, Rest)
  <2>1. files[f].text \in Texts
    BY <1>1, <1>3, FileOf
  <2> QED
    BY <1>1, <1>2, <1>3, <2>1, OpenedSingle
<1>4. CASE docs[f] # Closed /\ Opened(f, docs[f], Rest)
  <2>1. docs[f] \in Texts
    BY <1>1, <1>4 DEF TypeOK, Docs
  <2> QED
    BY <1>1, <1>2, <1>4, <2>1, OpenedSingle
<1>5. CASE UNCHANGED <<cur, files, todo, opens>>
  BY <1>1, <1>2, <1>5, SingleStays
<1> QED
  BY <1>3, <1>4, <1>5 DEF Fopen

\* A reference is handed over, for one byte or for two.
LEMMA ReferencesSingle ==
  ASSUME Base, Once, Single, PutReferences
  PROVE  Single'
<1>1. /\ pc = "asm" /\ pc' = "asm" /\ todo # <<>> /\ todo' = Tail(todo)
      /\ UNCHANGED <<cur, opens>>
  BY DEF PutReferences, At
<1>2. Working /\ asm \in AsmStates /\ todo \in Seq(Places)
  BY <1>1, BaseParts DEF Working, TypeOK
<1>3. PICK q : q = Reference(Here, ItemAt(Here).name)
  OBVIOUS
<1>4. /\ q \in MacroRef \cup LabelRef
      /\ asm'.refs = asm.refs \/ asm'.refs = Append(asm.refs, q)
  BY <1>3, Handed
<1>5. q.file = todo[1][1] /\ q.byte = todo[1][2]
  BY <1>3 DEF Reference, Here
<1>6. CASE asm'.refs = asm.refs
  BY <1>1, <1>2, <1>6, SingleStays
<1>7. CASE asm'.refs = Append(asm.refs, q)
  <2> SUFFICES ASSUME NEW g \in Files
               PROVE  /\ opens[g] = 0 => cur.refs[g] = <<>> /\ NoneOf(asm'.refs, g)
                      /\ opens[g] = 1 => /\ EachOnce(cur.refs[g])
                                         /\ ByOne(asm'.refs, todo', g, cur.refs[g])
    BY <1>1 DEF Single, NoneOf, EachOnce, ByOne, HandedOnce, Gone
  <2>1. PICK s, u, a, c, r : /\ s = todo /\ u = todo' /\ a = asm.refs /\ c = asm'.refs
                             /\ r = cur.refs[g]
    OBVIOUS
  <2>2. /\ s \in Seq(Places) /\ s # <<>> /\ u = Tail(s) /\ c = Append(a, q)
        /\ a \in Seq(MacroRef \cup LabelRef)
    BY <1>1, <1>2, <1>7, <2>1, AsmOf
  <2>3. /\ opens[g] = 0 => r = <<>> /\ NoneOf(a, g) /\ Gone(s, g)
        /\ opens[g] = 1 => EachOnce(r) /\ ByOne(a, s, g, r) /\ Ascends(s, g)
    BY <1>2, <2>1 DEF Single, Once, Unopened, Ordered, InTextOrder
  <2>4. ASSUME NoneOf(a, g), Gone(s, g)
        PROVE  NoneOf(c, g)
    <3>1. q.file # g
      BY <1>5, <2>1, <2>2, <2>4, TailOf DEF Gone
    <3>2. /\ \A k \in 1 .. Len(c) : k \in 1 .. Len(a) \/ k = Len(a) + 1
          /\ \A k \in 1 .. Len(a) : c[k] = a[k]
          /\ c[Len(a) + 1] = q
      BY <1>4, <2>2, AppendOf
    <3> QED
      BY <2>4, <3>1, <3>2 DEF NoneOf
  <2>5. opens[g] = 1 => ByOne(c, u, g, r)
    BY <1>4, <1>5, <2>1, <2>2, <2>3, AppendByOne
  <2> QED
    BY <2>1, <2>3, <2>4, <2>5
<1> QED
  BY <1>4, <1>6, <1>7

\* What is connected has each reference once.
LEMMA ConnectedOnce ==
  ASSUME Base, NEW f \in Files
  PROVE  /\ NoneOf(asm.refs, f) => Connected(f) = <<>>
         /\ \A s : HandedOnce(asm.refs, s, f) => EachOnce(Connected(f))
<1> DEFINE T == {k \in DOMAIN asm.refs : /\ asm.refs[k].file = f
                                         /\ Resolve(asm.refs[k]) # None}
           s == Kept(asm.refs, T)
           node(k) == [byte |-> s[k].byte, to |-> Resolve(s[k]), by |-> program]
<1>1. Connected(f) = [k \in 1 .. Len(s) |-> node(k)]
  BY DEF Connected
<1>2. \A k : node(k).byte = s[k].byte
  OBVIOUS
<1>3. PICK a \in Seq(MacroRef \cup LabelRef), n \in Nat : a = asm.refs /\ n = Len(a)
  BY BaseParts, AsmOf
<1>4. T \in SUBSET (1 .. n) /\ \A i \in T : a[i].file = f
  BY <1>3
<1>5. s = [k \in 1 .. Cardinality(T) |-> a[Nth(T, k)]]
  BY <1>3 DEF Kept
<1> HIDE DEF T, node
<1>6. PICK m \in Nat : m = Cardinality(T)
  BY <1>3, <1>4, UpToInType
<1>7. Len(s) = m /\ \A k \in 1 .. m : s[k] = a[Nth(T, k)]
  BY <1>5, <1>6
<1> HIDE DEF s
<1>8. /\ DOMAIN Connected(f) = 1 .. m /\ Len(Connected(f)) = m
      /\ \A k \in 1 .. m : Connected(f)[k].byte = a[Nth(T, k)].byte
  BY <1>1, <1>2, <1>7
<1>9. \A k \in 1 .. m : Nth(T, k) \in T /\ Cardinality(UpToIn(T, Nth(T, k))) = k
  BY <1>3, <1>4, <1>6, NthOf
<1>10. ASSUME NoneOf(asm.refs, f)
       PROVE  Connected(f) = <<>>
  <2>1. T = {}
    BY <1>3, <1>4, <1>10 DEF NoneOf
  <2>2. m = 0
    BY <1>6, <2>1, FS_EmptySet
  <2> QED
    BY <1>1, <1>7, <2>2
<1>11. ASSUME NEW u, HandedOnce(asm.refs, u, f)
       PROVE  EachOnce(Connected(f))
  <2>1. ASSUME NEW k \in 1 .. m, NEW l \in 1 .. m,
               Connected(f)[k].byte = Connected(f)[l].byte
        PROVE  k = l
    <3>1. PICK i \in T, j \in T : i = Nth(T, k) /\ j = Nth(T, l)
      BY <1>9
    <3>2. a[i].byte = a[j].byte
      BY <1>8, <2>1, <3>1
    <3>3. i \in 1 .. Len(a) /\ j \in 1 .. Len(a) /\ a[i].file = f /\ a[j].file = f
      BY <1>3, <1>4
    <3>4. i = j
      BY <1>3, <1>11, <3>2, <3>3 DEF HandedOnce
    <3> QED
      BY <1>9, <3>1, <3>4
  <2> QED
    BY <1>8, <2>1 DEF EachOnce
<1> QED
  BY <1>10, <1>11

\* The references of a file are connected when the compilation that has handed
\* them over ends; before and after it there are none.
LEMMA EndSingle ==
  ASSUME Base, Sound, Once, Single, EndCompile
  PROVE  Single'
<1>1. Working /\ ~Working' /\ pc = "asm" /\ opens' = opens
  BY DEF EndCompile, Working
<1> SUFFICES ASSUME NEW g \in Files
             PROVE  /\ opens[g] = 0 => cur'.refs[g] = <<>>
                    /\ opens[g] = 1 => EachOnce(cur'.refs[g])
  BY <1>1 DEF Single, EachOnce
<1>2. cur'.refs[g] = cur.refs[g] \o Connected(g)
  BY Ended
<1>3. PICK r \in Seq(Ref), c \in Seq(Ref) : r = cur.refs[g] /\ c = Connected(g)
  BY <1>1, BaseParts, DefsOf, ConnectedOf
<1>4. /\ opens[g] = 0 => r = <<>> /\ c = <<>>
      /\ opens[g] = 1 => /\ EachOnce(r) /\ EachOnce(c)
                         /\ r = <<>> \/ c = <<>>
  BY <1>1, <1>3, ConnectedOnce DEF Single, ByOne
<1>5. (r = <<>> => r \o c = c) /\ (c = <<>> => r \o c = r)
  OBVIOUS
<1> QED
  BY <1>2, <1>3, <1>4, <1>5

LEMMA SingleInit == Init => Single
<1> SUFFICES ASSUME Init PROVE Single
  OBVIOUS
<1>1. \A f \in Files : cur.refs[f] = <<>> /\ opens[f] = 0
  BY DEF Init, EmptyContext
<1>2. ~Working
  BY DEF Init, Working
<1> QED
  BY <1>1, <1>2 DEF Single

LEMMA SingleNext == SoundInv /\ Once /\ Single /\ [Next]_vars => Single'
<1> SUFFICES ASSUME SoundInv, Once, Single, [Next]_vars PROVE Single'
  OBVIOUS
<1>0. Base /\ Sound /\ TypeOK /\ asm \in AsmStates
  BY BaseParts DEF SoundInv
<1>1. CASE (\E m \in Notifications : Update(m)) \/ UNCHANGED vars
  <2>1. UNCHANGED <<cur, opens, pc, asm, todo>>
    BY <1>1 DEF Update, vars
  <2> QED
    BY <1>0, <2>1, SingleStays DEF Working
<1>2. CASE StartRun
  <2>1. /\ cur' = [EmptyContext EXCEPT !.nodes = OpenDocs(docs)]
        /\ opens' = [f \in Files |-> 0] /\ pc' = "next"
    BY <1>2 DEF StartRun
  <2>2. \A f \in Files : cur'.refs[f] = <<>> /\ opens'[f] = 0
    BY <2>1 DEF EmptyContext
  <2> QED
    BY <2>1, <2>2 DEF Single, Working
<1>3. CASE SkipEntry \/ EndRun
  <2>1. UNCHANGED <<cur, opens>> /\ ~Working'
    BY <1>3 DEF SkipEntry, EndRun, Working
  <2> QED
    BY <1>0, <2>1, SingleStays
<1>4. CASE CompileEntry
  <2>1. UNCHANGED <<cur, opens>> /\ todo' = <<>> /\ asm'.refs = <<>>
    BY <1>4 DEF CompileEntry, NewAsm
  <2> QED
    BY <1>0, <2>1, SingleStays
<1>5. CASE OpenEntry
  <2>1. pc = "open" /\ entry \in Files /\ Fopen(entry, Rest)
    BY <1>0, <1>5 DEF OpenEntry, Base, Located
  <2> QED
    BY <1>0, <2>1, FopenSingle
<1>6. CASE Include
  <2>1. /\ pc = "asm" /\ todo # <<>> /\ ItemAt(Here).op = "include"
        /\ Fopen(ItemAt(Here).file, Rest)
    BY <1>6 DEF Include, At
  <2>2. ItemAt(Here).file \in Files
    BY <1>0, <2>1, HereOf, ItemKinds DEF Base
  <2> QED
    BY <1>0, <2>1, <2>2, FopenSingle
<1>7. CASE ReadFile
  <2>1. /\ pc = "read" /\ reading \in Files /\ Disk[reading] \in Texts
        /\ Opened(reading, Disk[reading], Rest) /\ asm' = asm
    BY <1>0, <1>7, SymbolsAssumption DEF ReadFile, Base, Located
  <2> QED
    BY <1>0, <2>1, OpenedSingle DEF Working
<1>8. CASE \/ IncludeAgain \/ ReadFailure \/ PutGenerated \/ PutDefinition \/ Annotate
           \/ ReportError \/ ChessReport
  <2>1. /\ Working /\ opens' = opens
        /\ todo' = <<>> \/ (todo # <<>> /\ todo' = Tail(todo))
    BY <1>8 DEF IncludeAgain, ReadFailure, PutGenerated, PutDefinition, Annotate,
                ReportError, ChessReport, MarkError, At, Working
  <2>2. cur'.refs = cur.refs
    <3>1. CASE PutDefinition
      BY <1>0, <3>1, Defined DEF Adds
    <3>2. CASE Annotate
      BY <1>0, <3>2, Annotated
    <3>3. CASE IncludeAgain \/ ReadFailure \/ PutGenerated \/ ReportError \/ ChessReport
      <4>1. cur' = cur
        BY <3>3 DEF IncludeAgain, ReadFailure, PutGenerated, ReportError, ChessReport, MarkError
      <4> QED
        BY <4>1
    <3> QED
      BY <1>8, <3>1, <3>2, <3>3
  <2>3. asm'.refs = asm.refs
    <3>1. CASE PutDefinition
      BY <1>0, <3>1, Defined DEF Adds
    <3>2. CASE PutGenerated \/ Annotate
      <4>1. \/ asm' = [asm EXCEPT !.last = None]
            \/ \E e : asm' = [asm EXCEPT !.last = None, !.enum = e]
        BY <3>2 DEF PutGenerated, Annotate
      <4> QED
        BY <1>0, <4>1 DEF AsmStates
    <3>3. CASE IncludeAgain \/ ReadFailure \/ ReportError \/ ChessReport
      <4>1. asm' = asm
        BY <3>3 DEF IncludeAgain, ReadFailure, ReportError, ChessReport, MarkError
      <4> QED
        BY <4>1
    <3> QED
      BY <1>8, <3>1, <3>2, <3>3
  <2> QED
    BY <1>0, <2>1, <2>2, <2>3, SingleStays
<1>9. CASE PutReferences
  BY <1>0, <1>9, ReferencesSingle
<1>10. CASE EndCompile
  BY <1>0, <1>10, EndSingle
<1> QED
  BY <1>1, <1>2, <1>3, <1>4, <1>5, <1>6, <1>7, <1>8, <1>9, <1>10 DEF Next

\* After a run without errors the symbols of a file that was opened once are the
\* definitions of its content, the last one first, each once, and each of its
\* references is there once (buxn_asm_put_symbol, and buxn_ls_analyze, which
\* connects the references after every entry).
THEOREM AlwaysListedOnce == Spec => []ListsOnce
<1>1. SoundInv /\ Once /\ Complete /\ Single => ListsOnce
  <2> SUFFICES ASSUME SoundInv, Once, Complete, Single, pc = "idle", NoErrors,
                      NEW f \in Files, Unshared(f)
               PROVE  /\ DocSymbols(f) = Declared(files[f].text)
                      /\ \A k, l \in DOMAIN cur.refs[f] :
                           cur.refs[f][k].byte = cur.refs[f][l].byte => k = l
    BY DEF ListsOnce
  <2>1. Base /\ cur \in Contexts /\ TypeOK /\ todo = <<>>
    BY BaseParts DEF SoundInv, Base, Located
  <2>2. files[f] # NotRead /\ opens[f] = 1
    BY DEF Once, Unshared
  <2>3. Listed(<<>>, f, cur.defs[f], files[f].text)
    BY <2>1, <2>2 DEF Complete
  <2>4. files[f].text \in Texts
    BY <2>1, <2>2, FileOf
  <2>5. DocSymbols(f) = Declared(files[f].text)
    BY <2>1, <2>3, <2>4, ListedIsDeclared
  <2>6. DOMAIN cur.refs[f] = 1 .. Len(cur.refs[f])
    BY <2>1, DefsOf
  <2>7. EachOnce(cur.refs[f])
    BY <2>2 DEF Single
  <2> QED
    BY <2>5, <2>6, <2>7 DEF EachOnce
<1> QED
  BY <1>1, SoundInit, SoundNext, OnceInit, OnceNext, UnmixedInit, UnmixedNext,
     MeaningsInit, MeaningsNext,
     CompleteInit, CompleteNext, SingleInit, SingleNext, PTL DEF Spec
=============================================================================
