--------------------------- MODULE SessionProofs ---------------------------
(***************************************************************************)
(* Theorems about Session, for any set of documents, contents, reports and *)
(* analyses.                                                               *)
(***************************************************************************)
EXTENDS Session, WorkspaceProofs, FiniteSetTheorems, TLAPS

\* What the program counter of an analysis says about its local variables r
LocalOK(r) ==
    /\ r.pc = "idle" => r = IdleJob
    /\ r.pc # "idle" => r.qi >= 1
    /\ r.pc \in {"read", "include", "lib", "emit"} => r.entry \in Files
    /\ r.pc = "lib" => r.lib \in Libs
    /\ r.pc # "unpublish" => r.done = {}

TypeInv == TypeOK /\ \A j \in Jobs : LocalOK(jobs[j])

-----------------------------------------------------------------------------
\* An order of a set of documents is a sequence of files.
LEMMA OrdersType ==
    ASSUME NEW S \in SUBSET Files
    PROVE  Orders(S) \subseteq Seq(Files)
<1>1. IsFiniteSet(S)
  BY SessionAssumption, FS_Subset DEF Uris
<1>2. Cardinality(S) \in Nat
  BY <1>1, FS_CardinalityType
<1>3. QED
  BY <1>2 DEF Orders

\* Sorting returns as many diagnostics as it is given.
LEMMA SortedType ==
    ASSUME NEW s \in Seq(Diag), NEW t \in Sorted(s)
    PROVE  t \in Seq(Diag) /\ Len(t) = Len(s)
<1>1. t \in [1 .. Len(s) -> {s[k] : k \in 1 .. Len(s)}]
  BY DEF Sorted
<1>2. Len(s) \in Nat
  OBVIOUS
<1>3. {s[k] : k \in 1 .. Len(s)} \subseteq Diag
  OBVIOUS
<1>4. QED
  BY <1>1, <1>2, <1>3

\* Moving on to the next entry of the queue
LEMMA NextEntryType ==
    ASSUME NEW r \in JobStates
    PROVE  /\ [r EXCEPT !.pc = "next", !.qi = @ + 1] \in JobStates
           /\ r.pc # "unpublish" /\ LocalOK(r) => LocalOK([r EXCEPT !.pc = "next", !.qi = @ + 1])
<1>1. r.qi \in Nat /\ r.qi + 1 \in Nat
  BY DEF JobStates
<1>2. ASSUME NEW q \in Nat
      PROVE  [r EXCEPT !.pc = "next", !.qi = q] \in JobStates
  BY DEF JobStates, Pcs
<1>3. [r EXCEPT !.pc = "next", !.qi = @ + 1] = [r EXCEPT !.pc = "next", !.qi = r.qi + 1]
  OBVIOUS
<1>4. [r EXCEPT !.pc = "next", !.qi = @ + 1] \in JobStates
  BY <1>1, <1>2, <1>3
<1>5. r.pc # "unpublish" /\ LocalOK(r) => LocalOK([r EXCEPT !.pc = "next", !.qi = r.qi + 1])
  BY <1>1 DEF JobStates, LocalOK
<1>6. QED
  BY <1>3, <1>4, <1>5

\* A step of one analysis keeps the local variables of all of them in order.
LEMMA BecomeOK ==
    ASSUME TypeInv, NEW j \in Jobs, NEW r \in JobStates, LocalOK(r), Become(j, r)
    PROVE  /\ jobs' \in [Jobs -> JobStates]
           /\ \A k \in Jobs : LocalOK(jobs[k])'
           /\ jobs'[j] = r
           /\ \A k \in Jobs \ {j} : jobs'[k] = jobs[k]
BY DEF Become, TypeInv, TypeOK, LocalOK

-----------------------------------------------------------------------------
\* Type correctness is inductive, together with LocalOK: the local variables of
\* an analysis are only meaningful where its program counter says so.
LEMMA TypeInit == Init => TypeInv
<1> SUFFICES ASSUME Init PROVE TypeInv
  OBVIOUS
<1>1. /\ 0 \in 0 .. MaxMsgs
      /\ <<>> \in Seq(Files)
      /\ <<>> \in Seq(Diag)
  BY SessionAssumption
<1>2. IdleJob \in JobStates
  BY WorkspaceAssumption DEF IdleJob, JobStates, Pcs
<1>3. docs \in Docs
  BY DEF Init, NoDocs, Docs
<1>4. TypeOK
  BY <1>1, <1>2, <1>3 DEF Init, TypeOK
<1>5. \A j \in Jobs : LocalOK(jobs[j])
  BY DEF Init, LocalOK, IdleJob
<1>6. QED
  BY <1>4, <1>5 DEF TypeInv

LEMMA TypeStep == TypeInv /\ [Next]_vars => TypeInv'
<1> SUFFICES ASSUME TypeInv, [Next]_vars PROVE TypeInv'
  OBVIOUS
<1>0. /\ TypeOK
      /\ \A j \in Jobs : LocalOK(jobs[j])
      /\ msgs < MaxMsgs => msgs + 1 \in 0 .. MaxMsgs
  BY SessionAssumption DEF TypeInv, TypeOK
<1>1. CASE Message
  <2>1. jobs' = jobs
    BY <1>1 DEF Message, RecvError, Initialize, InitializeWithoutRoot, Initialized,
         Handshake, HandshakeExit, HandshakeInvalid, HandleTextDocument,
         HandleCompletion, HandleShutdown,
         HandleOther, HandleExit, End, analysisVars
  <2>2. TypeOK'
    <3>1. CASE RecvError \/ HandshakeExit \/ HandshakeInvalid \/ HandleExit
      <4>1. NoDocs \in Docs
        BY DEF NoDocs, Docs
      <4>2. QED
        BY <1>0, <3>1, <4>1 DEF RecvError, Handshake, HandshakeExit, HandshakeInvalid, HandleExit, End, analysisVars, TypeOK
    <3>2. CASE Initialize \/ InitializeWithoutRoot \/ Initialized
      BY <1>0, <3>2 DEF Initialize, InitializeWithoutRoot, Initialized, analysisVars, TypeOK
    <3>3. ASSUME NEW m \in Notifications, HandleTextDocument(m)
          PROVE  TypeOK'
      <4>1. docs' \in Docs
        BY <1>0, <3>3, UpdateType DEF HandleTextDocument, TypeOK
      <4>2. QED
        BY <1>0, <3>3, <4>1 DEF HandleTextDocument, Handling, analysisVars, TypeOK
    <3>4. CASE (\E f \in Files : HandleCompletion(f)) \/ HandleShutdown \/ HandleOther
      <4>1. CASE \E f \in Files : HandleCompletion(f)
        BY <1>0, <4>1 DEF HandleCompletion, CancelTimer, Handling, analysisVars, TypeOK
      <4>2. CASE HandleShutdown
        BY <1>0, <4>2 DEF HandleShutdown, CancelTimer, Handling, analysisVars, TypeOK
      <4>3. CASE HandleOther
        BY <1>0, <4>3 DEF HandleOther, Handling, analysisVars, TypeOK
      <4>4. QED
        BY <3>4, <4>1, <4>2, <4>3
    <3>5. QED
      BY <1>1, <3>1, <3>2, <3>3, <3>4 DEF Message
  <2>3. QED
    BY <1>0, <2>1, <2>2 DEF TypeInv
<1>2. CASE Disconnect
  BY <1>0, <1>2 DEF Disconnect, sessionVars, analysisVars, TypeInv, TypeOK
<1>3. ASSUME NEW j \in Jobs, StartAnalysis(j)
      PROVE  TypeInv'
  <2> DEFINE r == [IdleJob EXCEPT !.pc = "next", !.qi = 1]
  <2>1. queue' \in Seq(Files) /\ <<>> \in Seq(Diag)
    BY <1>3, OrdersType DEF StartAnalysis, OpenDocs
  <2>2. r \in JobStates /\ LocalOK(r) /\ r.pc # "idle"
    <3>1. r \in JobStates
      BY WorkspaceAssumption DEF IdleJob, JobStates, Pcs
    <3>2. r.pc = "next" /\ r.qi = 1 /\ r.done = {}
      BY DEF IdleJob
    <3>3. QED
      BY <3>1, <3>2 DEF LocalOK
  <2>3. Become(j, r) /\ cpu' = j
    BY <1>3 DEF StartAnalysis
  <2>4. /\ jobs' \in [Jobs -> JobStates]
        /\ \A k \in Jobs : LocalOK(jobs[k])'
        /\ jobs'[j] = r
    BY <2>2, <2>3, BecomeOK
  <2>5. overlapped' \in BOOLEAN
    BY <1>3, Zenon DEF StartAnalysis
  <2>6. QED
    BY <1>0, <1>3, <2>1, <2>2, <2>3, <2>4, <2>5 DEF StartAnalysis, TypeInv, TypeOK
<1>4. ASSUME NEW j \in Jobs, Analyze(j)
      PROVE  TypeInv'
  <2> DEFINE l == jobs[j]
  <2>0. l \in JobStates /\ LocalOK(l) /\ l.qi \in Nat /\ l.i \in Nat
    BY <1>0 DEF TypeOK, JobStates
  \* It is enough to look at the local variables of j.
  <2>1. ASSUME NEW r \in JobStates, LocalOK(r), Become(j, r),
               cpu' # NoJob => cpu' = j /\ r.pc # "idle",
               phase' = phase \/ phase' \in {"aborted", "undefined"},
               UNCHANGED <<code, held, docs, timer, msgs, suppressed, queue, overlapped, conn>>,
               cpu' \in {j, NoJob}, files' \subseteq Uris, diags' \in Seq(Diag),
               prev' \subseteq Uris, cur' \subseteq Uris, view' \in [Uris -> SUBSET Msgs]
        PROVE  TypeInv'
    <3>1. /\ jobs' \in [Jobs -> JobStates]
          /\ \A k \in Jobs : LocalOK(jobs[k])'
          /\ jobs'[j] = r
      BY <2>1, BecomeOK
    <3>2. QED
      BY <1>0, <2>1, <3>1 DEF TypeInv, TypeOK
  <2>2. ASSUME NEW e \in Files, NEW t \in Texts, l.pc \in {"next", "read"},
               BeginCompile(j, e, t), cpu' = j,
               UNCHANGED <<sessionVars, queue, diags, prev, cur, view, overlapped, conn>>
        PROVE  TypeInv'
    <3> DEFINE r == [l EXCEPT !.pc = "include", !.entry = e, !.text = t, !.todo = Needs[t]]
    <3>1. Needs[t] \in SUBSET Libs
      BY SessionAssumption
    <3>2. r \in JobStates
      BY <2>0, <3>1 DEF JobStates, Pcs
    <3>3. LocalOK(r) /\ r.pc # "idle"
      BY <2>0, <2>2 DEF LocalOK, JobStates
    <3>4. Become(j, r) /\ files' \subseteq Uris
      BY <1>0, <2>2 DEF BeginCompile, Uris, TypeOK
    <3>5. QED
      BY <1>0, <2>1, <2>2, <3>2, <3>3, <3>4 DEF sessionVars, TypeOK
  <2>3. CASE NextEntry(j)
    <3> DEFINE e == queue[l.qi]
    <3>1. e \in Files
      <4>1. queue \in Seq(Files) /\ l.qi \in 1 .. Len(queue)
        BY <1>0, <2>0, <2>3 DEF NextEntry, Step, LocalOK, TypeOK
      <4>2. QED
        BY <4>1
    <3>2. CASE e \in files
      <4> DEFINE r == [l EXCEPT !.qi = @ + 1]
      <4>1. r \in JobStates
        BY <2>0 DEF JobStates
      <4>2. LocalOK(r) /\ r.pc # "idle"
        BY <2>0, <2>3 DEF LocalOK, NextEntry, Step, JobStates
      <4>3. Become(j, r) /\ cpu' = j /\ files' = files
        BY <2>3, <3>2 DEF NextEntry
      <4>4. QED
        BY <1>0, <2>1, <2>3, <4>1, <4>2, <4>3 DEF NextEntry, sessionVars, TypeOK
    <3>3. CASE e \notin files /\ docs[e] # Closed
      <4>1. docs[e] \in Texts
        BY <1>0, <3>1, <3>3 DEF TypeOK, Docs
      <4>2. QED
        BY <2>2, <2>3, <3>1, <3>3, <4>1 DEF NextEntry, Step
    <3>4. CASE e \notin files /\ docs[e] = Closed
      <4> DEFINE r == [l EXCEPT !.pc = "read", !.entry = e]
      <4>1. r \in JobStates
        BY <2>0, <3>1 DEF JobStates, Pcs
      <4>2. LocalOK(r) /\ r.pc # "idle"
        BY <2>0, <2>3, <3>1 DEF LocalOK, NextEntry, Step, JobStates
      <4>3. Become(j, r) /\ cpu' = NoJob /\ files' = files
        BY <2>3, <3>4 DEF NextEntry
      <4>4. QED
        BY <1>0, <2>1, <2>3, <4>1, <4>2, <4>3 DEF NextEntry, sessionVars, TypeOK
    <3>5. QED
      BY <3>2, <3>3, <3>4
  <2>4. CASE ReadEntry(j)
    <3>1. l.entry \in Files /\ l.pc = "read"
      BY <2>0, <2>4 DEF ReadEntry, Step, LocalOK
    <3>2. CASE \E t \in Texts : BeginCompile(j, l.entry, t)
      BY <2>2, <2>4, <3>1, <3>2 DEF ReadEntry
    <3>3. CASE /\ Become(j, [jobs[j] EXCEPT !.pc = "next", !.qi = @ + 1])
               /\ UNCHANGED files
      <4> DEFINE r == [l EXCEPT !.pc = "next", !.qi = @ + 1]
      <4>1. r \in JobStates /\ LocalOK(r)
        BY <2>0, <3>1, NextEntryType
      <4>2. r.pc # "idle"
        BY <2>0 DEF JobStates
      <4>3. QED
        BY <1>0, <2>1, <2>4, <3>3, <4>1, <4>2 DEF ReadEntry, sessionVars, TypeOK
    <3>4. QED
      BY <2>4, <3>2, <3>3 DEF ReadEntry
  <2>5. CASE Include(j)
    <3>1. ASSUME NEW r \in JobStates, LocalOK(r), r.pc # "idle", Become(j, r), cpu' \in {j, NoJob}
          PROVE  TypeInv'
      BY <1>0, <2>1, <2>5, <3>1 DEF Include, sessionVars, TypeOK
    <3>2. l.pc = "include" /\ l.entry \in Files /\ l.done = {} /\ l.qi >= 1
      BY <2>0, <2>5 DEF Include, Step, LocalOK
    <3>3. ASSUME NEW x \in l.todo, Become(j, [jobs[j] EXCEPT !.todo = @ \ {x}]), cpu' = j
          PROVE  TypeInv'
      <4>1. [l EXCEPT !.todo = @ \ {x}] \in JobStates
        BY <2>0 DEF JobStates
      <4>2. LocalOK([l EXCEPT !.todo = @ \ {x}])
        BY <2>0, <3>2 DEF LocalOK, JobStates
      <4>3. QED
        BY <2>0, <3>1, <3>2, <3>3, <4>1, <4>2 DEF JobStates
    <3>4. ASSUME NEW x \in l.todo, cpu' = NoJob,
                 Become(j, [jobs[j] EXCEPT !.pc = "lib", !.lib = x])
          PROVE  TypeInv'
      <4>1. x \in Libs
        BY <2>0 DEF JobStates
      <4>2. [l EXCEPT !.pc = "lib", !.lib = x] \in JobStates
        BY <2>0, <4>1 DEF JobStates, Pcs
      <4>3. LocalOK([l EXCEPT !.pc = "lib", !.lib = x])
        BY <2>0, <3>2, <4>1 DEF LocalOK, JobStates
      <4>4. QED
        BY <2>0, <3>1, <3>4, <4>2, <4>3 DEF JobStates
    <3>5. ASSUME Become(j, [jobs[j] EXCEPT !.pc = "emit"]), cpu' = j
          PROVE  TypeInv'
      <4>1. [l EXCEPT !.pc = "emit"] \in JobStates
        BY <2>0 DEF JobStates, Pcs
      <4>2. LocalOK([l EXCEPT !.pc = "emit"])
        BY <2>0, <3>2 DEF LocalOK, JobStates
      <4>3. QED
        BY <2>0, <3>1, <3>5, <4>1, <4>2 DEF JobStates
    <3>6. QED
      BY <2>5, <3>3, <3>4, <3>5 DEF Include
  <2>6. CASE ReadLib(j)
    <3> DEFINE r == [l EXCEPT !.pc = "include", !.todo = @ \ {l.lib}]
    <3>1. r \in JobStates
      BY <2>0 DEF JobStates, Pcs
    <3>2. LocalOK(r) /\ r.pc # "idle"
      BY <2>0, <2>6 DEF LocalOK, ReadLib, Step, JobStates
    <3>3. Become(j, r) /\ cpu' = j /\ files' \subseteq Uris
      BY <1>0, <2>0, <2>6 DEF ReadLib, Step, LocalOK, Uris, TypeOK
    <3>4. QED
      BY <1>0, <2>1, <2>6, <3>1, <3>2, <3>3 DEF ReadLib, sessionVars, TypeOK
  <2>7. CASE Emit(j)
    <3>1. CASE Sources(j) \subseteq files
      <4> DEFINE r == [l EXCEPT !.pc = "next", !.qi = @ + 1]
      <4>0. /\ diags' = diags \o Report[<<l.entry, l.text>>]
            /\ Become(j, r) /\ cpu' = j /\ phase' = phase
            /\ l.pc = "emit"
        BY <2>7, <3>1 DEF Emit, Step
      <4>1. <<l.entry, l.text>> \in Files \X Texts
        BY <2>0, <4>0 DEF LocalOK, JobStates
      <4>2. Report[<<l.entry, l.text>>] \in Seq(Diag)
        BY <4>1, SessionAssumption
      <4>3. diags' \in Seq(Diag)
        BY <1>0, <4>0, <4>2 DEF TypeOK
      <4>4. r \in JobStates /\ LocalOK(r)
        BY <2>0, <4>0, NextEntryType
      <4>5. r.pc # "idle"
        BY <2>0 DEF JobStates
      <4>6. QED
        BY <1>0, <2>1, <2>7, <4>0, <4>3, <4>4, <4>5 DEF Emit, TypeOK
    <3>2. CASE ~(Sources(j) \subseteq files)
      BY <1>0, <2>7, <3>2 DEF Emit, TypeInv, TypeOK
    <3>3. QED
      BY <3>1, <3>2
  <2>8. CASE EndQueue(j)
    <3> DEFINE r == [l EXCEPT !.pc = "publish", !.num = Len(diags)]
    <3>1. Len(diags) \in Nat /\ diags' \in Seq(Diag)
      BY <1>0, <2>8, SortedType DEF EndQueue, TypeOK
    <3>2. r \in JobStates
      BY <2>0, <3>1 DEF JobStates, Pcs
    <3>3. LocalOK(r) /\ r.pc # "idle"
      BY <2>0, <2>8 DEF LocalOK, EndQueue, Step, JobStates
    <3>4. QED
      BY <1>0, <2>1, <2>8, <3>1, <3>2, <3>3 DEF EndQueue, sessionVars, TypeOK
  <2>9. ASSUME l.i < Len(diags)
        PROVE  /\ diags[l.i + 1] \in Diag
               /\ diags[l.i + 1].uri \in Uris
               /\ diags[l.i + 1].msg \in Msgs
    <3>1. diags \in Seq(Diag) /\ l.i + 1 \in 1 .. Len(diags)
      BY <1>0, <2>0, <2>9 DEF TypeOK
    <3>2. diags[l.i + 1] \in Diag
      BY <3>1
    <3>3. QED
      BY <3>2 DEF Diag
  <2>10. ASSUME NEW u \in Uris, NEW c \in SUBSET Msgs, Send(u, c)
        PROVE  view' \in [Uris -> SUBSET Msgs]
    BY <1>0, <2>10 DEF Send, TypeOK
  <2>11. ASSUME NEW d \in Diag, l.pc \in {"publish", "begin"}
         PROVE  LET r == [l EXCEPT !.pc = "publish", !.last = d.uri,
                                   !.msg = {d.msg}, !.i = @ + 1]
                IN  r \in JobStates /\ LocalOK(r) /\ r.pc # "idle"
    <3>1. d.uri \in Uris /\ {d.msg} \in SUBSET Msgs
      BY DEF Diag
    <3>2. ASSUME NEW n \in Nat
          PROVE  LET r == [l EXCEPT !.pc = "publish", !.last = d.uri,
                                    !.msg = {d.msg}, !.i = n]
                 IN  r \in JobStates /\ LocalOK(r) /\ r.pc # "idle"
      <4>1. [l EXCEPT !.pc = "publish", !.last = d.uri, !.msg = {d.msg}, !.i = n] \in JobStates
        BY <2>0, <3>1 DEF JobStates, Pcs
      <4>2. LocalOK([l EXCEPT !.pc = "publish", !.last = d.uri, !.msg = {d.msg}, !.i = n])
        BY <2>0, <2>11 DEF LocalOK, JobStates
      <4>3. QED
        BY <2>0, <4>1, <4>2 DEF JobStates
    <3>3. [l EXCEPT !.pc = "publish", !.last = d.uri, !.msg = {d.msg}, !.i = @ + 1]
            = [l EXCEPT !.pc = "publish", !.last = d.uri, !.msg = {d.msg}, !.i = l.i + 1]
      OBVIOUS
    <3>4. l.i + 1 \in Nat
      BY <2>0
    <3>5. QED
      BY <3>2, <3>3, <3>4
  <2>12. CASE PublishDiagnostic(j)
    <3> DEFINE d == diags[l.i + 1]
    <3>0. l.pc = "publish" /\ d \in Diag /\ d.uri \in Uris /\ d.msg \in Msgs
      BY <2>9, <2>12 DEF PublishDiagnostic, Step
    <3>1. CASE d.uri = l.last
      <4> DEFINE r == [l EXCEPT !.msg = @ \cup {d.msg}, !.i = @ + 1]
      <4>1. r = [l EXCEPT !.msg = l.msg \cup {d.msg}, !.i = l.i + 1]
        OBVIOUS
      <4>2. l.msg \cup {d.msg} \in SUBSET Msgs /\ l.i + 1 \in Nat
        BY <2>0, <3>0 DEF JobStates
      <4>3. r \in JobStates
        BY <2>0, <4>1, <4>2 DEF JobStates
      <4>4. LocalOK(r) /\ r.pc # "idle"
        BY <2>0, <3>0 DEF LocalOK, JobStates
      <4>5. Become(j, r) /\ cpu' = j /\ UNCHANGED <<prev, cur, view>>
        BY <2>12, <3>1 DEF PublishDiagnostic
      <4>6. QED
        BY <1>0, <2>1, <2>12, <4>3, <4>4, <4>5 DEF PublishDiagnostic, sessionVars, TypeOK
    <3>2. CASE d.uri # l.last /\ l.last = NoUri
      <4>1. StartMessage(j, d) /\ Diagnose(d.uri) /\ cpu' = j /\ view' = view
        BY <2>12, <3>2 DEF PublishDiagnostic
      <4>2. prev' \subseteq Uris /\ cur' \subseteq Uris
        BY <1>0, <3>0, <4>1 DEF Diagnose, TypeOK
      <4>3. QED
        BY <1>0, <2>1, <2>11, <2>12, <3>0, <4>1, <4>2
        DEF PublishDiagnostic, StartMessage, sessionVars, TypeOK
    <3>3. CASE d.uri # l.last /\ l.last # NoUri
      <4> DEFINE r == [l EXCEPT !.pc = IF conn THEN "begin" ELSE "unpublish",
                                !.last = NoUri, !.msg = {}]
      <4>1. Become(j, r) /\ Diagnose(d.uri) /\ Send(l.last, l.msg) /\ cpu' = NoJob
        BY <2>12, <3>3 DEF PublishDiagnostic
      <4>2. prev' \subseteq Uris /\ cur' \subseteq Uris
        BY <1>0, <3>0, <4>1 DEF Diagnose, TypeOK
      <4>3. l.last \in Uris /\ l.msg \in SUBSET Msgs
        BY <2>0, <3>3 DEF JobStates
      <4>4. view' \in [Uris -> SUBSET Msgs]
        BY <2>10, <4>1, <4>3
      <4>5. r \in JobStates
        BY <2>0 DEF JobStates, Pcs
      <4>6. LocalOK(r) /\ r.pc # "idle"
        BY <2>0, <3>0 DEF LocalOK, JobStates
      <4>7. QED
        BY <1>0, <2>1, <2>12, <4>1, <4>2, <4>4, <4>5, <4>6
        DEF PublishDiagnostic, sessionVars, TypeOK
    <3>4. QED
      BY <3>1, <3>2, <3>3
  <2>13. CASE BeginMessage(j)
    <3>1. l.pc = "begin" /\ diags[l.i + 1] \in Diag
      BY <2>9, <2>13 DEF BeginMessage, Step
    <3>2. QED
      BY <1>0, <2>1, <2>11, <2>13, <3>1 DEF BeginMessage, StartMessage, sessionVars, TypeOK
  <2>14. CASE ReadPastEnd(j)
    BY <1>0, <2>14 DEF ReadPastEnd, analysisVars, TypeInv, TypeOK
  <2>15. CASE PublishLast(j)
    <3> DEFINE r == [l EXCEPT !.pc = "unpublish"]
    <3>1. r \in JobStates
      BY <2>0 DEF JobStates, Pcs
    <3>2. LocalOK(r) /\ r.pc # "idle"
      BY <2>0, <2>15 DEF LocalOK, PublishLast, Step, JobStates
    <3>3. view' \in [Uris -> SUBSET Msgs] /\ cpu' \in {j, NoJob}
      <4>1. CASE l.last # NoUri
        <5>1. l.last \in Uris /\ l.msg \in SUBSET Msgs
          BY <2>0, <4>1 DEF JobStates
        <5>2. QED
          BY <2>10, <2>15, <4>1, <5>1 DEF PublishLast
      <4>2. CASE l.last = NoUri
        BY <1>0, <2>15, <4>2 DEF PublishLast, TypeOK
      <4>3. QED
        BY <4>1, <4>2
    <3>4. QED
      BY <1>0, <2>1, <2>15, <3>1, <3>2, <3>3 DEF PublishLast, sessionVars, TypeOK
  <2>16. CASE Unpublish(j)
    <3>1. PICK u \in prev \ l.done : Send(u, {}) /\ Become(j, [l EXCEPT !.done = @ \cup {u}])
      BY <2>16 DEF Unpublish
    <3> DEFINE r == [l EXCEPT !.done = @ \cup {u}]
    <3>2. u \in Uris
      BY <1>0, <3>1 DEF TypeOK
    <3>3. r \in JobStates
      BY <2>0, <3>2 DEF JobStates
    <3>4. LocalOK(r) /\ r.pc # "idle"
      BY <2>0, <2>16 DEF LocalOK, Unpublish, Step, JobStates
    <3>5. view' \in [Uris -> SUBSET Msgs]
      BY <2>10, <3>1, <3>2
    <3>6. QED
      BY <1>0, <2>1, <2>16, <3>1, <3>3, <3>4, <3>5 DEF Unpublish, sessionVars, TypeOK
  <2>17. CASE EndAnalysis(j)
    <3>1. IdleJob \in JobStates /\ LocalOK(IdleJob)
      BY WorkspaceAssumption DEF IdleJob, JobStates, Pcs, LocalOK
    <3>2. QED
      BY <1>0, <2>1, <2>17, <3>1 DEF EndAnalysis, sessionVars, TypeOK
  <2>18. QED
    BY <1>4, <2>3, <2>4, <2>5, <2>6, <2>7, <2>8, <2>12, <2>13, <2>14, <2>15, <2>16, <2>17
    DEF Analyze
<1>5. CASE UNCHANGED vars
  BY <1>0, <1>5 DEF vars, sessionVars, analysisVars, TypeInv, TypeOK
<1>6. ASSUME NEW j \in Jobs, ResumeAfterEnd(j)
      PROVE  TypeInv'
  BY <1>0, <1>6 DEF ResumeAfterEnd, analysisVars, TypeInv, TypeOK
<1>7. QED
  BY <1>1, <1>2, <1>3, <1>4, <1>5, <1>6 DEF Next

\* Type correctness of Session.
THEOREM TypeCorrect == Spec => []TypeOK
<1>1. TypeInv => TypeOK
  BY DEF TypeInv
<1>2. QED
  BY TypeInit, TypeStep, <1>1, PTL DEF Spec

-----------------------------------------------------------------------------
(***************************************************************************)
(* The two sets of diagnosed files.  A uri reaches the client only after   *)
(* it was put in the current set, and leaves the previous set only when it *)
(* moves to the current one or after an empty message was sent for it.     *)
(***************************************************************************)
Solo == \A j, k \in Jobs : Active(j) /\ Active(k) => j = k

\* The uri of the message being built is in the current set, also while the
\* analysis is suspended between two messages.
LocalFed(r) ==
    /\ r.last # NoUri => r.last \in cur
    /\ r.pc = "begin" /\ r.i < Len(diags) => diags[r.i + 1].uri \in cur
    /\ \A u \in r.done : view[u] = {}

Fed == /\ \A u \in Uris : view[u] # {} => u \in prev \cup cur
       /\ \A j \in Jobs : LocalFed(jobs[j])

FeedInv == /\ TypeInv
           /\ ~overlapped => Solo
           /\ conn /\ ~overlapped => Fed

LEMMA FeedInit == Init => FeedInv
<1> SUFFICES ASSUME Init PROVE FeedInv
  OBVIOUS
<1>1. Solo
  BY DEF Init, Solo, Active, IdleJob
<1>2. Fed
  BY DEF Init, Fed, LocalFed, IdleJob
<1>3. QED
  BY <1>1, <1>2, TypeInit DEF FeedInv

LEMMA FeedStep == FeedInv /\ [Next]_vars => FeedInv'
<1> SUFFICES ASSUME FeedInv, [Next]_vars PROVE FeedInv'
  OBVIOUS
<1>0. TypeInv /\ TypeInv'
  BY TypeStep DEF FeedInv
<1>1. CASE Message \/ (\E j \in Jobs : ResumeAfterEnd(j)) \/ UNCHANGED vars
  <2>1. UNCHANGED analysisVars /\ conn' = conn
    BY <1>1 DEF Message, RecvError, Initialize, InitializeWithoutRoot, Initialized,
         Handshake, HandshakeExit, HandshakeInvalid, HandleTextDocument,
         HandleCompletion, HandleShutdown,
         HandleOther, HandleExit, End, ResumeAfterEnd, vars
  <2>2. QED
    BY <1>0, <2>1 DEF FeedInv, Solo, Active, Fed, LocalFed, analysisVars
<1>2. CASE Disconnect
  BY <1>0, <1>2 DEF Disconnect, FeedInv, Solo, Active, analysisVars
\* An analysis that starts while no other is active has nothing to its name.
<1>3. ASSUME NEW j \in Jobs, StartAnalysis(j)
      PROVE  FeedInv'
  <2> SUFFICES ASSUME ~overlapped' PROVE Solo' /\ (conn' => Fed')
    BY <1>0 DEF FeedInv
  <2>1. ~overlapped /\ \A k \in Jobs : ~Active(k)
    BY <1>3 DEF StartAnalysis
  <2>2. \A k \in Jobs : jobs[k] = IdleJob
    BY <1>0, <2>1 DEF TypeInv, LocalOK, Active
  <2>3. /\ jobs'[j] = [IdleJob EXCEPT !.pc = "next", !.qi = 1]
        /\ \A k \in Jobs \ {j} : jobs'[k] = IdleJob
    BY <1>0, <1>3, <2>2 DEF StartAnalysis, Become, TypeInv, TypeOK
  <2>4. Solo'
    BY <2>3 DEF Solo, Active, IdleJob
  <2>5. \A k \in Jobs : LocalFed(jobs[k])'
    <3>1. \A k \in Jobs : /\ jobs'[k].last = NoUri
                          /\ jobs'[k].pc # "begin"
                          /\ jobs'[k].done = {}
      <4>1. /\ jobs'[j].last = NoUri /\ jobs'[j].pc # "begin" /\ jobs'[j].done = {}
        BY <2>3 DEF IdleJob
      <4>2. \A k \in Jobs \ {j} : /\ jobs'[k].last = NoUri
                                  /\ jobs'[k].pc # "begin"
                                  /\ jobs'[k].done = {}
        BY <2>3 DEF IdleJob
      <4>3. QED
        BY <4>1, <4>2
    <3>2. QED
      BY <3>1 DEF LocalFed
  <2>6. conn' => \A u \in Uris : view'[u] # {} => u \in prev' \cup cur'
    BY <1>3, <2>1 DEF StartAnalysis, FeedInv, Fed
  <2>7. QED
    BY <2>4, <2>5, <2>6 DEF Fed
\* A step of an analysis that runs alone: the others are idle.
<1>4. ASSUME NEW j \in Jobs, Analyze(j)
      PROVE  FeedInv'
  <2> DEFINE l == jobs[j]
  <2>0. overlapped' = overlapped /\ conn' = conn /\ Active(j)
    BY <1>4 DEF Analyze, NextEntry, ReadEntry, Include, ReadLib, Emit, EndQueue,
         PublishDiagnostic, BeginMessage, ReadPastEnd, PublishLast, Unpublish,
         EndAnalysis, Step, Active, analysisVars
  <2> SUFFICES ASSUME ~overlapped PROVE Solo' /\ (conn => Fed')
    BY <1>0, <2>0 DEF FeedInv
  <2>1. /\ \A k \in Jobs \ {j} : jobs[k] = IdleJob /\ jobs'[k] = IdleJob
        /\ l \in JobStates /\ LocalOK(l)
    <3>1. \A k \in Jobs \ {j} : jobs[k] = IdleJob
      BY <1>0, <2>0 DEF FeedInv, Solo, TypeInv, LocalOK, Active
    <3>2. \A k \in Jobs \ {j} : jobs'[k] = jobs[k]
      <4>1. jobs \in [Jobs -> JobStates]
        BY <1>0 DEF TypeInv, TypeOK
      <4>2. jobs' = jobs \/ \E r : Become(j, r)
        BY <1>4 DEF Analyze, NextEntry, ReadEntry, Include, ReadLib, Emit, EndQueue,
             PublishDiagnostic, BeginMessage, ReadPastEnd, PublishLast, Unpublish,
             EndAnalysis, BeginCompile, StartMessage, analysisVars
      <4>3. QED
        BY <4>1, <4>2 DEF Become
    <3>3. QED
      BY <1>0, <3>1, <3>2 DEF TypeInv, TypeOK
  <2>2. Solo'
    BY <2>1 DEF Solo, Active, IdleJob
  <2>b. ASSUME NEW r, Become(j, r)
        PROVE  jobs'[j] = r
    BY <1>0, <2>b DEF Become, TypeInv, TypeOK
  <2> SUFFICES ASSUME conn PROVE Fed'
    BY <2>2
  <2>3. /\ \A u \in Uris : view[u] # {} => u \in prev \cup cur
        /\ LocalFed(l)
    BY DEF FeedInv, Fed
  <2>4. ASSUME \A u \in Uris : view'[u] # {} => u \in prev' \cup cur',
               LocalFed(jobs[j])'
        PROVE  Fed'
    BY <2>1, <2>4 DEF Fed, LocalFed, IdleJob
  <2>5. CASE NextEntry(j) \/ ReadEntry(j) \/ Include(j) \/ ReadLib(j) \/ Emit(j) \/ EndQueue(j)
    <3>2. view' = view /\ prev' = prev /\ cur' = cur
      BY <2>5 DEF NextEntry, ReadEntry, Include, ReadLib, Emit, EndQueue, sessionVars
    <3>3. l.pc \in {"next", "read", "include", "lib", "emit"}
      BY <2>5 DEF NextEntry, ReadEntry, Include, ReadLib, Emit, EndQueue, Step
    <3>4. jobs'[j].last = l.last /\ jobs'[j].done = l.done /\ jobs'[j].pc # "begin"
      <4>b. ASSUME NEW e, NEW t, BeginCompile(j, e, t)
            PROVE  jobs'[j].last = l.last /\ jobs'[j].done = l.done /\ jobs'[j].pc # "begin"
        BY <2>1, <2>b, <4>b DEF BeginCompile, JobStates
      <4>1. CASE NextEntry(j)
        <5>1. \/ Become(j, [l EXCEPT !.qi = @ + 1])
              \/ BeginCompile(j, queue[l.qi], docs[queue[l.qi]])
              \/ Become(j, [l EXCEPT !.pc = "read", !.entry = queue[l.qi]])
          BY <4>1 DEF NextEntry
        <5>2. CASE Become(j, [l EXCEPT !.qi = @ + 1])
          BY <2>1, <2>b, <3>3, <5>2 DEF JobStates
        <5>3. CASE BeginCompile(j, queue[l.qi], docs[queue[l.qi]])
          BY <4>b, <5>3
        <5>4. CASE Become(j, [l EXCEPT !.pc = "read", !.entry = queue[l.qi]])
          BY <2>1, <2>b, <3>3, <5>4 DEF JobStates
        <5> QED
          BY <5>1, <5>2, <5>3, <5>4
      <4>2. CASE ReadEntry(j)
        <5>1. \/ \E t \in Texts : BeginCompile(j, l.entry, t)
              \/ Become(j, [l EXCEPT !.pc = "next", !.qi = @ + 1])
          BY <4>2 DEF ReadEntry
        <5>2. CASE \E t \in Texts : BeginCompile(j, l.entry, t)
          BY <4>b, <5>2
        <5>3. CASE Become(j, [l EXCEPT !.pc = "next", !.qi = @ + 1])
          BY <2>1, <2>b, <3>3, <5>3 DEF JobStates
        <5> QED
          BY <5>1, <5>2, <5>3
      <4>3. CASE Include(j)
        BY <2>1, <2>b, <3>3, <4>3 DEF Include, JobStates
      <4>4. CASE ReadLib(j)
        BY <2>1, <2>b, <3>3, <4>4 DEF ReadLib, JobStates
      <4>5. CASE Emit(j)
        <5>1. jobs' = jobs \/ jobs'[j] = [l EXCEPT !.pc = "next", !.qi = @ + 1]
          BY <2>b, <4>5 DEF Emit
        <5>2. QED
          BY <2>1, <3>3, <5>1 DEF JobStates
      <4>6. CASE EndQueue(j)
        <5>1. jobs'[j] = [l EXCEPT !.pc = "publish", !.num = Len(diags)]
          BY <2>b, <4>6 DEF EndQueue
        <5>2. QED
          BY <2>1, <5>1 DEF JobStates
      <4>7. QED
        BY <2>5, <4>1, <4>2, <4>3, <4>4, <4>5, <4>6
    <3>5. LocalFed(jobs[j])'
      BY <2>3, <3>2, <3>4 DEF LocalFed
    <3>6. QED
      BY <2>3, <2>4, <3>2, <3>5
  <2>6. CASE ReadPastEnd(j)
    BY <2>3, <2>4, <2>6 DEF ReadPastEnd, analysisVars, LocalFed
  <2>7. CASE PublishDiagnostic(j)
    <3> DEFINE d == diags[l.i + 1]
    <3>0. /\ jobs \in [Jobs -> JobStates]
          /\ view \in [Uris -> SUBSET Msgs]
          /\ l.done = {} /\ l.pc = "publish" /\ diags' = diags
      BY <1>0, <2>1, <2>7 DEF TypeInv, TypeOK, LocalOK, PublishDiagnostic, Step
    <3>1. CASE d.uri = l.last
      <4>1. /\ jobs'[j].last = l.last /\ jobs'[j].done = {} /\ jobs'[j].pc # "begin"
            /\ prev' = prev /\ cur' = cur /\ view' = view
        <5>1. /\ jobs'[j] = [l EXCEPT !.msg = @ \cup {d.msg}, !.i = @ + 1]
              /\ prev' = prev /\ cur' = cur /\ view' = view
          BY <2>b, <2>7, <3>1 DEF PublishDiagnostic
        <5>2. QED
          BY <2>1, <3>0, <5>1 DEF JobStates
      <4>2. LocalFed(jobs[j])'
        BY <2>3, <4>1 DEF LocalFed
      <4>3. QED
        BY <2>3, <2>4, <4>1, <4>2
    \* The first message: its uri is in the current set before it is sent.
    <3>2. CASE d.uri # l.last /\ l.last = NoUri
      <4>1. /\ StartMessage(j, d) /\ Diagnose(d.uri) /\ view' = view
        BY <2>7, <3>2 DEF PublishDiagnostic
      <4>2. jobs'[j].last = d.uri /\ jobs'[j].done = {} /\ jobs'[j].pc # "begin"
        BY <2>1, <3>0, <4>1 DEF StartMessage, Become, JobStates
      <4>3. LocalFed(jobs[j])'
        BY <4>1, <4>2 DEF LocalFed, Diagnose
      <4>4. \A u \in Uris : view'[u] # {} => u \in prev' \cup cur'
        BY <2>3, <4>1 DEF Diagnose
      <4>5. QED
        BY <2>4, <4>3, <4>4
    \* The uri of the message that is sent is in the current set, and so is
    \* that of the next one.
    <3>3. CASE d.uri # l.last /\ l.last # NoUri
      <4>1. Diagnose(d.uri) /\ Send(l.last, l.msg)
        BY <2>7, <3>3 DEF PublishDiagnostic
      <4>2. /\ jobs'[j].last = NoUri /\ jobs'[j].done = {} /\ jobs'[j].i = l.i
        <5>1. jobs'[j] = [l EXCEPT !.pc = IF conn THEN "begin" ELSE "unpublish",
                                   !.last = NoUri, !.msg = {}]
          BY <2>b, <2>7, <3>3 DEF PublishDiagnostic
        <5>2. QED
          BY <2>1, <3>0, <5>1 DEF JobStates
      <4>3. LocalFed(jobs[j])'
        BY <3>0, <4>1, <4>2 DEF LocalFed, Diagnose
      <4>4. l.last \in cur
        BY <2>3, <3>3 DEF LocalFed
      <4>5. \A u \in Uris : view'[u] # {} => u \in prev' \cup cur'
        BY <2>3, <3>0, <4>1, <4>4 DEF Diagnose, Send
      <4>6. QED
        BY <2>4, <4>3, <4>5
    <3>4. QED
      BY <3>1, <3>2, <3>3
  <2>8. CASE BeginMessage(j)
    <3>1. /\ jobs \in [Jobs -> JobStates] /\ l.done = {} /\ l.pc = "begin" /\ l.i < Len(diags)
          /\ view' = view /\ prev' = prev /\ cur' = cur /\ diags' = diags
      BY <1>0, <2>1, <2>8 DEF TypeInv, TypeOK, LocalOK, BeginMessage, Step
    <3>2. /\ jobs'[j].last = diags[l.i + 1].uri /\ jobs'[j].done = {}
          /\ jobs'[j].pc # "begin"
      BY <2>1, <2>8, <3>1 DEF BeginMessage, StartMessage, Become, JobStates
    <3>3. LocalFed(jobs[j])'
      BY <2>3, <3>1, <3>2 DEF LocalFed
    <3>4. QED
      BY <2>3, <2>4, <3>1, <3>3
  <2>9. CASE PublishLast(j)
    <3>1. /\ jobs \in [Jobs -> JobStates] /\ l.done = {}
          /\ view \in [Uris -> SUBSET Msgs] /\ prev' = prev /\ cur' = cur
      BY <1>0, <2>1, <2>9 DEF TypeInv, TypeOK, LocalOK, PublishLast, Step
    <3>2. jobs'[j].last = l.last /\ jobs'[j].done = {} /\ jobs'[j].pc # "begin"
      BY <2>1, <2>9, <3>1 DEF PublishLast, Become, JobStates
    <3>3. LocalFed(jobs[j])'
      BY <2>3, <3>1, <3>2 DEF LocalFed
    <3>4. \A u \in Uris : view'[u] # {} => u \in prev' \cup cur'
      BY <2>3, <2>9, <3>1 DEF PublishLast, Send, LocalFed
    <3>5. QED
      BY <2>4, <3>3, <3>4
  <2>10. CASE Unpublish(j)
    <3>1. PICK u \in prev \ l.done : Send(u, {}) /\ Become(j, [l EXCEPT !.done = @ \cup {u}])
      BY <2>10 DEF Unpublish
    <3>2. /\ jobs \in [Jobs -> JobStates] /\ view \in [Uris -> SUBSET Msgs] /\ u \in Uris
          /\ prev' = prev /\ cur' = cur /\ diags' = diags /\ l.pc = "unpublish"
      BY <1>0, <2>10, <3>1 DEF TypeInv, TypeOK, Unpublish, Step
    <3>3. view' = [view EXCEPT ![u] = {}]
      BY <3>1 DEF Send
    <3>4. /\ jobs'[j].last = l.last /\ jobs'[j].done = l.done \cup {u}
          /\ jobs'[j].pc = "unpublish"
      BY <2>1, <3>1, <3>2 DEF Become, JobStates
    <3>5. l.done \subseteq Uris
      BY <2>1 DEF JobStates
    <3>6. LocalFed(jobs[j])'
      BY <2>3, <3>2, <3>3, <3>4, <3>5 DEF LocalFed
    <3>7. QED
      BY <2>3, <2>4, <3>2, <3>3, <3>6
  <2>11. CASE EndAnalysis(j)
    <3>1. prev' = cur /\ cur' = {} /\ view' = view /\ prev \subseteq l.done /\ jobs'[j] = IdleJob
      BY <1>0, <2>11 DEF EndAnalysis, Become, TypeInv, TypeOK
    <3>2. \A u \in Uris : view[u] # {} => u \in cur
      BY <2>3, <3>1 DEF LocalFed
    <3>3. LocalFed(jobs[j])'
      BY <3>1 DEF LocalFed, IdleJob
    <3>4. QED
      BY <2>4, <3>1, <3>2, <3>3
  <2>12. QED
    BY <1>4, <2>5, <2>6, <2>7, <2>8, <2>9, <2>10, <2>11 DEF Analyze
<1>5. QED
  BY <1>1, <1>2, <1>3, <1>4 DEF Next

\* NoForgottenDiagnostics holds of every session, with any number of documents,
\* contents, reports and concurrent analyses, as long as none overlap.
THEOREM NeverForgotten == Spec => []NoForgottenDiagnostics
<1>1. FeedInv => NoForgottenDiagnostics
  BY DEF FeedInv, Fed, NoForgottenDiagnostics
<1>2. QED
  BY FeedInit, FeedStep, <1>1, PTL DEF Spec

-----------------------------------------------------------------------------
(***************************************************************************)
(* What an analysis that runs alone may rely on: the files it has opened   *)
(* stay open, and the array it publishes from keeps its length.            *)
(***************************************************************************)
LocalSafe(r) ==
    /\ r.pc \in {"include", "lib", "emit"} =>
          r.entry \in files /\ Needs[r.text] \ r.todo \subseteq files
    /\ r.pc = "emit" => r.todo = {}
    /\ r.pc \in {"publish", "begin"} => r.num = Len(diags)

Safe == /\ phase \notin {"aborted", "undefined"}
        /\ \A j \in Jobs : LocalSafe(jobs[j])

SafeInv == FeedInv /\ (~overlapped => Safe)

LEMMA SafeInit == Init => SafeInv
<1> SUFFICES ASSUME Init PROVE SafeInv
  OBVIOUS
<1>1. Safe
  BY DEF Init, Safe, LocalSafe, IdleJob
<1>2. QED
  BY <1>1, FeedInit DEF SafeInv

LEMMA SafeStep == SafeInv /\ [Next]_vars => SafeInv'
<1> SUFFICES ASSUME SafeInv, [Next]_vars, ~overlapped' PROVE Safe'
  BY FeedStep DEF SafeInv
<1>0. /\ FeedInv /\ TypeInv /\ TypeInv' /\ Solo'
      /\ ~overlapped => Safe
  BY FeedStep DEF SafeInv, FeedInv
<1>1. CASE Message \/ Disconnect \/ (\E j \in Jobs : ResumeAfterEnd(j)) \/ UNCHANGED vars
  <2>1. /\ UNCHANGED analysisVars
        /\ phase' = phase \/ phase' \in {"initialized", "running", "ended", "dangling"}
    BY <1>1 DEF Message, RecvError, Initialize, InitializeWithoutRoot, Initialized,
         Handshake, HandshakeExit, HandshakeInvalid, HandleTextDocument,
         HandleCompletion, HandleShutdown,
         HandleOther, HandleExit, End, Disconnect, ResumeAfterEnd, vars, sessionVars
  <2>2. QED
    BY <1>0, <2>1 DEF Safe, LocalSafe, analysisVars
<1>2. ASSUME NEW j \in Jobs, StartAnalysis(j)
      PROVE  Safe'
  <2>1. \A k \in Jobs : ~Active(k)
    BY <1>2 DEF StartAnalysis
  <2>2. \A k \in Jobs \ {j} : jobs'[k] = jobs[k]
    BY <1>0, <1>2 DEF StartAnalysis, Become, TypeInv, TypeOK
  <2>3. jobs'[j] = [IdleJob EXCEPT !.pc = "next", !.qi = 1]
    BY <1>0, <1>2 DEF StartAnalysis, Become, TypeInv, TypeOK
  <2>4. jobs'[j].pc = "next"
    BY <2>3 DEF IdleJob
  <2>5. \A k \in Jobs : jobs'[k].pc \in {"idle", "next"}
    BY <2>1, <2>2, <2>4 DEF Active
  <2>6. phase' = "running"
    BY <1>2 DEF StartAnalysis
  <2>7. QED
    BY <2>5, <2>6 DEF Safe, LocalSafe
<1>3. ASSUME NEW j \in Jobs, Analyze(j)
      PROVE  Safe'
  <2> DEFINE l == jobs[j]
  <2>0. /\ ~overlapped /\ Safe /\ LocalSafe(l) /\ phase = "running" /\ Active(j)
        /\ l \in JobStates
    <3>1. overlapped' = overlapped /\ phase = "running" /\ Active(j)
      BY <1>3 DEF Analyze, NextEntry, ReadEntry, Include, ReadLib, Emit, EndQueue,
           PublishDiagnostic, BeginMessage, ReadPastEnd, PublishLast, Unpublish,
           EndAnalysis, Step, Active, analysisVars
    <3>2. QED
      BY <1>0, <3>1 DEF Safe, TypeInv, TypeOK
  <2>1. ASSUME NEW r, Become(j, r)
        PROVE  /\ jobs'[j] = r
               /\ \A k \in Jobs \ {j} : jobs'[k].pc = "idle"
    <3>1. /\ jobs'[j] = r
          /\ \A k \in Jobs \ {j} : jobs'[k] = jobs[k]
      BY <1>0, <2>1 DEF Become, TypeInv, TypeOK
    <3>2. \A k \in Jobs \ {j} : jobs[k].pc = "idle"
      BY <1>0, <2>0 DEF FeedInv, Solo, Active
    <3>3. QED
      BY <3>1, <3>2
  \* It is enough to look at the analysis that takes the step.
  <2>2. ASSUME NEW r, Become(j, r), LocalSafe(jobs[j])', phase' = phase
        PROVE  Safe'
    <3>1. \A k \in Jobs \ {j} : LocalSafe(jobs[k])'
      BY <2>1, <2>2 DEF LocalSafe
    <3>2. QED
      BY <2>0, <2>2, <3>1 DEF Safe
  <2>3. ASSUME NEW e \in Files, NEW t \in Texts, BeginCompile(j, e, t), phase' = phase
        PROVE  Safe'
    <3>1. jobs'[j] = [l EXCEPT !.pc = "include", !.entry = e, !.text = t, !.todo = Needs[t]]
      BY <2>1, <2>3 DEF BeginCompile
    <3>2. /\ jobs'[j].pc = "include" /\ jobs'[j].entry = e
          /\ jobs'[j].text = t /\ jobs'[j].todo = Needs[t]
      BY <2>0, <3>1 DEF JobStates
    <3>3. LocalSafe(jobs[j])'
      BY <2>3, <3>2 DEF LocalSafe, BeginCompile
    <3>4. QED
      BY <2>2, <2>3, <3>3 DEF BeginCompile
  <2>4. CASE NextEntry(j)
    <3> DEFINE e == queue[l.qi]
    <3>1. CASE e \notin files /\ docs[e] # Closed
      <4>1. queue \in Seq(Files) /\ l.qi \in 1 .. Len(queue)
        BY <1>0, <2>0, <2>4 DEF NextEntry, Step, TypeInv, LocalOK, JobStates, TypeOK
      <4>2. e \in Files
        BY <4>1
      <4>3. docs[e] \in Texts
        BY <1>0, <3>1, <4>2 DEF TypeInv, TypeOK, Docs
      <4>4. BeginCompile(j, e, docs[e]) /\ phase' = phase
        BY <2>4, <3>1 DEF NextEntry, sessionVars
      <4>5. QED
        BY <2>3, <4>2, <4>3, <4>4
    <3>2. CASE e \in files \/ docs[e] = Closed
      <4>1. PICK r \in {[l EXCEPT !.qi = @ + 1], [l EXCEPT !.pc = "read", !.entry = e]} :
              Become(j, r)
        BY <2>4, <3>2 DEF NextEntry
      <4>2. jobs'[j].pc \in {"next", "read"}
        <5>1. /\ l.pc = "next"
              /\ \/ jobs'[j] = [l EXCEPT !.qi = @ + 1]
                 \/ jobs'[j] = [l EXCEPT !.pc = "read", !.entry = e]
          BY <2>1, <2>4, <4>1 DEF NextEntry, Step
        <5>2. QED
          BY <2>0, <5>1 DEF JobStates
      <4>3. LocalSafe(jobs[j])' /\ phase' = phase
        BY <2>4, <4>2 DEF LocalSafe, NextEntry, sessionVars
      <4>4. QED
        BY <2>2, <4>1, <4>3
    <3>3. QED
      BY <3>1, <3>2
  <2>5. CASE ReadEntry(j)
    <3>1. phase' = phase /\ l.entry \in Files
      BY <1>0, <2>5 DEF ReadEntry, Step, sessionVars, TypeInv, LocalOK
    <3>2. CASE \E t \in Texts : BeginCompile(j, l.entry, t)
      BY <2>3, <3>1, <3>2
    <3>3. CASE Become(j, [l EXCEPT !.pc = "next", !.qi = @ + 1])
      <4>1. jobs'[j].pc = "next"
        <5>1. jobs'[j] = [l EXCEPT !.pc = "next", !.qi = @ + 1]
          BY <2>1, <3>3
        <5>2. QED
          BY <2>0, <5>1 DEF JobStates
      <4>2. QED
        BY <2>2, <3>1, <3>3, <4>1 DEF LocalSafe
    <3>4. QED
      BY <2>5, <3>2, <3>3 DEF ReadEntry
  <2>6. CASE Include(j)
    <3>1. l.pc = "include" /\ phase' = phase /\ files' = files
      BY <2>6 DEF Include, Step, sessionVars
    <3>2. ASSUME NEW x \in l.todo, x \in files, Become(j, [l EXCEPT !.todo = @ \ {x}])
          PROVE  Safe'
      <4>1. /\ jobs'[j].pc = "include" /\ jobs'[j].entry = l.entry
            /\ jobs'[j].text = l.text /\ jobs'[j].todo = l.todo \ {x}
        BY <2>0, <2>1, <3>1, <3>2 DEF JobStates
      <4>2. LocalSafe(jobs[j])'
        BY <2>0, <3>1, <3>2, <4>1 DEF LocalSafe
      <4>3. QED
        BY <2>2, <3>1, <3>2, <4>2
    <3>3. ASSUME NEW x \in l.todo, Become(j, [l EXCEPT !.pc = "lib", !.lib = x])
          PROVE  Safe'
      <4>1. /\ jobs'[j].pc = "lib" /\ jobs'[j].entry = l.entry
            /\ jobs'[j].text = l.text /\ jobs'[j].todo = l.todo
        <5>1. jobs'[j] = [l EXCEPT !.pc = "lib", !.lib = x]
          BY <2>1, <3>3
        <5>2. QED
          BY <2>0, <5>1 DEF JobStates
      <4>2. LocalSafe(jobs[j])'
        BY <2>0, <3>1, <4>1 DEF LocalSafe
      <4>3. QED
        BY <2>2, <3>1, <3>3, <4>2
    <3>4. ASSUME l.todo = {}, Become(j, [l EXCEPT !.pc = "emit"])
          PROVE  Safe'
      <4>1. /\ jobs'[j].pc = "emit" /\ jobs'[j].entry = l.entry
            /\ jobs'[j].text = l.text /\ jobs'[j].todo = {}
        BY <2>0, <2>1, <3>4 DEF JobStates
      <4>2. LocalSafe(jobs[j])'
        BY <2>0, <3>1, <3>4, <4>1 DEF LocalSafe
      <4>3. QED
        BY <2>2, <3>1, <3>4, <4>2
    <3>5. QED
      BY <2>6, <3>2, <3>3, <3>4 DEF Include
  <2>7. CASE ReadLib(j)
    <3>1. /\ l.pc = "lib" /\ phase' = phase /\ files' = files \cup {l.lib}
          /\ Become(j, [l EXCEPT !.pc = "include", !.todo = @ \ {l.lib}])
      BY <2>7 DEF ReadLib, Step, sessionVars
    <3>2. /\ jobs'[j].pc = "include" /\ jobs'[j].entry = l.entry
          /\ jobs'[j].text = l.text /\ jobs'[j].todo = l.todo \ {l.lib}
      <4>1. jobs'[j] = [l EXCEPT !.pc = "include", !.todo = @ \ {l.lib}]
        BY <2>1, <3>1
      <4>2. QED
        BY <2>0, <4>1 DEF JobStates
    <3>3. LocalSafe(jobs[j])'
      BY <2>0, <3>1, <3>2 DEF LocalSafe
    <3>4. QED
      BY <2>2, <3>1, <3>3
  \* The assertion: all includes were opened, and nothing closed them.
  <2>8. CASE Emit(j)
    <3>1. Sources(j) \subseteq files
      BY <2>0, <2>8 DEF Emit, Step, LocalSafe, Sources
    <3>2. Become(j, [l EXCEPT !.pc = "next", !.qi = @ + 1]) /\ phase' = phase
      BY <2>8, <3>1 DEF Emit
    <3>3. jobs'[j].pc = "next"
      <4>1. jobs'[j] = [l EXCEPT !.pc = "next", !.qi = @ + 1]
        BY <2>1, <3>2
      <4>2. QED
        BY <2>0, <4>1 DEF JobStates
    <3>4. QED
      BY <2>2, <3>2, <3>3 DEF LocalSafe
  <2>9. CASE EndQueue(j)
    <3>1. /\ Become(j, [l EXCEPT !.pc = "publish", !.num = Len(diags)])
          /\ phase' = phase /\ diags' \in Sorted(diags)
      BY <2>9 DEF EndQueue, sessionVars
    <3>2. Len(diags') = Len(diags)
      BY <1>0, <3>1, SortedType DEF TypeInv, TypeOK
    <3>3. jobs'[j].pc = "publish" /\ jobs'[j].num = Len(diags)
      <4>1. jobs'[j] = [l EXCEPT !.pc = "publish", !.num = Len(diags)]
        BY <2>1, <3>1
      <4>2. QED
        BY <2>0, <4>1 DEF JobStates
    <3>4. LocalSafe(jobs[j])'
      BY <3>2, <3>3 DEF LocalSafe
    <3>5. QED
      BY <2>2, <3>1, <3>4
  <2>10. CASE PublishDiagnostic(j) \/ BeginMessage(j)
    <3>1. /\ l.num = Len(diags) /\ phase' = phase /\ diags' = diags
          /\ l.pc \in {"publish", "begin"}
      BY <2>0, <2>10 DEF PublishDiagnostic, BeginMessage, Step, LocalSafe, sessionVars
    <3>2. \E r : Become(j, r)
      BY <2>10 DEF PublishDiagnostic, BeginMessage, StartMessage
    <3>3. jobs'[j].num = l.num /\ jobs'[j].pc \in {"publish", "begin", "unpublish"}
      <4> DEFINE d == diags[l.i + 1]
      <4>1. \/ jobs'[j] = [l EXCEPT !.msg = @ \cup {d.msg}, !.i = @ + 1]
            \/ jobs'[j] = [l EXCEPT !.pc = "publish", !.last = d.uri,
                                    !.msg = {d.msg}, !.i = @ + 1]
            \/ jobs'[j] = [l EXCEPT !.pc = IF conn THEN "begin" ELSE "unpublish",
                                    !.last = NoUri, !.msg = {}]
        BY <2>1, <2>10 DEF PublishDiagnostic, BeginMessage, StartMessage
      <4>2. QED
        BY <2>0, <3>1, <4>1 DEF JobStates
    <3>4. LocalSafe(jobs[j])'
      BY <3>1, <3>3 DEF LocalSafe
    <3>5. QED
      BY <2>2, <3>1, <3>2, <3>4
  \* The loop cannot leave the array: its length is still num_diags.
  <2>11. CASE ReadPastEnd(j)
    BY <2>0, <2>11 DEF ReadPastEnd, Step, LocalSafe, JobStates
  <2>12. CASE PublishLast(j) \/ Unpublish(j) \/ EndAnalysis(j)
    <3>1. phase' = phase
      BY <2>12 DEF PublishLast, Unpublish, EndAnalysis, sessionVars
    <3>2. PICK r : Become(j, r) /\ r.pc \in {"unpublish", "idle"}
      <4>1. CASE PublishLast(j)
        BY <2>0, <4>1 DEF PublishLast, JobStates
      <4>2. CASE Unpublish(j)
        BY <2>0, <4>2 DEF Unpublish, Step, JobStates
      <4>3. CASE EndAnalysis(j)
        BY <4>3 DEF EndAnalysis, IdleJob
      <4>4. QED
        BY <2>12, <4>1, <4>2, <4>3
    <3>3. jobs'[j].pc \in {"unpublish", "idle"}
      BY <2>1, <3>2
    <3>4. QED
      BY <2>2, <3>1, <3>2, <3>3 DEF LocalSafe
  <2>13. QED
    BY <1>3, <2>4, <2>5, <2>6, <2>7, <2>8, <2>9, <2>10, <2>11, <2>12 DEF Analyze
<1>4. QED
  BY <1>1, <1>2, <1>3 DEF Next

\* NoAbort holds of every session: an analysis that no other one overlaps never
\* meets a symbol of a file it has not opened, nor leaves the array it publishes.
THEOREM NeverAborts == Spec => []NoAbort
<1>1. SafeInv => NoAbort
  BY DEF SafeInv, Safe, NoAbort
<1>2. QED
  BY SafeInit, SafeStep, <1>1, PTL DEF Spec

-----------------------------------------------------------------------------
(***************************************************************************)
(* What the client is told: the messages are whole, it ends up in step     *)
(* with its documents, and the end of the session releases what it held.   *)
(***************************************************************************)
CompilePcs == {"next", "read", "include", "lib", "emit"}

-----------------------------------------------------------------------------
(***************************************************************************)
(* The end of a session.  Before the main loop no timer is set, no message *)
(* is handled, no document is open, and nothing is shown.                  *)
(***************************************************************************)
Before == phase \in {"initialize", "initialized"}

EndInv ==
    /\ Before => ~timer /\ msgs = 0 /\ docs = NoDocs
    /\ EndReleases

LEMMA EndInit == Init => EndInv
BY DEF Init, EndInv, Before, EndReleases

LEMMA EndStep == EndInv /\ [Next]_vars => EndInv'
<1> SUFFICES ASSUME EndInv, [Next]_vars PROVE EndInv'
  OBVIOUS
<1> USE DEF EndInv, Before, EndReleases, sessionVars
<1>1. CASE RecvError \/ HandshakeExit \/ HandshakeInvalid \/ HandleExit
  BY <1>1 DEF RecvError, Handshake, HandshakeExit, HandshakeInvalid, HandleExit, Receiving, End
<1>2. CASE Initialize \/ InitializeWithoutRoot \/ Initialized
  BY <1>2 DEF Initialize, InitializeWithoutRoot, Initialized, Receiving
<1>3. CASE \/ \E m \in Notifications : HandleTextDocument(m)
           \/ \E f \in Files : HandleCompletion(f)
           \/ HandleShutdown
           \/ HandleOther
  BY <1>3 DEF HandleTextDocument, HandleCompletion, HandleShutdown, HandleOther, Handling,
              Receiving
<1>4. CASE Disconnect
  BY <1>4 DEF Disconnect
<1>5. ASSUME NEW j \in Jobs, StartAnalysis(j) PROVE EndInv'
  BY <1>5 DEF StartAnalysis
<1>6. ASSUME NEW j \in Jobs, Analyze(j) PROVE EndInv'
  <2>1. phase = "running" /\ phase' \in {"running", "aborted", "undefined"}
    BY <1>6 DEF Analyze, NextEntry, ReadEntry, Include, ReadLib, Emit, EndQueue,
         PublishDiagnostic, BeginMessage, ReadPastEnd, PublishLast, Unpublish,
         EndAnalysis, Step
  <2>2. QED
    BY <2>1
<1>7. ASSUME NEW j \in Jobs, ResumeAfterEnd(j) PROVE EndInv'
  BY <1>7 DEF ResumeAfterEnd
<1>8. CASE UNCHANGED vars
  BY <1>8 DEF vars
<1>9. QED
  BY <1>1, <1>2, <1>3, <1>4, <1>5, <1>6, <1>7, <1>8 DEF Next, Message

\* EndReleases for any session: however buxn_ls ends, it leaves no timer that
\* would fire on its context, and a session that handled a message has
\* released what buxn_ls_initialize allocated.
THEOREM AlwaysReleased == Spec => []EndReleases
<1>1. EndInv => EndReleases
  BY DEF EndInv
<1>2. QED
  BY EndInit, EndStep, <1>1, PTL DEF Spec

-----------------------------------------------------------------------------
(***************************************************************************)
(* Publication.  While an analysis runs alone, the diagnostics are sorted, *)
(* the message in hand has every diagnostic of its uri among the first i,  *)
(* and the messages that were sent have all that is reported of theirs.    *)
(***************************************************************************)
Ascending == \A a, b \in 1 .. Len(diags) : a < b => diags[a].uri <= diags[b].uri

\* The message in hand: the diagnostics of the last uri, up to the i-th
MessageOK(r) ==
    IF r.last = NoUri
      THEN r.i = 0
      ELSE /\ r.i >= 1
           /\ r.last = diags[r.i].uri
           /\ r.msg = {diags[k].msg : k \in {k \in 1 .. r.i : diags[k].uri = r.last}}

\* The uris of the first n diagnostics have moved to the current set, and no
\* other uri has.
Moved(n) ==
    /\ cur \subseteq {diags[k].uri : k \in 1 .. n}
    /\ \A k \in 1 .. n : diags[k].uri \notin prev

\* The client shows what is reported of the first n diagnostics' uris but u.
Shown(n, u) ==
    \A k \in 1 .. n :
        diags[k].uri # u => view[diags[k].uri] = MessagesFor(diags, diags[k].uri)

LocalPub(r) ==
    /\ r.pc \in CompilePcs => r.i = 0 /\ r.last = NoUri /\ cur = {}
    /\ r.pc \in {"publish", "begin"} => Ascending /\ r.i <= Len(diags)
    /\ r.pc = "publish" => /\ MessageOK(r)
                           /\ Moved(r.i)
                           /\ conn => Shown(r.i, r.last)
    /\ r.pc = "begin" => /\ r.i >= 1
                         /\ r.i < Len(diags) => /\ diags[r.i].uri # diags[r.i + 1].uri
                                                /\ Moved(r.i + 1)
                         /\ conn => Shown(r.i, NoUri)
    /\ r.pc = "unpublish" /\ conn => Moved(Len(diags)) /\ Shown(Len(diags), NoUri)

Published ==
    /\ (\A j \in Jobs : ~Active(j)) => cur = {}
    /\ \A j \in Jobs : LocalPub(jobs[j])

PubInv == SafeInv /\ (~overlapped => Published)

-----------------------------------------------------------------------------
(***************************************************************************)
(* Lemmas about the messages in a sequence of diagnostics                  *)
(***************************************************************************)
\* Concatenation adds messages.
LEMMA MessagesJoin ==
    ASSUME NEW s \in Seq(Diag), NEW t \in Seq(Diag), NEW u
    PROVE  MessagesFor(s \o t, u) = MessagesFor(s, u) \cup MessagesFor(t, u)
<1> DEFINE st == s \o t
<1>1. /\ st \in Seq(Diag) /\ Len(st) = Len(s) + Len(t)
      /\ Len(s) \in Nat /\ Len(t) \in Nat
      /\ DOMAIN st = 1 .. Len(st) /\ DOMAIN s = 1 .. Len(s) /\ DOMAIN t = 1 .. Len(t)
  OBVIOUS
<1>2. \A k \in 1 .. Len(s) : st[k] = s[k]
  OBVIOUS
<1>3. \A k \in 1 .. Len(t) : st[Len(s) + k] = t[k]
  OBVIOUS
<1>4. \A k \in DOMAIN st : \/ k \in DOMAIN s /\ st[k] = s[k]
                           \/ k - Len(s) \in DOMAIN t /\ st[k] = t[k - Len(s)]
  <2> SUFFICES ASSUME NEW k \in 1 .. Len(s) + Len(t), ~(k \in 1 .. Len(s))
               PROVE  k - Len(s) \in 1 .. Len(t) /\ st[k] = t[k - Len(s)]
    BY <1>1, <1>2
  <2>1. k - Len(s) \in 1 .. Len(t) /\ k = Len(s) + (k - Len(s))
    BY <1>1
  <2>2. QED
    BY <1>3, <2>1
<1>5. /\ \A k \in DOMAIN s : k \in DOMAIN st /\ st[k] = s[k]
      /\ \A k \in DOMAIN t : Len(s) + k \in DOMAIN st /\ st[Len(s) + k] = t[k]
  BY <1>1, <1>2, <1>3
<1> HIDE DEF st
<1>6. MessagesFor(st, u) = MessagesFor(s, u) \cup MessagesFor(t, u)
  <2>1. ASSUME NEW m \in MessagesFor(st, u)
        PROVE  m \in MessagesFor(s, u) \cup MessagesFor(t, u)
    BY <1>4 DEF MessagesFor
  <2>2. ASSUME NEW m \in MessagesFor(s, u) PROVE m \in MessagesFor(st, u)
    BY <1>5 DEF MessagesFor
  <2>3. ASSUME NEW m \in MessagesFor(t, u) PROVE m \in MessagesFor(st, u)
    BY <1>5 DEF MessagesFor
  <2>4. QED
    BY <2>1, <2>2, <2>3
<1>7. QED
  BY <1>6 DEF st

\* Sorting keeps the diagnostics there are, so it keeps the messages.
LEMMA SortedKeeps ==
    ASSUME NEW s \in Seq(Diag), NEW t \in Sorted(s)
    PROVE  /\ \A a, b \in 1 .. Len(t) : a < b => t[a].uri <= t[b].uri
           /\ \A u : MessagesFor(t, u) = MessagesFor(s, u)
<1>1. t \in Seq(Diag) /\ Len(t) = Len(s)
  BY SortedType
<1>2. /\ \A k \in 1 .. Len(s) : \E l \in 1 .. Len(s) : t[k] = s[l]
      /\ \A a, b \in 1 .. Len(s) : a < b => t[a].uri <= t[b].uri
      /\ \A k \in 1 .. Len(s) : Occurrences(t, s[k]) = Occurrences(s, s[k])
  BY DEF Sorted
<1>3. ASSUME NEW k \in 1 .. Len(s) PROVE \E l \in 1 .. Len(s) : t[l] = s[k]
  <2> DEFINE A == {i \in 1 .. Len(s) : s[i] = s[k]}
             B == {i \in 1 .. Len(t) : t[i] = s[k]}
  <2>1. IsFiniteSet(1 .. Len(s)) /\ A \subseteq 1 .. Len(s)
    BY FS_Interval
  <2>2. IsFiniteSet(A)
    BY <2>1, FS_Subset
  <2>3. k \in A
    OBVIOUS
  <2>4. Cardinality(A) # 0
    BY <2>2, <2>3, FS_EmptySet
  <2>5. Cardinality(B) = Cardinality(A)
    BY <1>2 DEF Occurrences
  <2>6. B # {}
    <3> SUFFICES ASSUME B = {} PROVE FALSE
      OBVIOUS
    <3>1. Cardinality({}) = 0
      BY FS_EmptySet
    <3>2. QED
      BY <2>4, <2>5, <3>1
  <2>7. QED
    BY <1>1, <2>6
<1>4. ASSUME NEW u PROVE MessagesFor(t, u) = MessagesFor(s, u)
  <2>1. DOMAIN t = 1 .. Len(s) /\ DOMAIN s = 1 .. Len(s)
    BY <1>1
  <2>2. ASSUME NEW m \in MessagesFor(t, u) PROVE m \in MessagesFor(s, u)
    <3>1. PICK k \in 1 .. Len(s) : t[k].uri = u /\ m = t[k].msg
      BY <2>1 DEF MessagesFor
    <3>2. PICK l \in 1 .. Len(s) : t[k] = s[l]
      BY <1>2
    <3>3. QED
      BY <2>1, <3>1, <3>2 DEF MessagesFor
  <2>3. ASSUME NEW m \in MessagesFor(s, u) PROVE m \in MessagesFor(t, u)
    <3>1. PICK k \in 1 .. Len(s) : s[k].uri = u /\ m = s[k].msg
      BY <2>1 DEF MessagesFor
    <3>2. PICK l \in 1 .. Len(s) : t[l] = s[k]
      BY <1>3
    <3>3. QED
      BY <2>1, <3>1, <3>2 DEF MessagesFor
  <2>4. QED
    BY <2>2, <2>3
<1>5. QED
  BY <1>1, <1>2, <1>4

\* The message in hand is whole once the next diagnostic is another file's, or
\* there is none: what follows sorts behind it.
LEMMA WholeMessage ==
    ASSUME diags \in Seq(Diag), Ascending, NEW r \in JobStates, MessageOK(r), r.last # NoUri,
           r.i <= Len(diags),
           r.i < Len(diags) => diags[r.i + 1].uri # r.last
    PROVE  r.msg = MessagesFor(diags, r.last)
<1>1. r.i \in 1 .. Len(diags) /\ Len(diags) \in Nat /\ DOMAIN diags = 1 .. Len(diags)
  BY DEF MessageOK, JobStates
<1>2. \A k \in 1 .. Len(diags) : diags[k].uri \in Nat
  <2>1. \A k \in 1 .. Len(diags) : diags[k] \in Diag
    OBVIOUS
  <2>2. \A d \in Diag : d.uri \in Nat
    BY SessionAssumption DEF Diag
  <2>3. QED
    BY <2>1, <2>2
<1>3. \A k \in 1 .. Len(diags) : diags[k].uri = r.last => k <= r.i
  <2> SUFFICES ASSUME NEW k \in 1 .. Len(diags), diags[k].uri = r.last, r.i < k PROVE FALSE
    BY <1>1
  <2>1. /\ r.i + 1 \in 1 .. Len(diags) /\ r.i < r.i + 1 /\ r.i < Len(diags)
        /\ r.i + 1 = k \/ r.i + 1 < k
    BY <1>1
  <2>2. diags[r.i].uri <= diags[r.i + 1].uri /\ diags[r.i + 1].uri <= diags[k].uri
    BY <1>1, <1>2, <2>1 DEF Ascending
  <2>3. r.last = diags[r.i].uri
    BY DEF MessageOK
  <2>4. QED
    BY <1>1, <1>2, <2>1, <2>2, <2>3
<1>4. \A k : k \in 1 .. r.i /\ diags[k].uri = r.last
             <=> k \in DOMAIN diags /\ diags[k].uri = r.last
  BY <1>1, <1>3
<1>5. {k \in 1 .. r.i : diags[k].uri = r.last} = {k \in DOMAIN diags : diags[k].uri = r.last}
  BY <1>4
<1>6. QED
  BY <1>5 DEF MessageOK, MessagesFor

-----------------------------------------------------------------------------
(***************************************************************************)
(* The messages are whole.                                                 *)
(***************************************************************************)
\* A step of an analysis that runs alone concerns its own variables only.
LEMMA SoloStep ==
    ASSUME SafeInv, ~overlapped, NEW j \in Jobs, Analyze(j)
    PROVE  /\ phase = "running" /\ Active(j)
           /\ UNCHANGED <<overlapped, conn, docs, timer, suppressed, queue>>
           /\ jobs[j] \in JobStates /\ LocalOK(jobs[j])
           /\ \A k \in Jobs \ {j} : jobs[k] = IdleJob /\ jobs'[k] = IdleJob
           /\ \A r : Become(j, r) => jobs'[j] = r
<1>1. FeedInv /\ TypeInv /\ jobs \in [Jobs -> JobStates]
  BY DEF SafeInv, FeedInv, TypeInv, TypeOK
<1>2. /\ phase = "running" /\ Active(j)
      /\ UNCHANGED <<overlapped, conn, docs, timer, suppressed, queue>>
  BY DEF Analyze, NextEntry, ReadEntry, Include, ReadLib, Emit, EndQueue,
       PublishDiagnostic, BeginMessage, ReadPastEnd, PublishLast, Unpublish,
       EndAnalysis, Step, Active, sessionVars, analysisVars
<1>3. \A k \in Jobs \ {j} : jobs[k] = IdleJob
  BY <1>1, <1>2 DEF FeedInv, Solo, TypeInv, LocalOK, Active
<1>4. jobs' = jobs \/ \E r : Become(j, r)
  BY DEF Analyze, NextEntry, ReadEntry, Include, ReadLib, Emit, EndQueue,
       PublishDiagnostic, BeginMessage, ReadPastEnd, PublishLast, Unpublish,
       EndAnalysis, BeginCompile, StartMessage, analysisVars
<1>5. \A k \in Jobs \ {j} : jobs'[k] = jobs[k]
  BY <1>1, <1>4 DEF Become
<1>6. \A r : Become(j, r) => jobs'[j] = r
  BY <1>1 DEF Become
<1>7. QED
  BY <1>1, <1>2, <1>3, <1>5, <1>6 DEF TypeInv

\* The compilation leaves alone what the publication uses.
LEMMA CompileStep ==
    ASSUME SafeInv, ~overlapped, NEW j \in Jobs,
           NextEntry(j) \/ ReadEntry(j) \/ Include(j) \/ ReadLib(j) \/ Emit(j)
    PROVE  /\ jobs[j].pc \in CompilePcs /\ jobs'[j].pc \in CompilePcs
           /\ jobs'[j].i = jobs[j].i /\ jobs'[j].last = jobs[j].last
           /\ UNCHANGED <<prev, cur, view>>
<1> DEFINE l == jobs[j]
<1>0. Analyze(j)
  BY DEF Analyze
<1>1. l \in JobStates /\ \A r : Become(j, r) => jobs'[j] = r
  BY <1>0, SoloStep
<1>2. l.pc \in CompilePcs /\ UNCHANGED <<prev, cur, view>>
  BY DEF NextEntry, ReadEntry, Include, ReadLib, Emit, Step, CompilePcs
<1>3. ASSUME NEW e, NEW t, BeginCompile(j, e, t)
      PROVE  jobs'[j].pc \in CompilePcs /\ jobs'[j].i = l.i /\ jobs'[j].last = l.last
  <2>1. jobs'[j] = [l EXCEPT !.pc = "include", !.entry = e, !.text = t, !.todo = Needs[t]]
    BY <1>1, <1>3 DEF BeginCompile
  <2>2. QED
    BY <1>1, <2>1 DEF JobStates, CompilePcs
<1>4. CASE NextEntry(j)
  <2> DEFINE e == queue[l.qi]
  <2>1. \/ jobs'[j] = [l EXCEPT !.qi = @ + 1]
        \/ BeginCompile(j, e, docs[e])
        \/ jobs'[j] = [l EXCEPT !.pc = "read", !.entry = e]
    BY <1>1, <1>4 DEF NextEntry
  <2> HIDE DEF e
  <2>2. CASE jobs'[j] = [l EXCEPT !.qi = @ + 1]
    BY <1>1, <1>2, <2>2 DEF JobStates
  <2>3. CASE BeginCompile(j, e, docs[e])
    BY <1>2, <1>3, <2>3
  <2>4. CASE jobs'[j] = [l EXCEPT !.pc = "read", !.entry = e]
    BY <1>1, <1>2, <2>4 DEF JobStates, CompilePcs
  <2>5. QED
    BY <2>1, <2>2, <2>3, <2>4
<1>5. CASE ReadEntry(j)
  <2>1. CASE \E t \in Texts : BeginCompile(j, l.entry, t)
    BY <1>2, <1>3, <2>1
  <2>2. CASE Become(j, [l EXCEPT !.pc = "next", !.qi = @ + 1])
    <3>1. jobs'[j] = [l EXCEPT !.pc = "next", !.qi = @ + 1]
      BY <1>1, <2>2
    <3>2. QED
      BY <1>1, <1>2, <3>1 DEF JobStates, CompilePcs
  <2>3. QED
    BY <1>5, <2>1, <2>2 DEF ReadEntry
<1>6. CASE Include(j)
  <2>1. \/ \E x \in l.todo : \/ jobs'[j] = [l EXCEPT !.todo = @ \ {x}]
                             \/ jobs'[j] = [l EXCEPT !.pc = "lib", !.lib = x]
        \/ jobs'[j] = [l EXCEPT !.pc = "emit"]
    BY <1>1, <1>6 DEF Include
  <2>2. QED
    BY <1>1, <1>2, <2>1 DEF JobStates, CompilePcs
<1>7. CASE ReadLib(j)
  <2>1. jobs'[j] = [l EXCEPT !.pc = "include", !.todo = @ \ {l.lib}]
    BY <1>1, <1>7 DEF ReadLib
  <2>2. QED
    BY <1>1, <1>2, <2>1 DEF JobStates, CompilePcs
<1>8. CASE Emit(j)
  <2>1. jobs' = jobs \/ jobs'[j] = [l EXCEPT !.pc = "next", !.qi = @ + 1]
    BY <1>1, <1>8 DEF Emit
  <2>2. QED
    BY <1>1, <1>2, <2>1 DEF JobStates, CompilePcs
<1>9. QED
  BY <1>4, <1>5, <1>6, <1>7, <1>8

\* A diagnostic that exists has a uri that is not NULL.
LEMMA DiagUri ==
    ASSUME diags \in Seq(Diag)
    PROVE  \A k \in 1 .. Len(diags) : diags[k].uri \in Uris /\ diags[k].uri # NoUri
<1>1. \A k \in 1 .. Len(diags) : diags[k] \in Diag
  OBVIOUS
<1>2. \A d \in Diag : d.uri \in Uris /\ d.uri # NoUri
  BY SessionAssumption DEF Diag
<1>3. QED
  BY <1>1, <1>2

\* Another diagnostic of the uri in hand, or the first one of a new message
LEMMA MessageGrows ==
    ASSUME diags \in Seq(Diag), NEW r \in JobStates, r.i < Len(diags), MessageOK(r),
           diags[r.i + 1].uri = r.last,
           NEW n, n.i = r.i + 1, n.last = r.last, n.msg = r.msg \cup {diags[r.i + 1].msg}
    PROVE  MessageOK(n)
<1>1. r.i \in Nat /\ Len(diags) \in Nat /\ r.i + 1 \in 1 .. Len(diags)
  BY DEF JobStates
<1>2. r.last # NoUri
  BY <1>1, DiagUri
<1>3. 1 .. r.i + 1 = 1 .. r.i \cup {r.i + 1}
  BY <1>1
<1>4. n.msg = {diags[k].msg : k \in {k \in 1 .. r.i + 1 : diags[k].uri = r.last}}
  BY <1>2, <1>3 DEF MessageOK
<1>5. QED
  BY <1>1, <1>2, <1>4 DEF MessageOK

LEMMA MessageBegins ==
    ASSUME diags \in Seq(Diag), NEW r \in JobStates, r.i < Len(diags),
           \A k \in 1 .. r.i : diags[k].uri # diags[r.i + 1].uri,
           NEW n, n.i = r.i + 1, n.last = diags[r.i + 1].uri, n.msg = {diags[r.i + 1].msg}
    PROVE  MessageOK(n) /\ n.last # NoUri
<1>1. r.i \in Nat /\ Len(diags) \in Nat /\ r.i + 1 \in 1 .. Len(diags)
  BY DEF JobStates
<1>2. n.last # NoUri
  BY <1>1, DiagUri
<1>3. {k \in 1 .. r.i + 1 : diags[k].uri = n.last} = {r.i + 1}
  BY <1>1
<1>4. n.msg = {diags[k].msg : k \in {k \in 1 .. n.i : diags[k].uri = n.last}}
  BY <1>3
<1>5. QED
  BY <1>1, <1>2, <1>4 DEF MessageOK

LEMMA PubInit == Init => PubInv
<1> SUFFICES ASSUME Init PROVE Published
  BY SafeInit DEF PubInv
<1>1. QED
  BY DEF Init, Published, LocalPub, IdleJob, CompilePcs

\* Only an analysis changes what the invariant speaks of, except that the
\* client may go away.
LEMMA PubRest ==
    ASSUME Published, UNCHANGED analysisVars, conn' = conn \/ conn' = FALSE
    PROVE  Published'
<1>1. UNCHANGED <<jobs, diags, prev, cur, view>>
  BY DEF analysisVars
<1>2. (\A j \in Jobs : ~Active(j))' => cur' = {}
  BY <1>1 DEF Published, Active
<1>3. ASSUME NEW j \in Jobs PROVE LocalPub(jobs[j])'
  <2>1. LocalPub(jobs[j])
    BY DEF Published
  <2>2. QED
    BY <1>1, <2>1 DEF LocalPub, Ascending, MessageOK, Moved, Shown
<1>4. QED
  BY <1>2, <1>3 DEF Published

LEMMA PubAnalyze ==
    ASSUME SafeInv, Published, ~overlapped, NEW j \in Jobs, Analyze(j)
    PROVE  Published'
<1> DEFINE l == jobs[j]
           n == jobs'[j]
<1>0. /\ l \in JobStates /\ LocalOK(l) /\ LocalPub(l) /\ LocalSafe(l) /\ conn' = conn
      /\ \A k \in Jobs \ {j} : jobs'[k] = IdleJob
      /\ \A r : Become(j, r) => n = r
      /\ diags \in Seq(Diag) /\ view \in [Uris -> SUBSET Msgs]
      /\ l.i \in Nat /\ Len(diags) \in Nat
  <2>1. diags \in Seq(Diag) /\ view \in [Uris -> SUBSET Msgs]
    BY DEF SafeInv, FeedInv, TypeInv, TypeOK
  <2>2. l \in JobStates
    BY SoloStep
  <2>3. l.i \in Nat
    BY <2>2 DEF JobStates
  <2>4. LocalPub(l) /\ LocalSafe(l)
    BY DEF Published, SafeInv, Safe
  <2>5. QED
    BY <2>1, <2>2, <2>3, <2>4, SoloStep
\* It is enough to look at the analysis that takes the step.
<1>1. ASSUME n.pc # "idle" \/ cur' = {}, LocalPub(jobs[j])' PROVE Published'
  <2>1. \A k \in Jobs \ {j} : jobs'[k].pc = "idle"
    BY <1>0 DEF IdleJob
  <2>2. \A k \in Jobs \ {j} : LocalPub(jobs[k])'
    BY <2>1 DEF LocalPub, CompilePcs
  <2>3. QED
    BY <1>1, <2>2 DEF Published, Active
<1>2. CASE NextEntry(j) \/ ReadEntry(j) \/ Include(j) \/ ReadLib(j) \/ Emit(j)
  <2>1. /\ l.pc \in CompilePcs /\ n.pc \in CompilePcs /\ n.i = l.i /\ n.last = l.last
        /\ UNCHANGED <<prev, cur, view>>
    BY <1>2, CompileStep
  <2>2. LocalPub(jobs[j])'
    BY <1>0, <2>1 DEF LocalPub, CompilePcs
  <2>3. n.pc # "idle"
    BY <2>1 DEF CompilePcs
  <2>4. QED
    BY <1>1, <2>2, <2>3
<1>3. CASE EndQueue(j)
  <2>1. /\ n = [l EXCEPT !.pc = "publish", !.num = Len(diags)]
        /\ l.pc = "next" /\ diags' \in Sorted(diags) /\ UNCHANGED <<prev, cur, view>>
    BY <1>0, <1>3 DEF EndQueue, Step
  <2>2. n.pc = "publish" /\ n.i = 0 /\ n.last = NoUri /\ cur' = {}
    BY <1>0, <2>1 DEF JobStates, LocalPub, CompilePcs
  <2>3. Ascending' /\ Len(diags') \in Nat
    BY <1>0, <2>1, SortedKeeps, SortedType DEF Ascending
  <2>4. LocalPub(jobs[j])'
    BY <2>2, <2>3 DEF LocalPub, CompilePcs, MessageOK, Moved, Shown
  <2>5. QED
    BY <1>1, <2>2, <2>4
<1>4. CASE PublishDiagnostic(j)
  <2> DEFINE d == diags[l.i + 1]
  <2>0. /\ l.pc = "publish" /\ l.i < Len(diags) /\ diags' = diags
        /\ Ascending /\ MessageOK(l) /\ Moved(l.i)
        /\ conn => Shown(l.i, l.last)
    BY <1>0, <1>4 DEF PublishDiagnostic, Step, LocalPub, sessionVars
  <2>1. l.i + 1 \in 1 .. Len(diags) /\ d.uri \in Uris /\ d.uri # NoUri
    <3>1. l.i + 1 \in 1 .. Len(diags)
      BY <1>0, <2>0
    <3>2. QED
      BY <1>0, <3>1, DiagUri
  <2>2. CASE d.uri = l.last
    <3>1. /\ n = [l EXCEPT !.msg = @ \cup {d.msg}, !.i = @ + 1]
          /\ UNCHANGED <<prev, cur, view>>
      BY <1>0, <1>4, <2>2 DEF PublishDiagnostic
    <3>2. /\ n.pc = "publish" /\ n.i = l.i + 1 /\ n.last = l.last
          /\ n.msg = l.msg \cup {d.msg}
      BY <1>0, <2>0, <3>1 DEF JobStates
    <3>3. MessageOK(n)
      BY <1>0, <2>0, <2>2, <3>2, MessageGrows
    <3>4. l.i >= 1 /\ diags[l.i].uri = d.uri /\ l.i \in 1 .. l.i
      BY <1>0, <2>0, <2>1, <2>2 DEF MessageOK
    <3>5. \A k \in 1 .. l.i + 1 : k \in 1 .. l.i \/ k = l.i + 1
      BY <1>0
    <3>6. Moved(l.i + 1)
      BY <1>0, <2>0, <3>4, <3>5 DEF Moved
    <3>7. conn => Shown(l.i + 1, l.last)
      BY <2>0, <2>2, <3>5 DEF Shown
    <3> HIDE DEF d
    <3>8. MessageOK(jobs[j])'
      BY <2>0, <3>3 DEF MessageOK
    <3>9. Moved(jobs[j].i)' /\ (conn => Shown(jobs[j].i, jobs[j].last)')
      BY <2>0, <3>1, <3>2, <3>6, <3>7 DEF Moved, Shown
    <3>10. LocalPub(jobs[j])'
      BY <1>0, <2>0, <2>1, <3>2, <3>8, <3>9 DEF LocalPub, Ascending, CompilePcs
    <3>11. QED
      BY <1>1, <3>2, <3>10
  <2>3. CASE d.uri # l.last /\ l.last = NoUri
    <3>1. /\ n = [l EXCEPT !.pc = "publish", !.last = d.uri, !.msg = {d.msg}, !.i = @ + 1]
          /\ Diagnose(d.uri) /\ view' = view
      BY <1>0, <1>4, <2>3 DEF PublishDiagnostic, StartMessage
    <3>2. n.pc = "publish" /\ n.i = l.i + 1 /\ n.last = d.uri /\ n.msg = {d.msg}
      BY <1>0, <2>0, <3>1 DEF JobStates
    <3>3. l.i = 0 /\ cur = {}
      BY <2>0, <2>3 DEF MessageOK, Moved
    <3>4. MessageOK(n)
      BY <1>0, <2>0, <3>2, <3>3, MessageBegins
    <3>5. n.i = 1 /\ diags[1] = d /\ cur' = {d.uri} /\ d.uri \notin prev'
      BY <3>1, <3>2, <3>3 DEF Diagnose
    <3> HIDE DEF d
    <3>6. MessageOK(jobs[j])'
      BY <2>0, <3>4 DEF MessageOK
    <3>7. Moved(jobs[j].i)' /\ Shown(jobs[j].i, jobs[j].last)'
      BY <2>0, <3>2, <3>5 DEF Moved, Shown
    <3>8. LocalPub(jobs[j])'
      BY <1>0, <2>0, <2>1, <3>2, <3>6, <3>7 DEF LocalPub, Ascending, CompilePcs
    <3>9. QED
      BY <1>1, <3>2, <3>8
  <2>4. CASE d.uri # l.last /\ l.last # NoUri
    <3>1. /\ n = [l EXCEPT !.pc = IF conn THEN "begin" ELSE "unpublish",
                           !.last = NoUri, !.msg = {}]
          /\ Diagnose(d.uri) /\ Send(l.last, l.msg)
      BY <1>0, <1>4, <2>4 DEF PublishDiagnostic
    <3>2. /\ n.pc = (IF conn THEN "begin" ELSE "unpublish") /\ n.i = l.i /\ n.last = NoUri
      BY <1>0, <3>1 DEF JobStates
    <3>3. CASE ~conn
      BY <1>0, <1>1, <3>2, <3>3 DEF LocalPub, CompilePcs
    <3>4. CASE conn
      <4>1. l.msg = MessagesFor(diags, l.last) /\ l.i >= 1 /\ l.last = diags[l.i].uri
        <5>1. l \in JobStates /\ diags \in Seq(Diag) /\ MessageOK(l) /\ Ascending
          BY <1>0, <2>0
        <5>2. l.last # NoUri /\ l.i <= Len(diags) /\ diags[l.i + 1].uri # l.last
          BY <1>0, <2>0, <2>4
        <5>3. l.msg = MessagesFor(diags, l.last)
          BY <5>1, <5>2, WholeMessage
        <5>4. l.i >= 1 /\ l.last = diags[l.i].uri
          BY <5>1, <5>2 DEF MessageOK
        <5> QED
          BY <5>3, <5>4
      <4>2. view' = [view EXCEPT ![l.last] = MessagesFor(diags, l.last)]
        BY <3>1, <3>4, <4>1 DEF Send
      <4>3. \A k \in 1 .. l.i : diags[k].uri \in Uris
        BY <1>0, <2>0, DiagUri
      <4> HIDE DEF d
      <4>4. \A k \in 1 .. l.i : view'[diags[k].uri] = MessagesFor(diags, diags[k].uri)
        BY <1>0, <2>0, <3>4, <4>2, <4>3 DEF Shown
      <4>5. Shown(jobs[j].i, NoUri)'
        BY <2>0, <3>2, <4>4 DEF Shown
      <4>6. \A k \in 1 .. l.i + 1 : k \in 1 .. l.i \/ k = l.i + 1
        BY <1>0
      <4>7. cur' = cur \cup {d.uri} /\ prev' = prev \ {d.uri} /\ d = diags[l.i + 1]
        BY <3>1 DEF Diagnose, d
      <4>8. l.i + 1 \in 1 .. l.i + 1 /\ \A k \in 1 .. l.i : k \in 1 .. l.i + 1
        BY <1>0
      <4>9. Moved(jobs[j].i + 1)'
        BY <2>0, <3>2, <4>6, <4>7, <4>8 DEF Moved
      <4>10. n.pc = "begin" /\ diags[n.i].uri # diags[n.i + 1].uri
        BY <2>4, <3>2, <3>4, <4>1, <4>7
      <4>11. LocalPub(jobs[j])'
        BY <1>0, <2>0, <3>2, <4>1, <4>5, <4>9, <4>10 DEF LocalPub, Ascending, CompilePcs
      <4>12. QED
        BY <1>1, <4>10, <4>11
    <3>5. QED
      BY <3>3, <3>4
  <2>5. QED
    BY <2>2, <2>3, <2>4
<1>5. CASE BeginMessage(j)
  <2> DEFINE d == diags[l.i + 1]
  <2>0. /\ l.pc = "begin" /\ l.i < Len(diags) /\ diags' = diags
        /\ UNCHANGED <<prev, cur, view>>
        /\ Ascending /\ l.i >= 1 /\ Moved(l.i + 1) /\ diags[l.i].uri # d.uri
        /\ conn => Shown(l.i, NoUri)
    BY <1>0, <1>5 DEF BeginMessage, Step, LocalPub
  <2>1. n = [l EXCEPT !.pc = "publish", !.last = d.uri, !.msg = {d.msg}, !.i = @ + 1]
    BY <1>0, <1>5 DEF BeginMessage, StartMessage
  <2>2. n.pc = "publish" /\ n.i = l.i + 1 /\ n.last = d.uri /\ n.msg = {d.msg}
    BY <1>0, <2>0, <2>1 DEF JobStates
  <2>3. \A k \in 1 .. l.i : diags[k].uri # d.uri
    <3> SUFFICES ASSUME NEW k \in 1 .. l.i PROVE diags[k].uri # d.uri
      OBVIOUS
    <3>1. /\ k \in 1 .. Len(diags) /\ l.i \in 1 .. Len(diags) /\ l.i + 1 \in 1 .. Len(diags)
          /\ k = l.i \/ k < l.i
      BY <1>0, <2>0
    <3>2. \/ diags[k].uri <= diags[l.i].uri /\ diags[l.i].uri <= d.uri
          \/ k = l.i
      BY <1>0, <2>0, <3>1 DEF Ascending
    <3>3. diags[k].uri \in Nat /\ diags[l.i].uri \in Nat /\ d.uri \in Nat
      BY <1>0, <3>1, DiagUri, SessionAssumption
    <3>4. QED
      BY <2>0, <3>2, <3>3
  <2>4. MessageOK(n)
    BY <1>0, <2>0, <2>2, <2>3, MessageBegins
  <2>5. \A k \in 1 .. l.i + 1 : k \in 1 .. l.i \/ k = l.i + 1
    BY <1>0
  <2>6. \A k \in 1 .. l.i : diags[k].uri # NoUri
    BY <1>0, <2>0, DiagUri
  <2>7. conn => Shown(l.i + 1, d.uri)
    BY <2>0, <2>5, <2>6 DEF Shown
  <2> HIDE DEF d
  <2>8. MessageOK(jobs[j])'
    BY <2>0, <2>4 DEF MessageOK
  <2>9. Moved(jobs[j].i)' /\ (conn => Shown(jobs[j].i, jobs[j].last)')
    BY <2>0, <2>2, <2>7 DEF Moved, Shown
  <2>10. LocalPub(jobs[j])'
    BY <1>0, <2>0, <2>2, <2>8, <2>9 DEF LocalPub, Ascending, CompilePcs
  <2>11. QED
    BY <1>1, <2>2, <2>10
<1>6. CASE ReadPastEnd(j)
  BY <1>0, <1>6, PubRest DEF ReadPastEnd
<1>7. CASE PublishLast(j)
  <2>0. /\ l.pc = "publish" /\ l.i = Len(diags) /\ diags' = diags /\ UNCHANGED <<prev, cur>>
        /\ Ascending /\ MessageOK(l) /\ Moved(l.i)
        /\ conn => Shown(l.i, l.last)
    BY <1>0, <1>7 DEF PublishLast, Step, LocalPub, LocalSafe
  <2>1. n.pc = "unpublish"
    <3>1. n = [l EXCEPT !.pc = "unpublish"]
      BY <1>0, <1>7 DEF PublishLast
    <3>2. QED
      BY <1>0, <3>1 DEF JobStates
  <2>2. ASSUME conn PROVE Shown(Len(diags), NoUri)'
    <3>1. CASE l.last = NoUri
      BY <1>0, <2>0, <3>1 DEF MessageOK, Shown
    <3>2. CASE l.last # NoUri
      <4>1. l.msg = MessagesFor(diags, l.last)
        BY <1>0, <2>0, <3>2, WholeMessage
      <4>2. view' = [view EXCEPT ![l.last] = MessagesFor(diags, l.last)]
        BY <1>7, <2>2, <3>2, <4>1 DEF PublishLast, Send
      <4>3. \A k \in 1 .. Len(diags) : diags[k].uri \in Uris
        BY <1>0, DiagUri
      <4>4. \A k \in 1 .. Len(diags) : view'[diags[k].uri] = MessagesFor(diags, diags[k].uri)
        BY <1>0, <2>0, <2>2, <4>2, <4>3 DEF Shown
      <4>5. QED
        BY <2>0, <4>4 DEF Shown
    <3>3. QED
      BY <3>1, <3>2
  <2>3. Moved(Len(diags))'
    BY <2>0 DEF Moved
  <2>4. LocalPub(jobs[j])'
    BY <1>0, <2>1, <2>2, <2>3 DEF LocalPub, CompilePcs
  <2>5. QED
    BY <1>1, <2>1, <2>4
<1>8. CASE Unpublish(j)
  <2>0. /\ l.pc = "unpublish" /\ UNCHANGED <<prev, cur, diags>>
        /\ conn => Moved(Len(diags)) /\ Shown(Len(diags), NoUri)
    BY <1>0, <1>8 DEF Unpublish, Step, LocalPub
  <2>1. PICK u \in prev : Send(u, {}) /\ n = [l EXCEPT !.done = @ \cup {u}]
    BY <1>0, <1>8 DEF Unpublish
  <2>2. n.pc = "unpublish"
    BY <1>0, <2>0, <2>1 DEF JobStates
  <2>3. ASSUME conn PROVE Shown(Len(diags), NoUri)'
    <3>1. view' = [view EXCEPT ![u] = {}] /\ \A k \in 1 .. Len(diags) : diags[k].uri # u
      BY <2>0, <2>1, <2>3 DEF Send, Moved
    <3>2. QED
      BY <1>0, <2>0, <2>3, <3>1 DEF Shown
  <2>4. conn => Moved(Len(diags))'
    BY <2>0 DEF Moved
  <2>5. LocalPub(jobs[j])'
    BY <1>0, <2>2, <2>3, <2>4 DEF LocalPub, CompilePcs
  <2>6. QED
    BY <1>1, <2>2, <2>5
<1>9. CASE EndAnalysis(j)
  <2>1. cur' = {} /\ n = IdleJob
    BY <1>0, <1>9 DEF EndAnalysis
  <2>2. LocalPub(jobs[j])'
    BY <2>1 DEF LocalPub, IdleJob, CompilePcs
  <2>3. QED
    BY <1>1, <2>1, <2>2
<1>10. QED
  BY <1>2, <1>3, <1>4, <1>5, <1>6, <1>7, <1>8, <1>9 DEF Analyze

LEMMA PubStep == PubInv /\ [Next]_vars => PubInv'
<1> SUFFICES ASSUME PubInv, [Next]_vars, ~overlapped' PROVE Published'
  BY SafeStep DEF PubInv
<1>0. SafeInv /\ TypeInv /\ (~overlapped => Published)
  BY DEF PubInv, SafeInv, FeedInv
<1>1. CASE Message \/ Disconnect \/ (\E j \in Jobs : ResumeAfterEnd(j)) \/ UNCHANGED vars
  <2>1. UNCHANGED analysisVars /\ (conn' = conn \/ conn' = FALSE)
    BY <1>1 DEF Message, RecvError, Initialize, InitializeWithoutRoot, Initialized,
         Handshake, HandshakeExit, HandshakeInvalid, HandleTextDocument,
         HandleCompletion, HandleShutdown,
         HandleOther, HandleExit, End, Disconnect, ResumeAfterEnd, vars
  <2>2. overlapped' = overlapped
    BY <2>1 DEF analysisVars
  <2>3. QED
    BY <1>0, <2>1, <2>2, PubRest
<1>2. ASSUME NEW j \in Jobs, StartAnalysis(j) PROVE Published'
  <2>1. ~overlapped /\ (\A k \in Jobs : ~Active(k)) /\ cur' = cur
    BY <1>2 DEF StartAnalysis
  <2>2. cur' = {}
    BY <1>0, <2>1 DEF Published
  <2>3. /\ jobs'[j] = [IdleJob EXCEPT !.pc = "next", !.qi = 1]
        /\ \A k \in Jobs \ {j} : jobs'[k] = jobs[k]
    BY <1>0, <1>2 DEF StartAnalysis, Become, TypeInv, TypeOK
  <2>4. LocalPub(jobs[j])'
    BY <2>2, <2>3 DEF LocalPub, IdleJob, CompilePcs
  <2>5. \A k \in Jobs \ {j} : LocalPub(jobs[k])'
    BY <2>1, <2>3 DEF LocalPub, Active, CompilePcs
  <2>6. QED
    BY <2>2, <2>4, <2>5 DEF Published
<1>3. ASSUME NEW j \in Jobs, Analyze(j) PROVE Published'
  <2>1. overlapped' = overlapped
    BY <1>3 DEF Analyze, NextEntry, ReadEntry, Include, ReadLib, Emit, EndQueue,
       PublishDiagnostic, BeginMessage, ReadPastEnd, PublishLast, Unpublish,
       EndAnalysis, analysisVars
  <2>2. QED
    BY <1>0, <1>3, <2>1, PubAnalyze
<1>4. QED
  BY <1>1, <1>2, <1>3 DEF Next

\* Every message that changes what the client shows is the whole of it.
LEMMA WholeFromInv ==
    ASSUME PubInv, [Next]_vars, NEW u \in Uris, view'[u] # view[u], ~overlapped
    PROVE  view'[u] = MessagesFor(diags, u)
<1>0. /\ SafeInv /\ Published /\ diags \in Seq(Diag) /\ view \in [Uris -> SUBSET Msgs]
  BY DEF PubInv, SafeInv, FeedInv, TypeInv, TypeOK
<1>1. CASE Message \/ Disconnect \/ (\E j \in Jobs : ResumeAfterEnd(j)) \/ UNCHANGED vars
  <2>1. UNCHANGED analysisVars
    BY <1>1 DEF Message, RecvError, Initialize, InitializeWithoutRoot, Initialized,
         Handshake, HandshakeExit, HandshakeInvalid, HandleTextDocument,
         HandleCompletion, HandleShutdown,
         HandleOther, HandleExit, End, Disconnect, ResumeAfterEnd, vars
  <2>2. QED
    BY <2>1 DEF analysisVars
<1>2. ASSUME NEW j \in Jobs, StartAnalysis(j) PROVE FALSE
  BY <1>2 DEF StartAnalysis
<1>3. ASSUME NEW j \in Jobs, Analyze(j) PROVE view'[u] = MessagesFor(diags, u)
  <2> DEFINE l == jobs[j]
  <2>0. l \in JobStates /\ LocalPub(l) /\ LocalSafe(l) /\ l.i \in Nat /\ Len(diags) \in Nat
    <3>1. l \in JobStates
      BY <1>0, <1>3, SoloStep
    <3>2. l.i \in Nat
      BY <3>1 DEF JobStates
    <3>3. QED
      BY <1>0, <3>1, <3>2 DEF Published, SafeInv, Safe
  \* A message with the diagnostics of the last uri
  <2>1. ASSUME l.pc = "publish", l.last # NoUri, Send(l.last, l.msg),
               l.i < Len(diags) => diags[l.i + 1].uri # l.last
        PROVE  view'[u] = MessagesFor(diags, u)
    <3>1. Ascending /\ MessageOK(l) /\ l.i <= Len(diags)
      BY <2>0, <2>1 DEF LocalPub
    <3>2. l.msg = MessagesFor(diags, l.last)
      BY <1>0, <2>0, <2>1, <3>1, WholeMessage
    <3>3. QED
      BY <1>0, <2>1, <3>2 DEF Send
  <2>2. CASE PublishDiagnostic(j)
    <3>1. /\ l.pc = "publish" /\ l.last # NoUri /\ Send(l.last, l.msg)
          /\ diags[l.i + 1].uri # l.last
      BY <2>2 DEF PublishDiagnostic, Step
    <3>2. QED
      BY <2>1, <3>1
  <2>3. CASE PublishLast(j)
    <3>1. l.pc = "publish" /\ l.last # NoUri /\ Send(l.last, l.msg) /\ l.i = l.num
      BY <2>3 DEF PublishLast, Step
    <3>2. l.i = Len(diags)
      BY <2>0, <3>1 DEF LocalSafe
    <3>3. QED
      BY <2>0, <2>1, <3>1, <3>2
  <2>4. CASE Unpublish(j)
    <3>1. PICK w \in prev : Send(w, {})
      BY <2>4 DEF Unpublish
    <3>2. conn /\ w = u /\ view'[u] = {} /\ l.pc = "unpublish"
      BY <1>0, <2>4, <3>1 DEF Send, Unpublish, Step
    <3>3. \A k \in 1 .. Len(diags) : diags[k].uri # u
      BY <2>0, <3>2 DEF LocalPub, Moved
    <3>4. MessagesFor(diags, u) = {}
      BY <1>0, <3>3 DEF MessagesFor
    <3>5. QED
      BY <3>2, <3>4
  <2>5. CASE \/ NextEntry(j) \/ ReadEntry(j) \/ Include(j) \/ ReadLib(j) \/ Emit(j)
             \/ EndQueue(j) \/ BeginMessage(j) \/ ReadPastEnd(j) \/ EndAnalysis(j)
    BY <2>5 DEF NextEntry, ReadEntry, Include, ReadLib, Emit, EndQueue, BeginMessage,
         ReadPastEnd, EndAnalysis, analysisVars
  <2>6. QED
    BY <1>3, <2>2, <2>3, <2>4, <2>5 DEF Analyze
<1>4. QED
  BY <1>1, <1>2, <1>3 DEF Next

\* PublishesWhole for any number of documents, contents and reports: as long
\* as analyses do not overlap, no publishDiagnostics message shows a part of
\* what the analysis has found for a file, or clears a file it has found
\* something for.
THEOREM MessagesWhole == Spec => PublishesWhole
<1> DEFINE Whole == \A u \in Uris : view'[u] # view[u] =>
                      overlapped \/ view'[u] = MessagesFor(diags, u)
<1>1. PubInv /\ [Next]_vars => [Whole]_vars
  BY WholeFromInv
<1>2. QED
  BY PubInit, PubStep, <1>1, PTL DEF Spec, PublishesWhole

-----------------------------------------------------------------------------
(***************************************************************************)
(* Nothing else is in the two sets.  A uri of the previous set is shown,   *)
(* until the analysis in progress has unpublished it; what it has put in   *)
(* the current set is shown when it ends.                                  *)
(***************************************************************************)
Tidy == \A u \in prev : view[u] # {} \/ \E j \in Jobs : Active(j) /\ u \in jobs[j].done

TidyInv == PubInv /\ (conn /\ ~overlapped => Tidy)

LEMMA TidyInit == Init => TidyInv
<1> SUFFICES ASSUME Init PROVE Tidy
  BY PubInit DEF TidyInv
<1>1. QED
  BY DEF Init, Tidy

\* An analysis that unpublishes nothing in this step
LEMMA TidyStays ==
    ASSUME SafeInv, ~overlapped, NEW j \in Jobs, Analyze(j), Tidy, prev' \subseteq prev,
           \A u \in prev' : view'[u] = view[u],
           jobs'[j].pc # "idle", jobs[j].done \subseteq jobs'[j].done
    PROVE  Tidy'
<1>1. Active(j) /\ \A k \in Jobs \ {j} : jobs[k] = IdleJob
  BY SoloStep
<1>2. \A k \in Jobs : Active(k) => k = j
  BY <1>1 DEF Active, IdleJob
<1>3. Active(j)'
  BY DEF Active
<1>4. QED
  BY <1>2, <1>3 DEF Tidy

LEMMA TidyAnalyze ==
    ASSUME PubInv, Tidy, conn, ~overlapped, NEW j \in Jobs, Analyze(j)
    PROVE  Tidy'
<1> DEFINE l == jobs[j]
           n == jobs'[j]
<1>0. /\ SafeInv /\ LocalPub(l) /\ LocalSafe(l) /\ l \in JobStates
      /\ \A r : Become(j, r) => n = r
      /\ \A k \in Jobs \ {j} : jobs'[k] = IdleJob
      /\ diags \in Seq(Diag) /\ view \in [Uris -> SUBSET Msgs] /\ prev \subseteq Uris
      /\ jobs \in [Jobs -> JobStates]
  <2>1. SafeInv /\ Published /\ TypeOK
    BY DEF PubInv, SafeInv, FeedInv, TypeInv
  <2>2. QED
    BY <2>1, SoloStep DEF Published, SafeInv, Safe, TypeOK
<1>1. CASE \/ NextEntry(j) \/ ReadEntry(j) \/ Include(j) \/ ReadLib(j) \/ Emit(j)
           \/ EndQueue(j) \/ BeginMessage(j) \/ ReadPastEnd(j)
  <2>1. UNCHANGED <<prev, view>>
    BY <1>1 DEF NextEntry, ReadEntry, Include, ReadLib, Emit, EndQueue, BeginMessage,
         ReadPastEnd, analysisVars
  <2>2. n.pc # "idle" /\ n.done = l.done
    <3>1. CASE NextEntry(j) \/ ReadEntry(j) \/ Include(j)
      BY <1>0, <3>1 DEF NextEntry, ReadEntry, Include, BeginCompile, JobStates, Step
    <3>2. CASE ReadLib(j) \/ EndQueue(j)
      BY <1>0, <3>2 DEF ReadLib, EndQueue, JobStates, Step
    <3>3. CASE BeginMessage(j)
      BY <1>0, <3>3 DEF BeginMessage, StartMessage, JobStates, Step
    <3>4. CASE Emit(j)
      BY <1>0, <3>4 DEF Emit, JobStates, Step
    <3>5. CASE ReadPastEnd(j)
      BY <1>0, <3>5 DEF ReadPastEnd, analysisVars, Step
    <3>6. QED
      BY <1>1, <3>1, <3>2, <3>3, <3>4, <3>5
  <2>3. QED
    BY <1>0, <2>1, <2>2, TidyStays
<1>2. CASE PublishDiagnostic(j) \/ PublishLast(j)
  <2>1. l.pc = "publish" /\ MessageOK(l) /\ Moved(l.i) /\ l.i \in Nat
    BY <1>0, <1>2 DEF PublishDiagnostic, PublishLast, Step, LocalPub, JobStates
  <2>2. l.last # NoUri => l.last \notin prev
    <3>1. l.last # NoUri => l.i \in 1 .. l.i /\ l.last = diags[l.i].uri
      BY <2>1 DEF MessageOK
    <3>2. QED
      BY <2>1, <3>1 DEF Moved
  <2>3. prev' \subseteq prev
    BY <1>2 DEF PublishDiagnostic, PublishLast, Diagnose
  <2>4. view' = view \/ (l.last # NoUri /\ view' = [view EXCEPT ![l.last] = l.msg])
    BY <1>2 DEF PublishDiagnostic, PublishLast, Send
  <2>5. \A u \in prev' : view'[u] = view[u]
    BY <1>0, <2>2, <2>3, <2>4
  <2>6. n.pc # "idle" /\ n.done = l.done
    <3>1. CASE PublishDiagnostic(j)
      BY <1>0, <2>1, <3>1 DEF PublishDiagnostic, StartMessage, JobStates
    <3>2. CASE PublishLast(j)
      BY <1>0, <3>2 DEF PublishLast, JobStates
    <3>3. QED
      BY <1>2, <3>1, <3>2
  <2>7. QED
    BY <1>0, <2>3, <2>5, <2>6, TidyStays
<1>3. CASE Unpublish(j)
  <2>1. PICK u \in prev : Send(u, {}) /\ n = [l EXCEPT !.done = @ \cup {u}]
    BY <1>0, <1>3 DEF Unpublish
  <2>2. prev' = prev /\ n.pc # "idle" /\ n.done = l.done \cup {u}
    BY <1>0, <1>3, <2>1 DEF Unpublish, Step, JobStates
  <2>3. \A v \in Uris : v # u => view'[v] = view[v]
    BY <1>0, <2>1 DEF Send
  <2>4. Active(j)' /\ \A k \in Jobs : Active(k) => k = j
    <3>1. \A k \in Jobs \ {j} : jobs[k] = IdleJob
      BY <1>0, SoloStep
    <3>2. QED
      BY <2>2, <3>1 DEF Active, IdleJob
  <2>5. QED
    BY <1>0, <2>2, <2>3, <2>4 DEF Tidy
<1>4. CASE EndAnalysis(j)
  <2>1. /\ prev' = cur /\ view' = view /\ Moved(Len(diags)) /\ Shown(Len(diags), NoUri)
    BY <1>0, <1>4 DEF EndAnalysis, Step, LocalPub
  <2>2. ASSUME NEW u \in cur PROVE view[u] # {}
    <3>1. PICK k \in 1 .. Len(diags) : u = diags[k].uri
      BY <2>1 DEF Moved
    <3>2. u \in Uris /\ u # NoUri
      BY <1>0, <3>1, DiagUri
    <3>3. view[u] = MessagesFor(diags, u)
      BY <2>1, <3>1, <3>2 DEF Shown
    <3>4. diags[k].msg \in MessagesFor(diags, u)
      BY <1>0, <3>1 DEF MessagesFor
    <3>5. QED
      BY <3>3, <3>4
  <2>3. QED
    BY <2>1, <2>2 DEF Tidy
<1>5. QED
  BY <1>1, <1>2, <1>3, <1>4 DEF Analyze

LEMMA TidyStep == TidyInv /\ [Next]_vars => TidyInv'
<1> SUFFICES ASSUME TidyInv, [Next]_vars, conn', ~overlapped' PROVE Tidy'
  BY PubStep DEF TidyInv
<1>0. PubInv /\ TypeInv /\ (conn /\ ~overlapped => Tidy)
  BY DEF TidyInv, PubInv, SafeInv, FeedInv
<1>1. CASE Message \/ Disconnect \/ (\E j \in Jobs : ResumeAfterEnd(j)) \/ UNCHANGED vars
  <2>1. UNCHANGED analysisVars /\ (conn' = conn \/ conn' = FALSE)
    BY <1>1 DEF Message, RecvError, Initialize, InitializeWithoutRoot, Initialized,
         Handshake, HandshakeExit, HandshakeInvalid, HandleTextDocument,
         HandleCompletion, HandleShutdown,
         HandleOther, HandleExit, End, Disconnect, ResumeAfterEnd, vars
  <2>2. UNCHANGED <<overlapped, conn, prev, view, jobs>>
    BY <2>1 DEF analysisVars
  <2>3. QED
    BY <1>0, <2>2 DEF Tidy, Active
<1>2. ASSUME NEW j \in Jobs, StartAnalysis(j) PROVE Tidy'
  <2>1. ~overlapped /\ (\A k \in Jobs : ~Active(k)) /\ UNCHANGED <<prev, view, conn>>
    BY <1>2 DEF StartAnalysis
  <2>2. QED
    BY <1>0, <2>1 DEF Tidy
<1>3. ASSUME NEW j \in Jobs, Analyze(j) PROVE Tidy'
  <2>1. overlapped' = overlapped /\ conn' = conn
    BY <1>3 DEF Analyze, NextEntry, ReadEntry, Include, ReadLib, Emit, EndQueue,
       PublishDiagnostic, BeginMessage, ReadPastEnd, PublishLast, Unpublish,
       EndAnalysis, analysisVars
  <2>2. QED
    BY <1>0, <1>3, <2>1, TidyAnalyze
<1>4. QED
  BY <1>1, <1>2, <1>3 DEF Next

\* DiagnosedAsShown for any number of documents, contents and reports: between
\* analyses that do not overlap, the set that the next one unpublishes from has
\* exactly the files the client shows something for.
THEOREM SetsMatchView == Spec => []DiagnosedAsShown
<1>1. TidyInv => DiagnosedAsShown
  <2> SUFFICES ASSUME TidyInv, conn, ~overlapped, \A j \in Jobs : ~Active(j)
               PROVE  cur = {} /\ prev = {u \in Uris : view[u] # {}}
    BY DEF DiagnosedAsShown
  <2>1. Published /\ Fed /\ Tidy /\ prev \subseteq Uris
    BY DEF TidyInv, PubInv, SafeInv, FeedInv, TypeInv, TypeOK
  <2>2. cur = {}
    BY <2>1 DEF Published
  <2>3. QED
    BY <2>1, <2>2 DEF Fed, Tidy
<1>2. QED
  BY TidyInit, TidyStep, <1>1, PTL DEF Spec

-----------------------------------------------------------------------------
(***************************************************************************)
(* Synchrony.  While no notification has scheduled a new analysis the      *)
(* documents are those the current one was started for: it has reported    *)
(* what they give, for the entries it has compiled.                        *)
(***************************************************************************)
Current == phase = "running" /\ ~timer /\ ~suppressed /\ conn /\ ~overlapped

Queued == {queue[k] : k \in 1 .. Len(queue)}

Done(n) == {queue[k] : k \in {k \in 1 .. Len(queue) : k < n}}

\* What has been reported is what the files of D give with their content.
Reported(D) ==
    \A u \in Uris :
        MessagesFor(diags, u) = UNION {MessagesFor(Report[<<f, docs[f]>>], u) : f \in D}

LocalSync(r) ==
    /\ r.pc # "read"
    /\ r.pc \in CompilePcs => Queued = OpenDocs(docs) /\ Reported(Done(r.qi))
    /\ r.pc = "next" => files \cap Files = Done(r.qi)
    /\ r.pc \in {"include", "lib", "emit"} =>
          /\ r.qi <= Len(queue)
          /\ r.entry = queue[r.qi]
          /\ r.text = docs[r.entry]
          /\ files \cap Files = Done(r.qi) \cup {r.entry}
    /\ r.pc \in {"publish", "begin", "unpublish"} => Reported(OpenDocs(docs))

Synced ==
    /\ (\A j \in Jobs : ~Active(j)) => view = Expected
    /\ \A j \in Jobs : Active(j) => LocalSync(jobs[j])

SyncInv ==
    /\ PubInv
    /\ EndInv
    /\ Before => view = [u \in Uris |-> {}] /\ \A j \in Jobs : ~Active(j)
    /\ Current => Synced

LEMMA SyncInit == Init => SyncInv
<1> SUFFICES ASSUME Init PROVE SyncInv
  OBVIOUS
<1>1. PubInv /\ EndInv
  BY PubInit, EndInit
<1>2. view = [u \in Uris |-> {}] /\ \A j \in Jobs : ~Active(j)
  BY DEF Init, Active, IdleJob
<1>3. ~Current
  BY DEF Init, Current
<1>4. QED
  BY <1>1, <1>2, <1>3 DEF SyncInv

LEMMA ExpectedIs ==
    ASSUME view \in [Uris -> SUBSET Msgs],
           \A u \in Uris :
             view[u] = UNION {MessagesFor(Report[<<f, docs[f]>>], u) : f \in OpenDocs(docs)}
    PROVE  view = Expected
BY DEF Expected

LEMMA SyncRest ==
    ASSUME Synced, UNCHANGED analysisVars, docs' = docs
    PROVE  Synced'
<1>1. UNCHANGED <<jobs, queue, files, diags, view>>
  BY DEF analysisVars
<1>2. Expected' = Expected
  BY DEF Expected
<1>3. (\A j \in Jobs : ~Active(j))' => view' = Expected'
  BY <1>1, <1>2 DEF Synced, Active
<1>4. ASSUME NEW j \in Jobs, Active(j)' PROVE LocalSync(jobs[j])'
  <2>1. LocalSync(jobs[j])
    BY <1>1, <1>4 DEF Synced, Active
  <2>2. QED
    BY <1>1, <2>1 DEF LocalSync, Queued, Done, Reported
<1>5. QED
  BY <1>3, <1>4 DEF Synced

\* The entries before the next one
LEMMA DoneNext ==
    ASSUME queue \in Seq(Files), NEW n \in Nat, n >= 1
    PROVE  /\ n <= Len(queue) => /\ queue[n] \in Queued
                                 /\ Done(n + 1) = Done(n) \cup {queue[n]}
           /\ n > Len(queue) => Done(n) = Queued
<1>1. Len(queue) \in Nat
  OBVIOUS
<1>2. ASSUME n <= Len(queue) PROVE queue[n] \in Queued
  BY <1>1, <1>2 DEF Queued
<1>3. ASSUME n <= Len(queue) PROVE Done(n + 1) = Done(n) \cup {queue[n]}
  <2>1. {k \in 1 .. Len(queue) : k < n + 1} = {k \in 1 .. Len(queue) : k < n} \cup {n}
    BY <1>1, <1>3
  <2>2. QED
    BY <2>1 DEF Done
<1>4. ASSUME n > Len(queue) PROVE Done(n) = Queued
  <2>1. {k \in 1 .. Len(queue) : k < n} = 1 .. Len(queue)
    BY <1>1, <1>4
  <2>2. QED
    BY <2>1 DEF Done, Queued
<1>5. QED
  BY <1>2, <1>3, <1>4

\* When an analysis that ran alone ends, the client shows what it has reported.
LEMMA ShowsReport ==
    ASSUME PubInv, ~overlapped, conn, NEW j \in Jobs, jobs[j].pc = "unpublish",
           prev \subseteq jobs[j].done, NEW u \in Uris
    PROVE  view[u] = MessagesFor(diags, u)
<1>1. /\ Moved(Len(diags)) /\ Shown(Len(diags), NoUri) /\ Fed /\ diags \in Seq(Diag)
      /\ LocalFed(jobs[j])
  BY DEF PubInv, Published, LocalPub, SafeInv, FeedInv, Fed, TypeInv, TypeOK
<1>2. CASE \E k \in 1 .. Len(diags) : diags[k].uri = u
  BY <1>1, <1>2, DiagUri DEF Shown
<1>3. CASE ~ \E k \in 1 .. Len(diags) : diags[k].uri = u
  <2>1. MessagesFor(diags, u) = {}
    BY <1>1, <1>3 DEF MessagesFor
  <2>2. u \notin cur
    BY <1>1, <1>3 DEF Moved
  <2>3. view[u] = {}
    BY <1>1, <2>2 DEF Fed, LocalFed
  <2>4. QED
    BY <2>1, <2>3
<1>4. QED
  BY <1>2, <1>3

LEMMA SyncAnalyze ==
    ASSUME PubInv, Synced, ~overlapped, conn, NEW j \in Jobs, Analyze(j), phase' = "running"
    PROVE  Synced'
<1> DEFINE l == jobs[j]
           n == jobs'[j]
<1>0. /\ l \in JobStates /\ LocalOK(l) /\ LocalSync(l) /\ LocalSafe(l) /\ docs' = docs
      /\ queue' = queue /\ l.pc # "idle" /\ l.qi \in Nat /\ l.qi >= 1
      /\ \A k \in Jobs \ {j} : jobs'[k] = IdleJob
      /\ \A r : Become(j, r) => n = r
      /\ diags \in Seq(Diag) /\ view \in [Uris -> SUBSET Msgs] /\ queue \in Seq(Files)
      /\ docs \in Docs
  <2>1. /\ diags \in Seq(Diag) /\ view \in [Uris -> SUBSET Msgs] /\ queue \in Seq(Files)
        /\ docs \in Docs
    BY DEF PubInv, SafeInv, FeedInv, TypeInv, TypeOK
  <2>2. SafeInv /\ LocalSafe(l)
    BY DEF PubInv, SafeInv, Safe
  <2>3. /\ l \in JobStates /\ LocalOK(l) /\ Active(j) /\ docs' = docs /\ queue' = queue
        /\ \A k \in Jobs \ {j} : jobs'[k] = IdleJob
        /\ \A r : Become(j, r) => n = r
    BY <2>2, SoloStep
  <2>4. l.qi \in Nat /\ l.qi >= 1 /\ l.pc # "idle"
    BY <2>3 DEF JobStates, LocalOK, Active
  <2>5. LocalSync(l)
    BY <2>3 DEF Synced
  <2>6. QED
    BY <2>1, <2>2, <2>3, <2>4, <2>5
\* It is enough to look at the analysis that takes the step.
<1>1. ASSUME n.pc # "idle", LocalSync(jobs[j])' PROVE Synced'
  <2>1. \A k \in Jobs \ {j} : ~Active(k)'
    BY <1>0 DEF Active, IdleJob
  <2>2. QED
    BY <1>1, <2>1 DEF Synced, Active
\* Between the opening of an entry and the report about it
<1>2. ASSUME n.pc \in {"include", "lib", "emit"}, n.qi = l.qi, n.entry = queue[l.qi],
             n.text = docs[n.entry], l.qi <= Len(queue), l.pc \in CompilePcs,
             files' \cap Files = Done(l.qi) \cup {n.entry}, diags' = diags
      PROVE  Synced'
  <2>1. Queued = OpenDocs(docs) /\ Reported(Done(l.qi))
    BY <1>0, <1>2 DEF LocalSync
  <2>2. Queued' = Queued /\ Done(jobs[j].qi)' = Done(l.qi) /\ OpenDocs(docs)' = OpenDocs(docs)
    BY <1>0, <1>2 DEF Queued, Done
  <2>3. Reported(Done(jobs[j].qi))'
    BY <1>0, <1>2, <2>1, <2>2 DEF Reported
  <2>4. LocalSync(jobs[j])'
    BY <1>0, <1>2, <2>1, <2>2, <2>3 DEF LocalSync, CompilePcs
  <2>5. QED
    BY <1>1, <1>2, <2>4
\* On to the next entry
<1>3. ASSUME n.pc = "next", n.qi = l.qi + 1, l.pc \in CompilePcs, l.qi <= Len(queue),
             files' \cap Files = Done(l.qi + 1),
             \A u \in Uris : MessagesFor(diags', u) =
                UNION {MessagesFor(Report[<<f, docs[f]>>], u) : f \in Done(l.qi + 1)}
      PROVE  Synced'
  <2>1. Queued = OpenDocs(docs)
    BY <1>0, <1>3 DEF LocalSync
  <2>2. /\ Queued' = Queued /\ Done(jobs[j].qi)' = Done(l.qi + 1)
        /\ OpenDocs(docs)' = OpenDocs(docs)
    BY <1>0, <1>3 DEF Queued, Done
  <2>3. Reported(Done(jobs[j].qi))'
    BY <1>0, <1>3, <2>2 DEF Reported
  <2>4. LocalSync(jobs[j])'
    BY <1>0, <1>3, <2>1, <2>2, <2>3 DEF LocalSync, CompilePcs
  <2>5. QED
    BY <1>1, <1>3, <2>4
\* Publication
<1>4. ASSUME n.pc \in {"publish", "begin", "unpublish"},
             \A u \in Uris : MessagesFor(diags', u) = MessagesFor(diags, u),
             Reported(OpenDocs(docs))
      PROVE  Synced'
  <2>1. Reported(OpenDocs(docs))'
    BY <1>0, <1>4 DEF Reported
  <2>2. LocalSync(jobs[j])'
    BY <1>4, <2>1 DEF LocalSync, CompilePcs
  <2>3. QED
    BY <1>1, <1>4, <2>2
<1>5. CASE NextEntry(j)
  <2> DEFINE e == queue[l.qi]
  <2>1. /\ l.pc = "next" /\ l.qi <= Len(queue) /\ diags' = diags
        /\ files \cap Files = Done(l.qi) /\ Reported(Done(l.qi)) /\ Queued = OpenDocs(docs)
    BY <1>0, <1>5 DEF NextEntry, Step, LocalSync, CompilePcs
  <2>2. e \in Queued /\ Done(l.qi + 1) = Done(l.qi) \cup {e}
    BY <1>0, <2>1, DoneNext
  <2>3. e \in Files /\ docs[e] # Closed
    BY <2>1, <2>2 DEF OpenDocs
  <2>4. CASE e \in files
    <3>1. n = [l EXCEPT !.qi = @ + 1] /\ files' = files
      BY <1>0, <1>5, <2>4 DEF NextEntry
    <3>2. n.pc = "next" /\ n.qi = l.qi + 1
      BY <1>0, <2>1, <3>1 DEF JobStates
    <3>3. Done(l.qi + 1) = Done(l.qi)
      BY <2>1, <2>2, <2>3, <2>4
    <3>4. QED
      BY <1>3, <2>1, <3>1, <3>2, <3>3 DEF Reported, CompilePcs
  <2>5. CASE e \notin files
    <3>1. BeginCompile(j, e, docs[e])
      BY <1>5, <2>3, <2>5 DEF NextEntry
    <3>2. /\ n = [l EXCEPT !.pc = "include", !.entry = e, !.text = docs[e],
                           !.todo = Needs[docs[e]]]
          /\ files' = files \cup {e}
      BY <1>0, <3>1 DEF BeginCompile
    <3>3. n.pc = "include" /\ n.qi = l.qi /\ n.entry = e /\ n.text = docs[e]
      BY <1>0, <3>2 DEF JobStates
    <3>4. files' \cap Files = Done(l.qi) \cup {e}
      BY <2>1, <2>3, <3>2
    <3>5. QED
      BY <1>2, <2>1, <3>3, <3>4 DEF CompilePcs
  <2>6. QED
    BY <2>4, <2>5
<1>6. CASE ReadEntry(j)
  BY <1>0, <1>6 DEF ReadEntry, Step, LocalSync
\* What the invariant says of an entry that is being compiled
<1>7. ASSUME l.pc \in {"include", "lib", "emit"}
      PROVE  /\ l.qi <= Len(queue) /\ l.entry = queue[l.qi] /\ l.text = docs[l.entry]
             /\ files \cap Files = Done(l.qi) \cup {l.entry}
             /\ Reported(Done(l.qi)) /\ l.pc \in CompilePcs
  BY <1>0, <1>7 DEF LocalSync, CompilePcs
<1>8. CASE Include(j)
  <2>1. l.pc = "include" /\ files' = files /\ diags' = diags
    BY <1>8 DEF Include, Step
  <2>2. \/ \E x \in l.todo : \/ n = [l EXCEPT !.todo = @ \ {x}]
                             \/ n = [l EXCEPT !.pc = "lib", !.lib = x]
        \/ n = [l EXCEPT !.pc = "emit"]
    BY <1>0, <1>8 DEF Include
  <2>3. /\ n.pc \in {"include", "lib", "emit"} /\ n.qi = l.qi /\ n.entry = l.entry
        /\ n.text = l.text
    BY <1>0, <2>1, <2>2 DEF JobStates
  <2>4. QED
    BY <1>2, <1>7, <2>1, <2>3
<1>9. CASE ReadLib(j)
  <2>1. /\ l.pc = "lib" /\ files' = files \cup {l.lib} /\ diags' = diags
        /\ n = [l EXCEPT !.pc = "include", !.todo = @ \ {l.lib}]
    BY <1>0, <1>9 DEF ReadLib, Step
  <2>2. n.pc = "include" /\ n.qi = l.qi /\ n.entry = l.entry /\ n.text = l.text
    BY <1>0, <2>1 DEF JobStates
  <2>3. l.lib \notin Files
    BY <1>0, <2>1, SessionAssumption DEF LocalOK
  <2>4. files' \cap Files = files \cap Files
    BY <2>1, <2>3
  <2>5. QED
    BY <1>2, <1>7, <2>1, <2>2, <2>4
<1>10. CASE Emit(j)
  <2> DEFINE rep == Report[<<l.entry, docs[l.entry]>>]
  <2>1. l.pc = "emit" /\ files' = files
    BY <1>10 DEF Emit, Step
  <2>2. /\ l.qi <= Len(queue) /\ l.entry = queue[l.qi] /\ l.text = docs[l.entry]
        /\ files \cap Files = Done(l.qi) \cup {l.entry}
        /\ Reported(Done(l.qi)) /\ l.pc \in CompilePcs
    BY <1>7, <2>1
  <2>3. diags' = diags \o rep /\ n = [l EXCEPT !.pc = "next", !.qi = @ + 1]
    BY <1>0, <1>10, <2>2 DEF Emit
  <2>4. n.pc = "next" /\ n.qi = l.qi + 1
    BY <1>0, <2>3 DEF JobStates
  <2>5. Done(l.qi + 1) = Done(l.qi) \cup {l.entry}
    BY <1>0, <2>2, DoneNext
  <2>6. rep \in Seq(Diag)
    <3>1. <<l.entry, docs[l.entry]>> \in Files \X Texts
      BY <1>0, <2>1, <2>2 DEF LocalOK, JobStates
    <3>2. QED
      BY <3>1, SessionAssumption
  <2>7. ASSUME NEW u \in Uris
        PROVE  MessagesFor(diags', u) =
                 UNION {MessagesFor(Report[<<f, docs[f]>>], u) : f \in Done(l.qi + 1)}
    <3>1. MessagesFor(diags', u) = MessagesFor(diags, u) \cup MessagesFor(rep, u)
      <4> HIDE DEF rep
      <4>1. diags \in Seq(Diag)
        BY <1>0
      <4>2. MessagesFor(diags \o rep, u) = MessagesFor(diags, u) \cup MessagesFor(rep, u)
        BY <2>6, <4>1, MessagesJoin, Zenon
      <4>3. QED
        BY <2>3, <4>2
    <3>2. MessagesFor(diags, u) =
            UNION {MessagesFor(Report[<<f, docs[f]>>], u) : f \in Done(l.qi)}
      BY <2>2 DEF Reported
    <3>3. UNION {MessagesFor(Report[<<f, docs[f]>>], u) : f \in Done(l.qi) \cup {l.entry}}
            = (UNION {MessagesFor(Report[<<f, docs[f]>>], u) : f \in Done(l.qi)})
                \cup MessagesFor(rep, u)
      OBVIOUS
    <3>4. QED
      BY <2>5, <3>1, <3>2, <3>3
  <2> HIDE DEF rep
  <2>8. QED
    BY <1>3, <2>1, <2>2, <2>4, <2>5, <2>7
<1>11. CASE EndQueue(j)
  <2>1. /\ l.pc = "next" /\ l.qi > Len(queue) /\ diags' \in Sorted(diags)
        /\ n = [l EXCEPT !.pc = "publish", !.num = Len(diags)]
    BY <1>0, <1>11 DEF EndQueue, Step
  <2>2. n.pc = "publish"
    BY <1>0, <2>1 DEF JobStates
  <2>3. \A u : MessagesFor(diags', u) = MessagesFor(diags, u)
    BY <1>0, <2>1, SortedKeeps
  <2>4. Done(l.qi) = OpenDocs(docs)
    BY <1>0, <2>1, DoneNext DEF LocalSync, CompilePcs
  <2>5. Reported(OpenDocs(docs))
    BY <1>0, <2>1, <2>4 DEF LocalSync, CompilePcs
  <2>6. QED
    BY <1>4, <2>2, <2>3, <2>5
<1>12. CASE PublishDiagnostic(j) \/ BeginMessage(j)
  <2> DEFINE d == diags[l.i + 1]
  <2>1. l.pc \in {"publish", "begin"} /\ diags' = diags
    BY <1>12 DEF PublishDiagnostic, BeginMessage, Step
  <2>2. \/ n = [l EXCEPT !.msg = @ \cup {d.msg}, !.i = @ + 1]
        \/ n = [l EXCEPT !.pc = "publish", !.last = d.uri, !.msg = {d.msg}, !.i = @ + 1]
        \/ n = [l EXCEPT !.pc = IF conn THEN "begin" ELSE "unpublish",
                         !.last = NoUri, !.msg = {}]
    BY <1>0, <1>12 DEF PublishDiagnostic, BeginMessage, StartMessage
  <2>3. n.pc \in {"publish", "begin", "unpublish"}
    BY <1>0, <2>1, <2>2 DEF JobStates
  <2>4. Reported(OpenDocs(docs))
    BY <1>0, <2>1 DEF LocalSync
  <2>5. QED
    BY <1>4, <2>1, <2>3, <2>4
<1>13. CASE PublishLast(j)
  <2>1. l.pc = "publish" /\ diags' = diags /\ n = [l EXCEPT !.pc = "unpublish"]
    BY <1>0, <1>13 DEF PublishLast, Step
  <2>2. n.pc = "unpublish" /\ Reported(OpenDocs(docs))
    BY <1>0, <2>1 DEF JobStates, LocalSync
  <2>3. QED
    BY <1>4, <2>1, <2>2
<1>14. CASE Unpublish(j)
  <2>1. /\ l.pc = "unpublish" /\ diags' = diags
        /\ \E u \in prev : n = [l EXCEPT !.done = @ \cup {u}]
    BY <1>0, <1>14 DEF Unpublish, Step
  <2>2. n.pc = "unpublish" /\ Reported(OpenDocs(docs))
    BY <1>0, <2>1 DEF JobStates, LocalSync
  <2>3. QED
    BY <1>4, <2>1, <2>2
<1>15. CASE ReadPastEnd(j)
  BY <1>15 DEF ReadPastEnd
<1>16. CASE EndAnalysis(j)
  <2>1. l.pc = "unpublish" /\ prev \subseteq l.done /\ n = IdleJob /\ view' = view
    BY <1>0, <1>16 DEF EndAnalysis, Step
  <2>2. \A u \in Uris :
          view[u] = UNION {MessagesFor(Report[<<f, docs[f]>>], u) : f \in OpenDocs(docs)}
    BY <1>0, <2>1, ShowsReport DEF LocalSync, Reported
  <2>3. view = Expected
    BY <1>0, <2>2, ExpectedIs
  <2>4. Expected' = Expected
    BY <1>0 DEF Expected
  <2>5. \A k \in Jobs : ~Active(k)'
    BY <1>0, <2>1 DEF Active, IdleJob
  <2>6. QED
    BY <2>1, <2>3, <2>4, <2>5 DEF Synced
<1>17. QED
  BY <1>5, <1>6, <1>8, <1>9, <1>10, <1>11, <1>12, <1>13, <1>14, <1>15, <1>16 DEF Analyze

LEMMA SyncStep == SyncInv /\ [Next]_vars => SyncInv'
<1> SUFFICES ASSUME SyncInv, [Next]_vars
             PROVE  /\ Before' => view' = [u \in Uris |-> {}] /\ \A j \in Jobs : ~Active(j)'
                    /\ Current' => Synced'
  BY PubStep, EndStep DEF SyncInv
<1>0. /\ PubInv /\ EndInv /\ TypeInv
      /\ Before => view = [u \in Uris |-> {}] /\ \A j \in Jobs : ~Active(j)
      /\ Current => Synced
  BY DEF SyncInv, PubInv, SafeInv, FeedInv
<1>1. CASE RecvError \/ HandshakeExit \/ HandshakeInvalid \/ HandleExit \/ InitializeWithoutRoot
           \/ \E j \in Jobs : ResumeAfterEnd(j)
  BY <1>1 DEF RecvError, Handshake, HandshakeExit, HandshakeInvalid, HandleExit, End, InitializeWithoutRoot, ResumeAfterEnd,
              Before, Current
<1>2. CASE Initialize
  BY <1>0, <1>2 DEF Initialize, Receiving, analysisVars, Before, Current, Active
\* At the start of the main loop there is nothing to show.
<1>3. CASE Initialized
  <2>1. /\ Before /\ phase' = "running" /\ UNCHANGED <<docs, view, jobs>>
    BY <1>3 DEF Initialized, Receiving, Before, analysisVars
  <2>2. view' = [u \in Uris |-> {}] /\ docs' = NoDocs /\ \A j \in Jobs : ~Active(j)'
    BY <1>0, <2>1 DEF EndInv, Active
  <2>3. OpenDocs(docs') = {}
    BY <2>2 DEF OpenDocs, NoDocs
  <2>4. Expected' = [u \in Uris |-> {}]
    BY <2>3 DEF Expected
  <2>5. QED
    BY <2>1, <2>2, <2>4 DEF Synced, Before
<1>4. ASSUME NEW m \in Notifications, HandleTextDocument(m)
      PROVE  ~Before' /\ ~Current'
  BY <1>4 DEF HandleTextDocument, Handling, Receiving, Before, Current
\* A request that cancels nothing leaves everything as it is.
<1>5. ASSUME phase = "running", UNCHANGED <<phase, docs, analysisVars, conn>>,
             ~timer' /\ ~suppressed' => ~timer /\ ~suppressed
      PROVE  ~Before' /\ (Current' => Synced')
  <2>1. ASSUME Current' PROVE Synced'
    <3>1. Current
      BY <1>5, <2>1 DEF Current, analysisVars
    <3>2. QED
      BY <1>0, <1>5, <3>1, SyncRest
  <2>2. QED
    BY <1>5, <2>1 DEF Before
<1>6. CASE HandleOther \/ HandleShutdown \/ \E f \in Files : HandleCompletion(f)
  <2>1. /\ phase = "running" /\ UNCHANGED <<phase, docs, analysisVars, conn>>
        /\ UNCHANGED <<timer, suppressed>> \/ CancelTimer
    BY <1>6 DEF HandleOther, HandleShutdown, HandleCompletion, Handling, Receiving
  <2>2. ~timer' /\ ~suppressed' => ~timer /\ ~suppressed
    BY <2>1 DEF CancelTimer
  <2>3. QED
    BY <1>5, <2>1, <2>2
<1>7. CASE Disconnect
  BY <1>0, <1>7 DEF Disconnect, sessionVars, analysisVars, Before, Current, Active
<1>8. CASE UNCHANGED vars
  <2>1. UNCHANGED <<phase, docs, analysisVars, conn, timer, suppressed>>
    BY <1>8 DEF vars, sessionVars
  <2>2. Current' => Current
    BY <2>1 DEF Current, analysisVars
  <2>3. Current' => Synced'
    BY <1>0, <2>1, <2>2, SyncRest
  <2>4. QED
    BY <1>0, <2>1, <2>3 DEF Before, Active, analysisVars
<1>9. ASSUME NEW j \in Jobs, StartAnalysis(j)
      PROVE  ~Before' /\ (Current' => Synced')
  <2>1. phase' = "running"
    BY <1>9 DEF StartAnalysis
  <2> SUFFICES ASSUME ~overlapped' PROVE Synced'
    BY <2>1 DEF Before, Current
  <2>2. (\A k \in Jobs : ~Active(k)) /\ docs' = docs /\ files' = {} /\ diags' = <<>>
    BY <1>9 DEF StartAnalysis
  <2>3. /\ jobs'[j] = [IdleJob EXCEPT !.pc = "next", !.qi = 1]
        /\ \A k \in Jobs \ {j} : jobs'[k] = jobs[k]
    BY <1>0, <1>9 DEF StartAnalysis, Become, TypeInv, TypeOK
  <2>4. jobs'[j].pc = "next" /\ jobs'[j].qi = 1
    BY <2>3 DEF IdleJob
  <2>5. Queued' = OpenDocs(docs)
    <3> DEFINE S == OpenDocs(docs)
    <3>1. queue' \in Orders(S) /\ S \subseteq Files
      BY <1>9 DEF StartAnalysis, OpenDocs
    <3>2. queue' \in Seq(Files) /\ IsFiniteSet(S)
      BY <3>1, OrdersType, SessionAssumption, FS_Subset DEF Uris
    <3>3. Cardinality(S) \in Nat
      BY <3>2, FS_CardinalityType
    <3> HIDE DEF S
    <3>4. /\ queue' \in [1 .. Cardinality(S) -> S]
          /\ \A x \in S : \E k \in DOMAIN queue' : queue'[k] = x
      BY <3>1 DEF Orders
    <3>5. DOMAIN queue' = 1 .. Len(queue')
      BY <3>2
    <3>6. Queued' = S
      BY <3>4, <3>5 DEF Queued
    <3>7. QED
      BY <3>6 DEF S
  <2>6. Done(jobs[j].qi)' = {}
    BY <2>4 DEF Done
  <2>7. Reported(Done(jobs[j].qi))'
    <3>1. \A u : MessagesFor(<<>>, u) = {}
      BY DEF MessagesFor
    <3>2. QED
      BY <2>2, <2>6, <3>1 DEF Reported
  <2>8. LocalSync(jobs[j])'
    BY <2>2, <2>4, <2>5, <2>6, <2>7 DEF LocalSync, CompilePcs
  <2>9. \A k \in Jobs \ {j} : ~Active(k)'
    BY <2>2, <2>3 DEF Active
  <2>10. QED
    BY <2>4, <2>8, <2>9 DEF Synced, Active
<1>10. ASSUME NEW j \in Jobs, Analyze(j)
       PROVE  ~Before' /\ (Current' => Synced')
  <2>1. /\ phase = "running" /\ phase' \in {"running", "aborted", "undefined"}
        /\ UNCHANGED <<timer, suppressed, overlapped, conn>>
    BY <1>10 DEF Analyze, NextEntry, ReadEntry, Include, ReadLib, Emit, EndQueue,
         PublishDiagnostic, BeginMessage, ReadPastEnd, PublishLast, Unpublish,
         EndAnalysis, Step, sessionVars, analysisVars
  <2>2. Current' => Current /\ phase' = "running"
    BY <2>1 DEF Current
  <2>3. Current' => Synced'
    BY <1>0, <1>10, <2>2, SyncAnalyze DEF Current
  <2>4. QED
    BY <2>1, <2>3 DEF Before
<1>11. QED
  BY <1>1, <1>2, <1>3, <1>4, <1>6, <1>7, <1>8, <1>9, <1>10 DEF Next, Message

\* InSync for any number of documents, contents and reports: in a session
\* whose analyses do not overlap and whose last analysis no request cancelled,
\* an idle server has shown the client exactly what its documents give.
THEOREM AlwaysInSync == Spec => []InSync
<1>1. SyncInv => InSync
  BY DEF SyncInv, InSync, Quiet, Current, Synced
<1>2. QED
  BY SyncInit, SyncStep, <1>1, PTL DEF Spec
=============================================================================
