--------------------------- MODULE AnalyzerProofs ---------------------------
(***************************************************************************)
(* Theorems about Analyzer, for any set of files and contents.             *)
(***************************************************************************)
EXTENDS Analyzer, WorkspaceProofs, WellFoundedInduction, TLAPS

\* The file being compiled or read is there when it is needed.
CompileOK ==
    /\ pc \in {"open", "compile", "read"} => entry \in Files
    /\ pc = "read" => reading \in Files
    /\ pc \in {"next", "open", "compile", "read"} => qi >= 1

TypeInv == TypeOK /\ CompileOK

\* A file can be queued, given a rank and connected to the entry.
LEMMA GraphType ==
    ASSUME NEW g \in Graphs, NEW f \in Files
    PROVE  /\ [g EXCEPT !.nodes = @ \cup {f}] \in Graphs
           /\ \A n \in Nat : [g EXCEPT !.rank[f] = n] \in Graphs
BY DEF Graphs

LEMMA OpenedType ==
    ASSUME TypeInv, NEW f \in Files, NEW t \in Texts, entry \in Files, Opened(f, t)
    PROVE  /\ cur' \in Graphs
           /\ analyzed' \subseteq Files
           /\ wanted' \subseteq Files
           /\ included' \subseteq Files
           /\ pc' = "compile"
<1>1. Includes[t] \subseteq Files
  BY AnalyzerAssumption
<1>2. cur' \in Graphs
  <2>1. \A N \in SUBSET Files, E \in SUBSET (Files \X Files) :
          [cur EXCEPT !.nodes = N, !.edges = E] \in Graphs
    BY DEF TypeInv, TypeOK, Graphs
  <2>2. cur.nodes \cup {f} \in SUBSET Files
    BY DEF TypeInv, TypeOK, Graphs
  <2>3. cur.edges \in SUBSET (Files \X Files)
    BY DEF TypeInv, TypeOK, Graphs
  <2>4. cur.edges \cup {<<entry, f>>} \in SUBSET (Files \X Files)
    BY <2>3
  <2>5. CASE f = entry
    BY <2>1, <2>2, <2>3, <2>5 DEF Opened, AddEdge
  <2>6. CASE f # entry
    BY <2>1, <2>2, <2>4, <2>6 DEF Opened, AddEdge
  <2>7. QED
    BY <2>5, <2>6
<1>3. QED
  BY <1>1, <1>2 DEF Opened, TypeInv, TypeOK

LEMMA TypeInit == Init => TypeInv
<1> SUFFICES ASSUME Init PROVE TypeInv
  OBVIOUS
<1>1. docs \in Docs /\ EmptyGraph \in Graphs /\ NothingRead \in [Files -> Texts \cup {NotRead}]
  BY DEF Init, NoDocs, Docs, EmptyGraph, Graphs, NothingRead
<1>2. <<>> \in Seq(Files) /\ 0 \in 0 .. MaxRuns /\ 0 \in 0 .. MaxUpdates
  BY AnalyzerAssumption
<1>3. QED
  BY <1>1, <1>2 DEF Init, TypeInv, TypeOK, CompileOK

LEMMA TypeStep == TypeInv /\ [Next]_vars => TypeInv'
<1> SUFFICES ASSUME TypeInv, [Next]_vars PROVE TypeInv'
  OBVIOUS
<1>0. TypeOK /\ CompileOK
  BY DEF TypeInv
<1> USE DEF schedVars, compileVars, historyVars
<1>1. ASSUME NEW m \in Notifications, Update(m) PROVE TypeInv'
  <2>1. docs' \in Docs
    BY <1>0, <1>1, UpdateType DEF Update, TypeOK
  <2>2. updates' \in 0 .. MaxUpdates
    BY <1>0, <1>1, AnalyzerAssumption DEF Update, TypeOK
  <2>3. quiet' \in BOOLEAN
    BY <1>1, Zenon DEF Update
  <2>4. QED
    BY <1>0, <1>1, <2>1, <2>2, <2>3 DEF Update, TypeInv, TypeOK, CompileOK
<1>2. CASE StartRun
  <2>1. EmptyGraph \in Graphs /\ <<>> \in Seq(Files) /\ OpenDocs(docs) \subseteq Files
    BY DEF EmptyGraph, Graphs, OpenDocs
  <2>2. runs' \in 0 .. MaxRuns
    BY <1>0, <1>2, AnalyzerAssumption DEF StartRun, TypeOK
  <2>3. QED
    BY <1>0, <1>2, <2>1, <2>2 DEF StartRun, TypeInv, TypeOK, CompileOK
<1>3. ASSUME NEW f \in Files, DoQueueFile(f)
      PROVE  cur' \in Graphs /\ queue' \in Seq(Files)
  BY <1>0, <1>3, GraphType DEF DoQueueFile, TypeOK
<1>4. ASSUME NEW f \in Files, ScheduleDoc(f) PROVE TypeInv'
  <2>1. cur' \in Graphs /\ queue' \in Seq(Files) /\ climb' \subseteq Files
    BY <1>0, <1>3, <1>4 DEF ScheduleDoc, TypeOK
  <2>2. QED
    BY <1>0, <1>4, <2>1 DEF ScheduleDoc, TypeInv, TypeOK, CompileOK
<1>5. ASSUME NEW f \in Files, QueueFromRoot(f) PROVE TypeInv'
  BY <1>0, <1>5 DEF QueueFromRoot, Parents, TypeInv, TypeOK, CompileOK
<1>6. ASSUME NEW f \in Files, MaybeQueueNode(f) PROVE TypeInv'
  <2>1. cur' \in Graphs /\ queue' \in Seq(Files)
    BY <1>0, <1>3, <1>6 DEF MaybeQueueNode, TypeOK
  <2>2. descend' \subseteq Files /\ seen' \subseteq Files
    BY <1>0, <1>6 DEF MaybeQueueNode, TypeOK, Children
  <2>3. QED
    BY <1>0, <1>6, <2>1, <2>2 DEF MaybeQueueNode, TypeInv, TypeOK, CompileOK
<1>7. CASE EndSchedule
  <2>1. NothingRead \in [Files -> Texts \cup {NotRead}]
    BY DEF NothingRead
  <2>2. QED
    BY <1>0, <1>7, <2>1 DEF EndSchedule, TypeInv, TypeOK, CompileOK
<1>8. CASE SkipEntry
  BY <1>0, <1>8 DEF SkipEntry, TypeInv, TypeOK, CompileOK
<1>9. CASE CompileEntry
  <2>1. queue[qi] \in Files
    <3>1. queue \in Seq(Files) /\ qi \in 1 .. Len(queue)
      BY <1>0, <1>9 DEF CompileEntry, TypeOK, CompileOK
    <3>2. QED
      BY <3>1
  <2>2. cur' \in Graphs
    BY <1>0, <1>9, <2>1, GraphType DEF CompileEntry, TypeOK
  <2>3. QED
    BY <1>0, <1>9, <2>1, <2>2 DEF CompileEntry, TypeInv, TypeOK, CompileOK
<1>10. ASSUME NEW f \in Files, Fopen(f) PROVE TypeInv'
  <2>1. CASE files[f] # NotRead
    <3>1. files[f] \in Texts /\ entry \in Files /\ Opened(f, files[f])
      BY <1>0, <1>10, <2>1 DEF Fopen, TypeOK, CompileOK
    <3>2. QED
      BY <1>0, <1>10, <2>1, <3>1, OpenedType DEF Fopen, TypeInv, TypeOK, CompileOK
  <2>2. CASE files[f] = NotRead /\ docs[f] # Closed
    <3>1. docs[f] \in Texts /\ entry \in Files /\ Opened(f, docs[f])
      BY <1>0, <1>10, <2>2 DEF Fopen, TypeOK, CompileOK, Docs
    <3>2. files' \in [Files -> Texts \cup {NotRead}]
      BY <1>0, <1>10, <2>2, <3>1 DEF Fopen, TypeOK
    <3>3. QED
      BY <1>0, <1>10, <2>2, <3>1, <3>2, OpenedType DEF Fopen, TypeInv, TypeOK, CompileOK
  <2>3. CASE files[f] = NotRead /\ docs[f] = Closed
    BY <1>0, <1>10, <2>3 DEF Fopen, TypeInv, TypeOK, CompileOK
  <2>4. QED
    BY <2>1, <2>2, <2>3
<1>11. CASE ReadFile
  <2>1. Disk[reading] \in Texts /\ reading \in Files /\ entry \in Files
    BY <1>0, <1>11, AnalyzerAssumption DEF ReadFile, CompileOK
  <2>2. files' \in [Files -> Texts \cup {NotRead}]
    BY <1>0, <1>11, <2>1 DEF ReadFile, TypeOK
  <2>3. QED
    BY <1>0, <1>11, <2>1, <2>2, OpenedType DEF ReadFile, TypeInv, TypeOK, CompileOK
<1>12. CASE ReadFailure
  BY <1>0, <1>12 DEF ReadFailure, TypeInv, TypeOK, CompileOK
<1>13. CASE EndCompile
  <2>1. quiet' \in BOOLEAN
    BY <1>13, Zenon DEF EndCompile
  <2>2. QED
    BY <1>0, <1>13, <2>1 DEF EndCompile, TypeInv, TypeOK, CompileOK
<1>14. CASE EndRun
  BY <1>0, <1>14 DEF EndRun, TypeInv, TypeOK, CompileOK
<1>15. CASE UNCHANGED vars
  BY <1>0, <1>15 DEF vars, TypeInv, TypeOK, CompileOK
<1>16. QED
  BY <1>1, <1>2, <1>4, <1>5, <1>6, <1>7, <1>8, <1>9, <1>10, <1>11, <1>12, <1>13,
     <1>14, <1>15 DEF Next, Run

\* Type correctness of Analyzer.
THEOREM AnalyzerTypeCorrect == Spec => []TypeOK
<1>1. TypeInv => TypeOK
  BY DEF TypeInv
<1>2. QED
  BY TypeInit, TypeStep, <1>1, PTL DEF Spec

-----------------------------------------------------------------------------
(***************************************************************************)
(* The include graphs have no cycle.  rank orders the nodes: an edge goes  *)
(* from the entry being compiled, whose rank is its place in the queue, to *)
(* a file whose rank is smaller, and which keeps it because a file that    *)
(* was opened never becomes an entry again.                                *)
(***************************************************************************)
EdgesDescend(g) ==
    \A a, b \in Files : <<a, b>> \in g.edges =>
        a \in g.nodes /\ b \in g.nodes /\ g.rank[b] < g.rank[a]

Compiling == pc \in {"open", "compile", "read"}

GraphInv ==
    /\ EdgesDescend(prev)
    /\ EdgesDescend(cur)
    /\ \E n \in Nat : \A f \in Files : prev.rank[f] <= n
    /\ \A f \in Files : cur.rank[f] <= qi
    /\ pc = "schedule" => \A f \in Files : cur.rank[f] = 0
    /\ pc = "next" => \A f \in Files : cur.rank[f] < qi
    /\ Compiling => /\ entry \in cur.nodes
                    /\ cur.rank[entry] = qi
                    /\ \A f \in Files \ {entry} : cur.rank[f] < qi
    /\ \A a, b \in Files : <<a, b>> \in cur.edges => b \in analyzed
    /\ \A k \in 1 .. Len(queue) : queue[k] \in cur.nodes

AcyclicInv == TypeInv /\ GraphInv

LEMMA OpenedGraph ==
    ASSUME AcyclicInv, NEW f \in Files, NEW t \in Texts, Compiling, Opened(f, t),
           UNCHANGED <<prev, queue, qi, entry>>
    PROVE  GraphInv'
<1>1. entry \in Files /\ qi \in Nat /\ cur \in Graphs /\ qi >= 1
  BY DEF AcyclicInv, TypeInv, TypeOK, CompileOK, Compiling
<1>2. /\ cur'.rank = cur.rank
      /\ cur'.nodes = cur.nodes \cup {f}
      /\ cur'.edges = IF f = entry THEN cur.edges ELSE cur.edges \cup {<<entry, f>>}
  BY <1>1 DEF Opened, AddEdge, Graphs
<1>3. \A a, b \in Files : <<a, b>> \in cur'.edges =>
        <<a, b>> \in cur.edges \/ (a = entry /\ b = f /\ f # entry)
  BY <1>1, <1>2
<1>4. EdgesDescend(cur)'
  BY <1>1, <1>2, <1>3 DEF EdgesDescend, AcyclicInv, GraphInv, Compiling, Graphs
<1>5. \A a, b \in Files : <<a, b>> \in cur'.edges => b \in analyzed'
  BY <1>1, <1>2, <1>3 DEF AcyclicInv, GraphInv, Opened
<1>6. EdgesDescend(prev)'
  BY DEF EdgesDescend, AcyclicInv, GraphInv
<1>7. pc' = "compile"
  BY DEF Opened
<1>8. QED
  BY <1>1, <1>2, <1>4, <1>5, <1>6, <1>7 DEF AcyclicInv, GraphInv, Compiling

LEMMA GraphStep == AcyclicInv /\ [Next]_vars => AcyclicInv'
<1> SUFFICES ASSUME AcyclicInv, [Next]_vars PROVE GraphInv'
  BY TypeStep DEF AcyclicInv
<1>0. TypeOK /\ CompileOK /\ GraphInv
  BY DEF AcyclicInv, TypeInv
<1> USE DEF schedVars, compileVars, historyVars
<1>1. ASSUME NEW m \in Notifications, Update(m) PROVE GraphInv'
  BY <1>0, <1>1 DEF Update, GraphInv, EdgesDescend, Compiling
<1>2. CASE StartRun
  <2>1. /\ cur'.edges = {} /\ cur'.nodes = {} /\ \A f \in Files : cur'.rank[f] = 0
        /\ qi' = qi /\ queue' = <<>> /\ prev' = cur /\ pc' = "schedule"
    BY <1>2 DEF StartRun, EmptyGraph
  <2>2. EdgesDescend(prev)' /\ EdgesDescend(cur)'
    BY <1>0, <2>1 DEF GraphInv, EdgesDescend
  <2>3. qi \in Nat /\ \A f \in Files : cur.rank[f] <= qi
    BY <1>0 DEF TypeOK, GraphInv
  <2>4. QED
    BY <2>1, <2>2, <2>3 DEF GraphInv, Compiling
<1>3. ASSUME NEW f \in Files, DoQueueFile(f), pc = "schedule",
             UNCHANGED <<prev, qi, pc, entry, analyzed>>
      PROVE  GraphInv'
  <2>1. cur'.rank = cur.rank /\ cur'.edges = cur.edges /\ cur'.nodes = cur.nodes \cup {f}
    BY <1>0, <1>3 DEF DoQueueFile, TypeOK, Graphs
  <2>2. \A k \in 1 .. Len(queue)' : queue'[k] \in cur'.nodes
    BY <1>0, <1>3, <2>1 DEF DoQueueFile, TypeOK, GraphInv
  <2>3. EdgesDescend(prev)' /\ EdgesDescend(cur)'
    BY <1>0, <1>3, <2>1 DEF GraphInv, EdgesDescend
  <2>4. QED
    BY <1>0, <1>3, <2>1, <2>2, <2>3 DEF GraphInv, Compiling
<1>4. ASSUME UNCHANGED <<prev, cur, queue, qi, pc, entry, analyzed>>
      PROVE  GraphInv'
  BY <1>0, <1>4 DEF GraphInv, EdgesDescend, Compiling
<1>5. ASSUME NEW f \in Files, ScheduleDoc(f) PROVE GraphInv'
  BY <1>3, <1>4, <1>5 DEF ScheduleDoc
<1>6. ASSUME NEW f \in Files, QueueFromRoot(f) PROVE GraphInv'
  BY <1>4, <1>6 DEF QueueFromRoot
<1>7. ASSUME NEW f \in Files, MaybeQueueNode(f) PROVE GraphInv'
  BY <1>3, <1>4, <1>7 DEF MaybeQueueNode
<1>8. CASE EndSchedule
  BY <1>0, <1>8 DEF EndSchedule, Scheduled, GraphInv, EdgesDescend, Compiling
<1>9. CASE SkipEntry
  <2>1. qi \in Nat /\ \A f \in Files : cur.rank[f] \in Nat /\ cur.rank[f] < qi
    BY <1>0, <1>9 DEF SkipEntry, TypeOK, Graphs, GraphInv
  <2>2. \A f \in Files : cur.rank[f] < qi + 1 /\ cur.rank[f] <= qi + 1
    BY <2>1
  <2>3. QED
    BY <1>0, <1>9, <2>2 DEF SkipEntry, GraphInv, EdgesDescend, Compiling
<1>10. CASE CompileEntry
  <2> DEFINE e == queue[qi]
  <2>1. e \in cur.nodes /\ e \in Files /\ qi \in Nat /\ e \notin analyzed
    <3>1. qi \in 1 .. Len(queue) /\ queue \in Seq(Files)
      BY <1>0, <1>10 DEF CompileEntry, TypeOK, CompileOK
    <3>2. QED
      BY <1>0, <1>10, <3>1 DEF CompileEntry, GraphInv
  <2>2. /\ cur'.nodes = cur.nodes /\ cur'.edges = cur.edges
        /\ cur'.rank = [cur.rank EXCEPT ![e] = qi]
    BY <1>0, <1>10, <2>1 DEF CompileEntry, TypeOK, Graphs
  <2>3. /\ cur'.rank[e] = qi
        /\ \A f \in Files \ {e} : cur'.rank[f] = cur.rank[f] /\ cur.rank[f] < qi
        /\ cur.rank \in [Files -> Nat]
    BY <1>0, <1>10, <2>1, <2>2 DEF CompileEntry, TypeOK, Graphs, GraphInv
  <2>4. \A a, b \in Files : <<a, b>> \in cur.edges => b # e
    BY <1>0, <2>1 DEF GraphInv
  <2>5. EdgesDescend(cur)'
    BY <1>0, <2>1, <2>2, <2>3, <2>4 DEF GraphInv, EdgesDescend
  <2>6. EdgesDescend(prev)' /\ entry' = e /\ pc' = "open"
    BY <1>0, <1>10 DEF CompileEntry, GraphInv, EdgesDescend
  <2>7. UNCHANGED <<prev, queue, qi, analyzed>>
    BY <1>10 DEF CompileEntry
  <2> HIDE DEF e
  <2>8. QED
    BY <1>0, <2>1, <2>2, <2>3, <2>5, <2>6, <2>7 DEF GraphInv, Compiling
<1>11. ASSUME NEW f \in Files, Fopen(f) PROVE GraphInv'
  <2>1. CASE files[f] # NotRead
    <3>1. files[f] \in Texts /\ Compiling /\ Opened(f, files[f])
      BY <1>0, <1>11, <2>1 DEF Fopen, TypeOK, Compiling
    <3>2. QED
      BY <1>11, <3>1, OpenedGraph DEF Fopen
  <2>2. CASE files[f] = NotRead /\ docs[f] # Closed
    <3>1. docs[f] \in Texts /\ Compiling /\ Opened(f, docs[f])
      BY <1>0, <1>11, <2>2 DEF Fopen, TypeOK, Compiling, Docs
    <3>2. QED
      BY <1>11, <3>1, OpenedGraph DEF Fopen
  <2>3. CASE files[f] = NotRead /\ docs[f] = Closed
    BY <1>0, <1>11, <2>3 DEF Fopen, GraphInv, EdgesDescend, Compiling
  <2>4. QED
    BY <2>1, <2>2, <2>3
<1>12. CASE ReadFile
  <2>1. reading \in Files /\ Disk[reading] \in Texts /\ Compiling
    BY <1>0, <1>12, AnalyzerAssumption DEF ReadFile, CompileOK, Compiling
  <2>2. QED
    BY <1>12, <2>1, OpenedGraph DEF ReadFile
<1>13. CASE ReadFailure
  BY <1>0, <1>13 DEF ReadFailure, GraphInv, EdgesDescend, Compiling
<1>14. CASE EndCompile
  <2>1. \A f \in Files : cur.rank[f] \in Nat /\ cur.rank[f] <= qi /\ cur.rank[f] < qi + 1
    BY <1>0 DEF TypeOK, Graphs, GraphInv
  <2>2. QED
    BY <1>0, <1>14, <2>1 DEF EndCompile, TypeOK, GraphInv, EdgesDescend, Compiling
<1>15. CASE EndRun
  BY <1>0, <1>15 DEF EndRun, GraphInv, EdgesDescend, Compiling
<1>16. CASE UNCHANGED vars
  BY <1>4, <1>16 DEF vars
<1>17. QED
  BY <1>1, <1>2, <1>5, <1>6, <1>7, <1>8, <1>9, <1>10, <1>11, <1>12, <1>13,
     <1>14, <1>15, <1>16 DEF Next, Run

LEMMA GraphInit == Init => AcyclicInv
<1> SUFFICES ASSUME Init PROVE GraphInv
  BY TypeInit DEF AcyclicInv
<1>1. \A f \in Files : EmptyGraph.rank[f] = 0
  BY DEF EmptyGraph
<1>2. EmptyGraph.edges = {} /\ EdgesDescend(EmptyGraph)
  BY DEF EmptyGraph, EdgesDescend
<1>3. QED
  BY <1>1, <1>2 DEF Init, GraphInv, Compiling

\* A graph whose edges descend along a bounded rank has no cycle: the node of
\* largest rank in a set has no parent in it.
LEMMA DescendingIsAcyclic ==
    ASSUME NEW g \in Graphs, EdgesDescend(g),
           NEW n \in Nat, \A f \in Files : g.rank[f] <= n
    PROVE  Acyclic(g)
<1> SUFFICES ASSUME NEW S \in SUBSET Files, S # {}
             PROVE  \E x \in S : Parents(g, x) \cap S = {}
  BY DEF Acyclic
<1> DEFINE T == {n - g.rank[x] : x \in S}
<1>1. g.rank \in [Files -> Nat]
  BY DEF Graphs
<1>2. T \subseteq Nat /\ T # {}
  BY <1>1
<1>3. PICK m \in T : \A y \in T : ~(<<y, m>> \in OpToRel(<, Nat))
  <2> HIDE DEF T
  <2>1. QED
    BY <1>2, WFMin, NatLessThanWellFounded
<1>4. PICK x \in S : m = n - g.rank[x]
  BY <1>3
<1>5. \A y \in S : ~(n - g.rank[y] < n - g.rank[x])
  BY <1>1, <1>2, <1>3, <1>4 DEF OpToRel
<1>6. \A y \in S : <<y, x>> \notin g.edges
  BY <1>1, <1>5 DEF EdgesDescend
<1>7. QED
  BY <1>6 DEF Parents

LEMMA AcyclicFromInv == AcyclicInv => GraphsAcyclic
<1> SUFFICES ASSUME AcyclicInv PROVE GraphsAcyclic
  OBVIOUS
<1>1. Acyclic(prev)
  BY DescendingIsAcyclic DEF AcyclicInv, TypeInv, TypeOK, GraphInv
<1>2. Acyclic(cur)
  BY DescendingIsAcyclic DEF AcyclicInv, TypeInv, TypeOK, GraphInv
<1>3. QED
  BY <1>1, <1>2 DEF GraphsAcyclic

\* GraphsAcyclic for any number of files, contents and runs: the include graph
\* that buxn_asm_fopen builds never has a cycle, so the recursions over it in
\* buxn_ls_queue_from_root and buxn_ls_maybe_queue_node end.
THEOREM NeverCyclic == Spec => []GraphsAcyclic
BY GraphInit, GraphStep, AcyclicFromInv, PTL DEF Spec

-----------------------------------------------------------------------------
(***************************************************************************)
(* Scheduling queues every open document, once.  What the pending calls    *)
(* have yet to do is in climb and descend; when both are empty, the nodes  *)
(* climbed from and the nodes descended to are closed under parents and    *)
(* under children, and contain the roots.  A document climbed from and not *)
(* descended to would have such a parent, and so on without end.           *)
(***************************************************************************)
QueuedOnce ==
    /\ \A k, l \in 1 .. Len(queue) : queue[k] = queue[l] => k = l
    /\ \A n \in cur.nodes : \E k \in 1 .. Len(queue) : queue[k] = n

DocsAccounted == OpenDocs(docs) \subseteq todo \cup cur.nodes \cup climb \cup climbed

ClimbInv ==
    /\ climb \cup climbed \subseteq prev.nodes
    /\ \A n \in climbed : /\ Parents(prev, n) \subseteq climb \cup climbed
                          /\ Parents(prev, n) = {} => n \in descend \cup seen

DescendInv ==
    /\ descend \subseteq prev.nodes
    /\ cur.nodes \cap prev.nodes \subseteq seen
    /\ \A n \in seen : /\ docs[n] # Closed => n \in cur.nodes
                       /\ Children(prev, n) \subseteq descend \cup seen

ScheduleInv ==
    IF pc = "schedule"
      THEN QueuedOnce /\ DocsAccounted /\ ClimbInv /\ DescendInv
      ELSE climb = {} /\ descend = {}

CoverInv == AcyclicInv /\ ScheduleInv

LEMMA ChildrenAreNodes ==
    ASSUME AcyclicInv, NEW n \in Files
    PROVE  Parents(prev, n) \subseteq prev.nodes /\ Children(prev, n) \subseteq prev.nodes
BY DEF AcyclicInv, GraphInv, EdgesDescend, Parents, Children

LEMMA QueueFile ==
    ASSUME TypeOK, NEW f \in Files, f \notin cur.nodes, QueuedOnce, GraphInv, DoQueueFile(f)
    PROVE  QueuedOnce' /\ cur'.nodes = cur.nodes \cup {f}
<1>1. queue \in Seq(Files) /\ queue' = Append(queue, f)
  BY DEF TypeOK, DoQueueFile
<1>2. cur'.nodes = cur.nodes \cup {f}
  BY DEF TypeOK, Graphs, DoQueueFile
<1>3. /\ Len(queue') = Len(queue) + 1 /\ queue'[Len(queue) + 1] = f
      /\ Len(queue) \in Nat
      /\ \A k \in 1 .. Len(queue) : queue'[k] = queue[k] /\ queue[k] # f
  BY <1>1 DEF GraphInv
<1>4. \A k, l \in 1 .. Len(queue') : queue'[k] = queue'[l] => k = l
  BY <1>3 DEF QueuedOnce
<1>5. \A n \in cur'.nodes : \E k \in 1 .. Len(queue') : queue'[k] = n
  BY <1>2, <1>3 DEF QueuedOnce
<1>6. QED
  BY <1>2, <1>4, <1>5 DEF QueuedOnce

LEMMA ScheduleStep == CoverInv /\ [Next]_vars => CoverInv'
<1> SUFFICES ASSUME CoverInv, [Next]_vars PROVE ScheduleInv'
  BY GraphStep DEF CoverInv
<1>0. TypeOK /\ AcyclicInv /\ GraphInv /\ ScheduleInv
  BY DEF CoverInv, AcyclicInv, TypeInv
<1> USE DEF schedVars, compileVars, historyVars
<1>1. ASSUME pc # "schedule", pc' # "schedule", UNCHANGED <<climb, descend>>
      PROVE  ScheduleInv'
  BY <1>0, <1>1 DEF ScheduleInv
<1>2. CASE StartRun
  <2>1. /\ pc' = "schedule" /\ climb' = {} /\ descend' = {} /\ climbed' = {} /\ seen' = {}
        /\ todo' = OpenDocs(docs) /\ docs' = docs /\ queue' = <<>>
    BY <1>0, <1>2 DEF StartRun, ScheduleInv
  <2>2. cur'.nodes = {}
    BY <1>2 DEF StartRun, EmptyGraph
  <2>3. QueuedOnce'
    BY <2>1, <2>2 DEF QueuedOnce
  <2>4. QED
    BY <2>1, <2>2, <2>3 DEF ScheduleInv, DocsAccounted, ClimbInv, DescendInv
<1>3. ASSUME NEW d \in Files, ScheduleDoc(d) PROVE ScheduleInv'
  <2>1. QueuedOnce /\ DocsAccounted /\ ClimbInv /\ DescendInv
    BY <1>0, <1>3 DEF ScheduleDoc, ScheduleInv
  <2>2. /\ pc' = "schedule" /\ todo' = todo \ {d}
        /\ UNCHANGED <<docs, prev, descend, climbed, seen>>
    BY <1>3 DEF ScheduleDoc
  <2>3. CASE d \in cur.nodes
    <3>1. UNCHANGED <<cur, queue, climb>>
      BY <1>3, <2>3 DEF ScheduleDoc
    <3>2. QED
      BY <2>1, <2>2, <2>3, <3>1
      DEF ScheduleInv, QueuedOnce, DocsAccounted, ClimbInv, DescendInv, OpenDocs, Parents, Children
  <2>4. CASE d \notin cur.nodes /\ d \in prev.nodes
    <3>1. UNCHANGED <<cur, queue>> /\ climb = {} /\ climb' = {d}
      BY <1>3, <2>4 DEF ScheduleDoc
    <3>2. QED
      BY <2>1, <2>2, <2>4, <3>1
      DEF ScheduleInv, QueuedOnce, DocsAccounted, ClimbInv, DescendInv, OpenDocs, Parents, Children
  <2>5. CASE d \notin cur.nodes /\ d \notin prev.nodes
    <3>1. DoQueueFile(d) /\ climb' = climb
      BY <1>3, <2>5 DEF ScheduleDoc
    <3>2. QueuedOnce' /\ cur'.nodes = cur.nodes \cup {d}
      BY <1>0, <2>1, <2>5, <3>1, QueueFile
    <3>3. QED
      BY <2>1, <2>2, <2>5, <3>1, <3>2
      DEF ScheduleInv, DocsAccounted, ClimbInv, DescendInv, OpenDocs, Parents, Children
  <2>6. QED
    BY <2>3, <2>4, <2>5
<1>4. ASSUME NEW n \in Files, QueueFromRoot(n) PROVE ScheduleInv'
  <2>1. QueuedOnce /\ DocsAccounted /\ ClimbInv /\ DescendInv
    BY <1>0, <1>4 DEF QueueFromRoot, ScheduleInv
  <2>2. /\ pc' = "schedule" /\ climbed' = climbed \cup {n} /\ n \in climb
        /\ UNCHANGED <<docs, prev, todo, seen, cur, queue>> /\ descend = {}
        /\ \/ climb' = (climb \ {n}) \cup Parents(prev, n) /\ Parents(prev, n) # {}
              /\ descend' = descend
           \/ climb' = climb \ {n} /\ Parents(prev, n) = {} /\ descend' = {n}
    BY <1>4 DEF QueueFromRoot
  <2>3. Parents(prev, n) \subseteq prev.nodes
    BY <1>0, ChildrenAreNodes
  <2>4. QueuedOnce' /\ DocsAccounted'
    BY <2>1, <2>2 DEF QueuedOnce, DocsAccounted, OpenDocs
  <2>5. ClimbInv'
    BY <2>1, <2>2, <2>3 DEF ClimbInv, Parents
  <2>6. DescendInv'
    BY <2>1, <2>2 DEF ClimbInv, DescendInv, Children
  <2>7. QED
    BY <2>2, <2>4, <2>5, <2>6 DEF ScheduleInv
<1>5. ASSUME NEW n \in Files, MaybeQueueNode(n) PROVE ScheduleInv'
  <2>1. QueuedOnce /\ DocsAccounted /\ ClimbInv /\ DescendInv
    BY <1>0, <1>5 DEF MaybeQueueNode, ScheduleInv
  <2>2. /\ pc' = "schedule" /\ n \in descend /\ n \in prev.nodes
        /\ UNCHANGED <<docs, prev, todo, climb, climbed>>
    BY <1>5, <2>1 DEF MaybeQueueNode, DescendInv
  <2>3. CASE n \in cur.nodes
    <3>1. descend' = descend \ {n} /\ UNCHANGED <<cur, queue, seen>> /\ n \in seen
      BY <1>5, <2>1, <2>2, <2>3 DEF MaybeQueueNode, DescendInv
    <3>2. QueuedOnce' /\ DocsAccounted' /\ ClimbInv' /\ DescendInv'
      BY <2>1, <2>2, <3>1
      DEF QueuedOnce, DocsAccounted, ClimbInv, DescendInv, OpenDocs, Parents, Children
    <3>3. QED
      BY <2>2, <3>2 DEF ScheduleInv
  <2>4. CASE n \notin cur.nodes
    <3>1. /\ seen' = seen \cup {n} /\ descend' = (descend \ {n}) \cup Children(prev, n)
          /\ IF docs[n] # Closed THEN DoQueueFile(n) ELSE UNCHANGED <<cur, queue>>
      BY <1>5, <2>4 DEF MaybeQueueNode
    <3>2. QueuedOnce' /\ cur'.nodes = cur.nodes \cup {x \in {n} : docs[x] # Closed}
      <4>1. CASE docs[n] # Closed
        BY <1>0, <2>1, <2>4, <3>1, <4>1, QueueFile
      <4>2. CASE docs[n] = Closed
        BY <2>1, <3>1, <4>2 DEF QueuedOnce
      <4>3. QED
        BY <4>1, <4>2
    <3>3. Children(prev, n) \subseteq prev.nodes
      BY <1>0, ChildrenAreNodes
    <3>4. DocsAccounted' /\ ClimbInv'
      BY <2>1, <2>2, <3>1, <3>2 DEF DocsAccounted, ClimbInv, OpenDocs, Parents
    <3>5. DescendInv'
      BY <2>1, <2>2, <3>1, <3>2, <3>3 DEF DescendInv, Children
    <3>6. QED
      BY <2>2, <3>2, <3>4, <3>5 DEF ScheduleInv
  <2>5. QED
    BY <2>3, <2>4
<1>6. CASE EndSchedule
  BY <1>6 DEF EndSchedule, Scheduled, ScheduleInv
<1>7. ASSUME NEW m \in Notifications, Update(m) PROVE ScheduleInv'
  BY <1>1, <1>7 DEF Update
<1>8. CASE SkipEntry \/ CompileEntry \/ ReadFailure \/ EndCompile \/ EndRun
  BY <1>1, <1>8 DEF SkipEntry, CompileEntry, ReadFailure, EndCompile, EndRun
<1>9. CASE ReadFile \/ \E f \in Files : Fopen(f)
  BY <1>1, <1>9 DEF ReadFile, Fopen, Opened
<1>10. CASE UNCHANGED vars
  BY <1>0, <1>10
  DEF vars, ScheduleInv, QueuedOnce, DocsAccounted, ClimbInv, DescendInv, Parents, Children
<1>11. QED
  BY <1>2, <1>3, <1>4, <1>5, <1>6, <1>7, <1>8, <1>9, <1>10 DEF Next, Run

LEMMA ScheduleInit == Init => CoverInv
BY GraphInit DEF Init, CoverInv, ScheduleInv

LEMMA CoverFromInv == CoverInv => QueueCoversDocs
<1> SUFFICES ASSUME CoverInv, Scheduled PROVE QueueCoversDocs
  BY DEF QueueCoversDocs
<1>1. /\ QueuedOnce /\ DocsAccounted /\ ClimbInv /\ DescendInv
      /\ todo = {} /\ climb = {} /\ descend = {}
  BY DEF CoverInv, ScheduleInv, Scheduled
<1>2. climbed \subseteq Files /\ Acyclic(prev)
  BY AcyclicFromInv DEF CoverInv, AcyclicInv, TypeInv, TypeOK, GraphsAcyclic
<1>3. climbed \ seen = {}
  <2> SUFFICES ASSUME climbed \ seen # {} PROVE FALSE
    OBVIOUS
  <2>1. PICK n \in climbed \ seen : Parents(prev, n) \cap (climbed \ seen) = {}
    BY <1>2 DEF Acyclic
  <2>2. PICK p \in Parents(prev, n) : p \in climbed
    BY <1>1, <2>1 DEF ClimbInv
  <2>3. p \in seen /\ n \in Children(prev, p)
    BY <1>2, <2>1, <2>2 DEF Parents, Children
  <2>4. QED
    BY <1>1, <2>1, <2>3 DEF DescendInv
<1>4. OpenDocs(docs) \subseteq cur.nodes
  BY <1>1, <1>3 DEF DocsAccounted, DescendInv, OpenDocs
<1>5. QED
  BY <1>1, <1>4 DEF QueueCoversDocs, QueuedOnce

\* QueueCoversDocs for any number of files, contents and runs: whatever the
\* include graph of the previous run, the scheduling loop of buxn_ls_analyze
\* queues every open document exactly once.
THEOREM AlwaysQueued == Spec => []QueueCoversDocs
BY ScheduleInit, ScheduleStep, CoverFromInv, PTL DEF Spec

-----------------------------------------------------------------------------
(***************************************************************************)
(* A run analyzes the documents that nobody touches in the state they had  *)
(* when it began.  A stable document is open, so it is never read from     *)
(* disk; it waits in the queue until it is the entry or a compilation      *)
(* includes it.                                                            *)
(***************************************************************************)
StableOpen ==
    /\ \A d \in stable : docs[d] # Closed
    /\ pc = "read" => reading \notin stable

StableRead ==
    \A d \in stable : /\ files[d] \in {NotRead, docs[d]}
                      /\ d \in analyzed => files[d] = docs[d]

StableQueued ==
    \A d \in stable : d \in analyzed \/ \E k \in 1 .. Len(queue) : queue[k] = d /\ k >= qi

EntryOpens ==
    Compiling =>
        /\ qi <= Len(queue)
        /\ entry = queue[qi]
        /\ entry \in stable => entry \in analyzed \/ (pc = "open" /\ wanted = {entry})

StableInv ==
    /\ StableOpen
    /\ pc # "schedule" => StableRead /\ StableQueued
    /\ pc = "schedule" => analyzed = {}
    /\ EntryOpens
    /\ pc = "idle" => stable \subseteq analyzed

RunInv == CoverInv /\ StableInv

\* What a notification about one file leaves alone
LEMMA UpdateOthers ==
    ASSUME docs \in Docs, NEW m \in Notifications, NEW d \in Files, d # m.uri
    PROVE  WorkspaceUpdate(docs, m)[d] = docs[d]
<1>1. m.method \in {"didOpen", "didChange", "didClose", "other"}
  BY DEF Notifications
<1>2. QED
  BY <1>1 DEF WorkspaceUpdate, UpdateDoc, Docs

LEMMA OpenedStable ==
    ASSUME RunInv, NEW f \in Files, NEW t \in Texts, Compiling, Opened(f, t),
           UNCHANGED <<docs, queue, qi, entry, stable>>,
           files' = [files EXCEPT ![f] = t],
           f \in stable => t = docs[f],
           pc = "open" /\ wanted = {entry} => f = entry
    PROVE  StableInv'
<1>1. /\ TypeOK /\ StableOpen /\ StableRead /\ StableQueued /\ EntryOpens
      /\ pc' = "compile" /\ analyzed' = analyzed \cup {f}
  BY DEF RunInv, StableInv, CoverInv, AcyclicInv, TypeInv, Opened, Compiling
<1>2. StableOpen'
  BY <1>1 DEF StableOpen
<1>3. StableRead'
  BY <1>1 DEF StableRead, TypeOK
<1>4. StableQueued'
  BY <1>1 DEF StableQueued
<1>5. EntryOpens'
  BY <1>1 DEF EntryOpens, Compiling
<1>6. QED
  BY <1>1, <1>2, <1>3, <1>4, <1>5 DEF StableInv

LEMMA StableStep == RunInv /\ [Next]_vars => RunInv'
<1> SUFFICES ASSUME RunInv, [Next]_vars PROVE StableInv'
  BY ScheduleStep DEF RunInv
<1>0. TypeOK /\ CompileOK /\ StableInv
  BY DEF RunInv, CoverInv, AcyclicInv, TypeInv
<1> USE DEF schedVars, compileVars, historyVars
<1>1. ASSUME NEW m \in Notifications, Update(m) PROVE StableInv'
  <2>1. \A d \in stable' : d \in stable /\ docs'[d] = docs[d]
    BY <1>0, <1>1, UpdateOthers DEF Update, TypeOK
  <2>2. UNCHANGED <<queue, qi, pc, analyzed, files, entry, wanted, reading>>
    BY <1>1 DEF Update
  <2>3. QED
    BY <1>0, <2>1, <2>2
    DEF StableInv, StableOpen, StableRead, StableQueued, EntryOpens, Compiling
<1>2. CASE StartRun
  BY <1>2 DEF StartRun, OpenDocs, StableInv, StableOpen, EntryOpens, Compiling
<1>3. ASSUME pc = "schedule", pc' = "schedule", UNCHANGED <<docs, stable, analyzed>>
      PROVE  StableInv'
  BY <1>0, <1>3 DEF StableInv, StableOpen, EntryOpens, Compiling
<1>4. CASE \E f \in Files : ScheduleDoc(f) \/ QueueFromRoot(f) \/ MaybeQueueNode(f)
  BY <1>3, <1>4 DEF ScheduleDoc, QueueFromRoot, MaybeQueueNode
<1>5. CASE EndSchedule
  <2>1. /\ pc' = "next" /\ qi' = 1 /\ Scheduled /\ pc = "schedule"
        /\ files' = NothingRead
        /\ UNCHANGED <<docs, stable, queue, analyzed>>
    BY <1>5 DEF EndSchedule, Scheduled
  <2>2. stable \subseteq OpenDocs(docs) /\ analyzed = {}
    BY <1>0, <2>1 DEF StableInv, StableOpen, OpenDocs, TypeOK
  <2>3. QueueCoversDocs
    BY CoverFromInv DEF RunInv
  <2>4. \A d \in stable : \E k \in 1 .. Len(queue) : queue[k] = d
    BY <2>1, <2>2, <2>3 DEF QueueCoversDocs
  <2>5. StableQueued'
    <3>1. \A k \in 1 .. Len(queue) : k >= 1
      BY <1>0 DEF TypeOK
    <3>2. QED
      BY <2>1, <2>4, <3>1 DEF StableQueued
  <2>6. StableRead'
    BY <1>0, <2>1, <2>2 DEF StableRead, NothingRead, TypeOK
  <2>7. QED
    BY <1>0, <2>1, <2>5, <2>6 DEF StableInv, StableOpen, EntryOpens, Compiling
<1>6. CASE SkipEntry
  <2>1. /\ pc = "next" /\ pc' = "next" /\ qi' = qi + 1 /\ queue[qi] \in analyzed
        /\ UNCHANGED <<docs, stable, queue, analyzed, files>>
    BY <1>6 DEF SkipEntry
  <2>2. StableQueued'
    BY <1>0, <2>1 DEF StableInv, StableQueued, TypeOK
  <2>3. QED
    BY <1>0, <2>1, <2>2 DEF StableInv, StableOpen, StableRead, EntryOpens, Compiling
<1>7. CASE CompileEntry
  BY <1>0, <1>7
  DEF CompileEntry, StableInv, StableOpen, StableRead, StableQueued, EntryOpens, Compiling
<1>8. ASSUME NEW f \in Files, Fopen(f) PROVE StableInv'
  <2>1. /\ Compiling /\ f \in wanted
        /\ UNCHANGED <<docs, queue, qi, entry, stable>>
        /\ StableOpen /\ StableRead /\ StableQueued /\ EntryOpens
    BY <1>0, <1>8 DEF Fopen, StableInv, Compiling
  <2>2. CASE files[f] # NotRead
    <3>1. files[f] \in Texts /\ Opened(f, files[f]) /\ files' = files
      BY <1>0, <1>8, <2>2 DEF Fopen, TypeOK
    <3>2. files' = [files EXCEPT ![f] = files[f]]
      BY <1>0, <3>1 DEF TypeOK
    <3>3. f \in stable => files[f] = docs[f]
      BY <2>1, <2>2 DEF StableRead
    <3>4. QED
      BY <2>1, <3>1, <3>2, <3>3, OpenedStable
  <2>3. CASE files[f] = NotRead /\ docs[f] # Closed
    <3>1. docs[f] \in Texts /\ Opened(f, docs[f]) /\ files' = [files EXCEPT ![f] = docs[f]]
      BY <1>0, <1>8, <2>3 DEF Fopen, TypeOK, Docs
    <3>2. QED
      BY <2>1, <3>1, OpenedStable
  <2>4. CASE files[f] = NotRead /\ docs[f] = Closed
    <3>1. pc' = "read" /\ reading' = f /\ UNCHANGED <<analyzed, files, wanted>>
      BY <1>8, <2>4 DEF Fopen
    <3>2. f \notin stable
      BY <2>1, <2>4 DEF StableOpen
    <3>3. StableOpen' /\ StableRead' /\ StableQueued'
      BY <2>1, <3>1, <3>2 DEF StableOpen, StableRead, StableQueued
    <3>4. EntryOpens'
      BY <2>1, <3>1, <3>2 DEF EntryOpens, Compiling
    <3>5. QED
      BY <3>1, <3>3, <3>4 DEF StableInv
  <2>5. QED
    BY <2>2, <2>3, <2>4
<1>9. CASE ReadFile
  <2>1. /\ Compiling /\ reading \in Files /\ Disk[reading] \in Texts /\ pc = "read"
        /\ Opened(reading, Disk[reading]) /\ reading \notin stable
    BY <1>0, <1>9, AnalyzerAssumption
    DEF ReadFile, CompileOK, Compiling, StableInv, StableOpen
  <2>2. /\ UNCHANGED <<docs, queue, qi, entry, stable>>
        /\ files' = [files EXCEPT ![reading] = Disk[reading]]
    BY <1>9 DEF ReadFile
  <2>3. QED
    BY <2>1, <2>2, OpenedStable
<1>10. CASE ReadFailure
  BY <1>0, <1>10
  DEF ReadFailure, StableInv, StableOpen, StableRead, StableQueued, EntryOpens, Compiling
<1>11. CASE EndCompile
  <2>1. /\ pc = "compile" /\ pc' = "next" /\ qi' = qi + 1
        /\ UNCHANGED <<docs, stable, queue, analyzed, files>>
    BY <1>11 DEF EndCompile
  <2>2. queue[qi] \in stable => queue[qi] \in analyzed
    BY <1>0, <2>1 DEF StableInv, EntryOpens, Compiling
  <2>3. StableQueued'
    BY <1>0, <2>1, <2>2 DEF StableInv, StableQueued, TypeOK
  <2>4. QED
    BY <1>0, <2>1, <2>3 DEF StableInv, StableOpen, StableRead, EntryOpens, Compiling
<1>12. CASE EndRun
  <2>1. /\ pc = "next" /\ pc' = "idle" /\ qi > Len(queue)
        /\ UNCHANGED <<docs, stable, queue, qi, analyzed, files>>
    BY <1>12 DEF EndRun
  <2>2. stable \subseteq analyzed
    BY <1>0, <2>1 DEF StableInv, StableQueued, TypeOK
  <2>3. QED
    BY <1>0, <2>1, <2>2
    DEF StableInv, StableOpen, StableRead, StableQueued, EntryOpens, Compiling
<1>13. CASE UNCHANGED vars
  BY <1>0, <1>13
  DEF vars, StableInv, StableOpen, StableRead, StableQueued, EntryOpens, Compiling
<1>14. QED
  BY <1>1, <1>2, <1>4, <1>5, <1>6, <1>7, <1>8, <1>9, <1>10, <1>11, <1>12, <1>13
  DEF Next, Run

LEMMA StableInit == Init => RunInv
<1> SUFFICES ASSUME Init PROVE StableInv
  BY ScheduleInit DEF RunInv
<1>1. QED
  BY DEF Init, StableInv, StableOpen, StableRead, StableQueued, EntryOpens, Compiling

\* RunCoversDocs for any number of files, contents and runs: when
\* buxn_ls_analyze returns, each document that was open at its beginning and
\* untouched since has been analyzed, with the content the client has.
THEOREM RunsCover == Spec => []RunCoversDocs
<1>1. RunInv => RunCoversDocs
  BY DEF RunInv, StableInv, StableRead, RunCoversDocs
<1>2. QED
  BY StableInit, StableStep, <1>1, PTL DEF Spec

-----------------------------------------------------------------------------
(***************************************************************************)
(* A content, once read, stays.  The only file whose content is written    *)
(* after a wait is the one being read, and nothing else reads that file    *)
(* meanwhile: the compilation is suspended.                                *)
(***************************************************************************)
ReadPending == pc = "read" => reading \in wanted /\ files[reading] = NotRead

SnapshotInv == TypeInv /\ ReadPending

LEMMA ReadPendingStep == SnapshotInv /\ [Next]_vars => SnapshotInv'
<1> SUFFICES ASSUME SnapshotInv, [Next]_vars PROVE ReadPending'
  BY TypeStep DEF SnapshotInv
<1> USE DEF schedVars, compileVars, historyVars
<1>1. ASSUME NEW f \in Files, Fopen(f) PROVE ReadPending'
  BY <1>1 DEF Fopen, Opened, ReadPending
<1>2. ASSUME NEW m \in Notifications, Update(m) PROVE ReadPending'
  BY <1>2 DEF Update, SnapshotInv, ReadPending
<1>3. CASE UNCHANGED vars
  BY <1>3 DEF vars, SnapshotInv, ReadPending
<1>4. CASE StartRun \/ EndSchedule \/ SkipEntry \/ CompileEntry
  BY <1>4 DEF StartRun, EndSchedule, SkipEntry, CompileEntry, ReadPending
<1>5. CASE ReadFile \/ ReadFailure \/ EndCompile \/ EndRun
  BY <1>5 DEF ReadFile, Opened, ReadFailure, EndCompile, EndRun, ReadPending
<1>6. CASE \E f \in Files : ScheduleDoc(f) \/ QueueFromRoot(f) \/ MaybeQueueNode(f)
  BY <1>6 DEF ScheduleDoc, QueueFromRoot, MaybeQueueNode, ReadPending
<1>7. QED
  BY <1>1, <1>2, <1>3, <1>4, <1>5, <1>6 DEF Next, Run

LEMMA SnapshotFromInv ==
    ASSUME SnapshotInv, [Next]_vars, NEW f \in Files,
           pc \notin {"idle", "schedule"}, files[f] # NotRead
    PROVE  files'[f] = files[f]
<1>0. TypeOK /\ CompileOK /\ ReadPending
  BY DEF SnapshotInv, TypeInv
<1> USE DEF schedVars, compileVars, historyVars
<1>1. ASSUME NEW g \in Files, Fopen(g) PROVE files'[f] = files[f]
  BY <1>0, <1>1 DEF Fopen, TypeOK
<1>2. CASE ReadFile
  <2>1. reading \in Files /\ files[reading] = NotRead
    BY <1>0, <1>2 DEF ReadFile, ReadPending, CompileOK
  <2>2. QED
    BY <1>0, <1>2, <2>1 DEF ReadFile, TypeOK
<1>3. ASSUME NEW m \in Notifications, Update(m) PROVE files'[f] = files[f]
  BY <1>3 DEF Update
<1>4. CASE StartRun \/ EndSchedule \/ SkipEntry \/ CompileEntry
  BY <1>4 DEF StartRun, EndSchedule, Scheduled, SkipEntry, CompileEntry
<1>5. CASE ReadFailure \/ EndCompile \/ EndRun
  BY <1>5 DEF ReadFailure, EndCompile, EndRun
<1>6. CASE \E g \in Files : ScheduleDoc(g) \/ QueueFromRoot(g) \/ MaybeQueueNode(g)
  BY <1>6 DEF ScheduleDoc, QueueFromRoot, MaybeQueueNode
<1>7. CASE UNCHANGED vars
  BY <1>7 DEF vars
<1>8. QED
  BY <1>1, <1>2, <1>3, <1>4, <1>5, <1>6, <1>7 DEF Next, Run

LEMMA SnapshotInit == Init => SnapshotInv
BY TypeInit DEF Init, SnapshotInv, ReadPending

\* SnapshotStable for any number of files, contents and notifications: what
\* buxn_asm_fopen has read for a file is what every later compilation of the
\* run gets, whatever the client sends while another file is being read.
THEOREM SnapshotsKept == Spec => SnapshotStable
<1> DEFINE Kept == \A f \in Files :
        pc \notin {"idle", "schedule"} /\ files[f] # NotRead => files'[f] = files[f]
<1>1. SnapshotInv /\ [Next]_vars => Kept
  BY SnapshotFromInv
<1>2. SnapshotInv /\ [Next]_vars => [Kept]_vars
  BY <1>1
<1>3. QED
  BY SnapshotInit, ReadPendingStep, <1>2, PTL DEF Spec, SnapshotStable

-----------------------------------------------------------------------------
(***************************************************************************)
(* The order works.  In a run that nothing disturbs every file is compiled *)
(* with one content, so what a compilation opens is everything its entry   *)
(* includes at any depth: the files opened so far form a set that is       *)
(* closed under inclusion.  An edge of the previous graph leads from an    *)
(* open document to a file in every closed set that has the document.  The *)
(* schedule puts a document behind one of those that included it, so this  *)
(* one has been opened and the document with it.                           *)
(***************************************************************************)
Content(f) == IF docs[f] # Closed THEN docs[f] ELSE Disk[f]

Sealed(S) == \A f \in S : Includes[Content(f)] \subseteq S

Reached(a, b) == \A S \in SUBSET Files : Sealed(S) /\ a \in S => b \in S

RightEdges(g) ==
    \A a, b \in Files : <<a, b>> \in g.edges => docs[a] # Closed /\ Reached(a, b)

\* What only the compilation of an entry uses
Rested == ~Compiling => entry = None /\ wanted = {} /\ included = {}

QuietQueue ==
    /\ RightEdges(cur)
    /\ \A k \in 1 .. Len(queue) : docs[queue[k]] # Closed
    /\ pc = "schedule" => todo \subseteq OpenDocs(docs)

QuietRead ==
    pc # "schedule" =>
        /\ \A f \in Files : files[f] \in {NotRead, Content(f)}
        /\ \A f \in analyzed : Includes[Content(f)] \subseteq analyzed \cup wanted
        /\ \A k \in 1 .. Len(queue) : k < qi => queue[k] \in analyzed

QuietCompile ==
    /\ included \subseteq analyzed
    /\ pc = "open" => wanted = {entry}
    /\ pc \in {"compile", "read"} => entry \in analyzed
    /\ pc = "read" => docs[reading] = Closed
    /\ Compiling => \A f \in wanted : Reached(entry, f)

QuietInv == quiet => QuietQueue /\ QuietRead /\ QuietCompile

\* n has no parent in the previous graph, or one of them is in the queue
Preceded(n, q) ==
    Parents(prev, n) = {} \/ \E l \in 1 .. Len(q) : q[l] \in Parents(prev, n)

CalmInv ==
    calm /\ quiet =>
        /\ RightEdges(prev)
        /\ \A n \in descend : Preceded(n, queue)
        /\ \A k \in 1 .. Len(queue) :
              Parents(prev, queue[k]) = {} \/ \E l \in 1 .. k - 1 : queue[l] \in Parents(prev, queue[k])
        /\ RootsOnly

OrderInv == RunInv /\ ReadPending /\ Rested /\ QuietInv /\ CalmInv

LEMMA SameDocs ==
    ASSUME docs' = docs
    PROVE  /\ \A f \in Files : Content(f)' = Content(f)
           /\ \A a, b \in Files : Reached(a, b)' <=> Reached(a, b)
<1>1. \A f : Content(f)' = Content(f)
  BY DEF Content
<1>2. \A S \in SUBSET Files : Sealed(S)' <=> Sealed(S)
  BY <1>1 DEF Sealed
<1>3. \A a, b \in Files : Reached(a, b)' <=> Reached(a, b)
  BY <1>2 DEF Reached
<1>4. QED
  BY <1>1, <1>3

LEMMA SameEdges ==
    ASSUME docs' = docs, NEW g, NEW h, RightEdges(g), h.edges = g.edges
    PROVE  \A a, b \in Files : <<a, b>> \in h.edges => docs'[a] # Closed /\ Reached(a, b)'
BY SameDocs DEF RightEdges

\* What the content of a file includes is reached from wherever the file is.
LEMMA ReachedOn ==
    ASSUME NEW a \in Files, NEW f \in Files, Reached(a, f), NEW b \in Includes[Content(f)]
    PROVE  Reached(a, b)
BY DEF Reached, Sealed

LEMMA OpenedQuiet ==
    ASSUME OrderInv, quiet, NEW f \in wanted, NEW t \in Texts, Compiling, Opened(f, t),
           t = Content(f), files' = [files EXCEPT ![f] = t],
           UNCHANGED <<docs, prev, queue, qi, entry, descend, quiet, calm>>
    PROVE  QuietInv' /\ CalmInv'
<1>1. /\ TypeOK /\ QuietQueue /\ QuietRead /\ QuietCompile /\ CalmInv /\ EntryOpens
      /\ entry \in Files /\ f \in Files /\ GraphInv /\ CompileOK
  BY DEF OrderInv, QuietInv, RunInv, StableInv, CoverInv, AcyclicInv, TypeInv, TypeOK,
         CompileOK, Compiling
<1>2. /\ pc' = "compile" /\ analyzed' = analyzed \cup {f}
      /\ included' = included \cup {f}
      /\ wanted' = (wanted \ {f}) \cup (Includes[t] \ included')
  BY DEF Opened
<1>3. Includes[t] \subseteq Files
  BY AnalyzerAssumption
<1>4. pc # "schedule" /\ Reached(entry, f)
  BY <1>1 DEF Compiling, QuietCompile
<1>5. docs[entry] # Closed
  <2>1. qi \in 1 .. Len(queue) /\ entry = queue[qi]
    BY <1>1 DEF EntryOpens, TypeOK, CompileOK, Compiling
  <2>2. QED
    BY <1>1, <2>1 DEF QuietQueue
<1>6. RightEdges(cur)'
  <2>1. cur'.edges = IF f = entry THEN cur.edges ELSE cur.edges \cup {<<entry, f>>}
    BY <1>1 DEF Opened, AddEdge, TypeOK, Graphs
  <2>2. \A a, b \in Files : <<a, b>> \in cur'.edges =>
          <<a, b>> \in cur.edges \/ (a = entry /\ b = f)
    BY <2>1
  <2>3. \A a, b \in Files : <<a, b>> \in cur'.edges => docs[a] # Closed /\ Reached(a, b)
    BY <1>1, <1>4, <1>5, <2>2 DEF QuietQueue, RightEdges
  <2>4. QED
    BY <2>3, SameDocs DEF RightEdges
<1>7. QuietQueue'
  BY <1>1, <1>2, <1>6 DEF QuietQueue
<1>8. QuietRead'
  <2>1. \A g \in Files : files'[g] \in {NotRead, Content(g)}
    BY <1>1, <1>4 DEF QuietRead, TypeOK
  <2>2. included' \subseteq analyzed'
    BY <1>1, <1>2 DEF QuietCompile
  <2>3. Includes[Content(f)] \subseteq analyzed' \cup wanted'
    BY <1>2, <2>2
  <2>4. \A g \in analyzed' : Includes[Content(g)] \subseteq analyzed' \cup wanted'
    BY <1>1, <1>2, <1>4, <2>3 DEF QuietRead
  <2>5. \A k \in 1 .. Len(queue) : k < qi => queue[k] \in analyzed'
    BY <1>1, <1>2, <1>4 DEF QuietRead
  <2>6. analyzed' \subseteq Files
    BY <1>1, <1>2 DEF TypeOK
  <2>7. QED
    BY <2>1, <2>4, <2>5, <2>6, SameDocs DEF QuietRead
<1>9. QuietCompile'
  <2>1. included' \subseteq analyzed'
    BY <1>1, <1>2 DEF QuietCompile
  <2>2. entry \in analyzed'
    <3>1. pc = "open" => f = entry
      BY <1>1 DEF QuietCompile
    <3>2. QED
      BY <1>1, <1>2, <3>1 DEF QuietCompile, Compiling
  <2>3. \A g \in Includes[t] : Reached(entry, g)
    BY <1>1, <1>4, ReachedOn
  <2>4. \A g \in wanted' : g \in Files /\ Reached(entry, g)
    BY <1>1, <1>2, <1>3, <2>3 DEF QuietCompile, TypeOK
  <2>5. \A g \in wanted' : Reached(entry, g)'
    BY <1>1, <2>4, SameDocs
  <2>6. QED
    BY <1>2, <2>1, <2>2, <2>5 DEF QuietCompile, Compiling
<1>10. CalmInv'
  <2> SUFFICES ASSUME calm' PROVE CalmInv'
    BY DEF CalmInv
  <2>1. RightEdges(prev)'
    BY <1>1, SameEdges DEF CalmInv, RightEdges
  <2>2. QED
    BY <1>1, <2>1 DEF CalmInv, Preceded, Parents, RootsOnly
<1>11. QED
  BY <1>7, <1>8, <1>9, <1>10 DEF QuietInv

LEMMA OrderStep == OrderInv /\ [Next]_vars => OrderInv'
<1> SUFFICES ASSUME OrderInv, [Next]_vars PROVE Rested' /\ QuietInv' /\ CalmInv'
  <2>1. OrderInv /\ [Next]_vars => RunInv' /\ ReadPending'
    BY StableStep, ReadPendingStep DEF OrderInv, RunInv, CoverInv, AcyclicInv, SnapshotInv
  <2>2. QED
    BY <2>1 DEF OrderInv
<1>0. /\ TypeOK /\ CompileOK /\ GraphInv /\ ScheduleInv /\ StableInv
      /\ ReadPending /\ Rested /\ QuietInv /\ CalmInv
  BY DEF OrderInv, RunInv, CoverInv, AcyclicInv, TypeInv
<1> USE DEF schedVars, compileVars, historyVars
<1>1. Rested'
  <2>1. ASSUME NEW f \in Files, Fopen(f) PROVE Rested'
    BY <2>1 DEF Fopen, Opened, Rested, Compiling
  <2>2. ASSUME NEW m \in Notifications, Update(m) PROVE Rested'
    BY <1>0, <2>2 DEF Update, Rested, Compiling
  <2>3. CASE StartRun
    BY <1>0, <2>3 DEF StartRun, Rested, Compiling
  <2>4. CASE EndSchedule
    BY <1>0, <2>4 DEF EndSchedule, Scheduled, Rested, Compiling
  <2>5. CASE SkipEntry
    BY <1>0, <2>5 DEF SkipEntry, Rested, Compiling
  <2>6. CASE CompileEntry
    BY <2>6 DEF CompileEntry, Rested, Compiling
  <2>7. CASE ReadFile
    BY <2>7 DEF ReadFile, Opened, Rested, Compiling
  <2>8. CASE ReadFailure \/ EndCompile
    BY <2>8 DEF ReadFailure, EndCompile, Rested, Compiling
  <2>9. CASE EndRun
    BY <1>0, <2>9 DEF EndRun, Rested, Compiling
  <2>10. ASSUME NEW f \in Files, ScheduleDoc(f) PROVE Rested'
    BY <1>0, <2>10 DEF ScheduleDoc, Rested, Compiling
  <2>11. ASSUME NEW f \in Files, QueueFromRoot(f) PROVE Rested'
    BY <1>0, <2>11 DEF QueueFromRoot, Rested, Compiling
  <2>12. ASSUME NEW f \in Files, MaybeQueueNode(f) PROVE Rested'
    BY <1>0, <2>12 DEF MaybeQueueNode, Rested, Compiling
  <2>13. CASE UNCHANGED vars
    BY <1>0, <2>13 DEF vars, Rested, Compiling
  <2>14. QED
    BY <2>1, <2>2, <2>3, <2>4, <2>5, <2>6, <2>7, <2>8, <2>9, <2>10, <2>11, <2>12, <2>13
    DEF Next, Run
<1> SUFFICES ASSUME quiet' PROVE QuietInv' /\ CalmInv'
  BY <1>1 DEF QuietInv, CalmInv
\* Nothing the two invariants speak of changes.
<1>2. ASSUME quiet, UNCHANGED <<docs, prev, cur, queue, qi, analyzed, files, pc, todo,
                                descend, entry, wanted, included, reading, calm>>
      PROVE  QuietInv' /\ CalmInv'
  <2>1. QuietQueue /\ QuietRead /\ QuietCompile
    BY <1>0, <1>2 DEF QuietInv
  <2>2. RightEdges(cur)'
    BY <1>2, <2>1, SameEdges DEF QuietQueue, RightEdges
  <2>3. QuietQueue'
    BY <1>2, <2>1, <2>2 DEF QuietQueue, OpenDocs
  <2>4. QuietRead'
    BY <1>0, <1>2, <2>1, SameDocs DEF QuietRead, TypeOK
  <2>5. QuietCompile'
    BY <1>0, <1>2, <2>1, SameDocs DEF QuietCompile, TypeOK, CompileOK, Compiling
  <2>6. calm => RightEdges(prev)'
    BY <1>0, <1>2, SameEdges DEF CalmInv, RightEdges
  <2>7. CalmInv'
    BY <1>0, <1>2, <2>6 DEF CalmInv, Preceded, Parents, RootsOnly
  <2>8. QED
    BY <2>3, <2>4, <2>5, <2>7 DEF QuietInv
\* The same, for a step of the scheduling that may queue a file
<1>3. ASSUME quiet, pc = "schedule", pc' = "schedule", todo' \subseteq todo,
             UNCHANGED <<docs, prev, analyzed, entry, wanted, included, calm>>,
             \/ UNCHANGED <<cur, queue>>
             \/ \E f \in Files : docs[f] # Closed /\ DoQueueFile(f)
      PROVE  QuietInv'
  <2>1. QuietQueue /\ QuietCompile
    BY <1>0, <1>3 DEF QuietInv
  <2>2. cur'.edges = cur.edges
    BY <1>0, <1>3 DEF DoQueueFile, TypeOK, Graphs
  <2>3. RightEdges(cur)'
    BY <1>3, <2>1, <2>2, SameEdges DEF QuietQueue, RightEdges
  <2>4. \A k \in 1 .. Len(queue') : docs[queue'[k]] # Closed
    <3>1. CASE queue' = queue
      BY <2>1, <3>1 DEF QuietQueue
    <3>2. ASSUME NEW f \in Files, docs[f] # Closed, DoQueueFile(f)
          PROVE  \A k \in 1 .. Len(queue') : docs[queue'[k]] # Closed
      <4>1. queue' = Append(queue, f) /\ queue \in Seq(Files)
        BY <1>0, <3>2 DEF DoQueueFile, TypeOK
      <4>2. QED
        BY <2>1, <3>2, <4>1 DEF QuietQueue
    <3>3. QED
      BY <1>3, <3>1, <3>2
  <2>5. QuietQueue'
    BY <1>3, <2>1, <2>3, <2>4 DEF QuietQueue, OpenDocs
  <2>6. QuietRead' /\ QuietCompile'
    BY <1>3, <2>1 DEF QuietRead, QuietCompile, Compiling
  <2>7. QED
    BY <2>5, <2>6 DEF QuietInv
<1>4. ASSUME NEW f \in Files, DoQueueFile(f), calm, quiet, Preceded(f, queue),
             UNCHANGED <<docs, prev>>
      PROVE  \A k \in 1 .. Len(queue') :
               \/ Parents(prev, queue'[k]) = {}
               \/ \E l \in 1 .. k - 1 : queue'[l] \in Parents(prev, queue'[k])
  <2>1. queue \in Seq(Files) /\ queue' = Append(queue, f)
    BY <1>0, <1>4 DEF DoQueueFile, TypeOK
  <2>2. /\ Len(queue) \in Nat /\ Len(queue') = Len(queue) + 1
        /\ \A k \in 1 .. Len(queue) : queue'[k] = queue[k]
        /\ queue'[Len(queue) + 1] = f
    BY <2>1
  <2>3. SUFFICES ASSUME NEW k \in 1 .. Len(queue'), Parents(prev, queue'[k]) # {}
                 PROVE  \E l \in 1 .. k - 1 : queue'[l] \in Parents(prev, queue'[k])
    OBVIOUS
  <2>4. CASE k = Len(queue) + 1
    BY <1>4, <2>2, <2>3, <2>4 DEF Preceded
  <2>5. CASE k # Len(queue) + 1
    <3>1. k \in 1 .. Len(queue) /\ queue'[k] = queue[k]
      BY <2>2, <2>3, <2>5
    <3>2. PICK l \in 1 .. k - 1 : queue[l] \in Parents(prev, queue[k])
      BY <1>0, <1>4, <2>3, <3>1 DEF CalmInv
    <3>3. l \in 1 .. Len(queue)
      BY <2>2, <3>1, <3>2
    <3>4. QED
      BY <2>2, <3>1, <3>2, <3>3
  <2>6. QED
    BY <2>4, <2>5
<1>5. ASSUME NEW m \in Notifications, Update(m) PROVE QuietInv' /\ CalmInv'
  BY <1>2, <1>5 DEF Update
<1>6. CASE StartRun
  <2>1. /\ cur'.edges = {} /\ queue' = <<>> /\ pc' = "schedule" /\ todo' = OpenDocs(docs)
        /\ prev' = cur /\ calm' = quiet /\ analyzed' = {} /\ pc = "idle"
        /\ UNCHANGED <<docs, descend, entry, wanted, included>>
    BY <1>6 DEF StartRun, EmptyGraph
  <2>2. descend = {} /\ entry = None /\ wanted = {} /\ included = {}
    BY <1>0, <2>1 DEF ScheduleInv, Rested, Compiling
  <2>3. QuietQueue'
    BY <2>1 DEF QuietQueue, RightEdges, OpenDocs
  <2>4. QuietRead' /\ QuietCompile'
    BY <2>1, <2>2 DEF QuietRead, QuietCompile, Compiling
  <2>5. quiet => RightEdges(prev)'
    BY <1>0, <2>1, SameEdges DEF QuietInv, QuietQueue, RightEdges
  <2>6. CalmInv'
    BY <2>1, <2>2, <2>5 DEF CalmInv, RootsOnly
  <2>7. QED
    BY <2>3, <2>4, <2>6 DEF QuietInv
<1>7. ASSUME NEW d \in Files, ScheduleDoc(d) PROVE QuietInv' /\ CalmInv'
  <2>1. /\ pc = "schedule" /\ pc' = "schedule" /\ quiet /\ d \in todo /\ descend = {}
        /\ todo' \subseteq todo
        /\ UNCHANGED <<docs, prev, analyzed, entry, wanted, included, calm, descend>>
    BY <1>7 DEF ScheduleDoc
  <2>2. docs[d] # Closed /\ entry = None
    BY <1>0, <2>1 DEF QuietInv, QuietQueue, OpenDocs, Rested, Compiling
  <2>3. \/ UNCHANGED <<cur, queue>>
        \/ d \notin prev.nodes /\ DoQueueFile(d)
    BY <1>7 DEF ScheduleDoc
  <2>4. QuietInv'
    BY <1>3, <2>1, <2>2, <2>3
  <2>5. CalmInv'
    <3> SUFFICES ASSUME calm PROVE CalmInv'
      BY <2>1 DEF CalmInv
    <3>1. RightEdges(prev)'
      BY <1>0, <2>1, SameEdges DEF CalmInv, RightEdges
    <3>2. CASE UNCHANGED <<cur, queue>>
      BY <1>0, <2>1, <2>2, <3>1, <3>2 DEF CalmInv, Preceded, Parents, RootsOnly
    <3>3. CASE d \notin prev.nodes /\ DoQueueFile(d)
      <4>1. Preceded(d, queue)
        BY <1>0, <3>3 DEF Preceded, Parents, GraphInv, EdgesDescend
      <4>2. \A k \in 1 .. Len(queue') :
               \/ Parents(prev, queue'[k]) = {}
               \/ \E l \in 1 .. k - 1 : queue'[l] \in Parents(prev, queue'[k])
        BY <1>4, <2>1, <3>3, <4>1
      <4>3. QED
        BY <2>1, <2>2, <3>1, <4>2 DEF CalmInv, Preceded, Parents, RootsOnly
    <3>4. QED
      BY <2>3, <3>2, <3>3
  <2>6. QED
    BY <2>4, <2>5
<1>8. ASSUME NEW n \in Files, QueueFromRoot(n) PROVE QuietInv' /\ CalmInv'
  <2>1. /\ pc = "schedule" /\ pc' = "schedule" /\ quiet /\ descend = {}
        /\ UNCHANGED <<docs, prev, cur, queue, todo, analyzed, entry, wanted, included, calm>>
        /\ descend' = {} \/ (descend' = {n} /\ Parents(prev, n) = {})
    BY <1>8 DEF QueueFromRoot
  <2>2. QuietInv'
    BY <1>3, <2>1
  <2>3. calm => RightEdges(prev)'
    BY <1>0, <2>1, SameEdges DEF CalmInv, RightEdges
  <2>4. CalmInv'
    BY <1>0, <2>1, <2>3 DEF CalmInv, Preceded, Parents, RootsOnly
  <2>5. QED
    BY <2>2, <2>4
<1>9. ASSUME NEW n \in Files, MaybeQueueNode(n) PROVE QuietInv' /\ CalmInv'
  <2>1. /\ pc = "schedule" /\ pc' = "schedule" /\ quiet /\ n \in descend
        /\ UNCHANGED <<docs, prev, todo, analyzed, entry, wanted, included, calm>>
    BY <1>9 DEF MaybeQueueNode
  <2>2. \/ UNCHANGED <<cur, queue>> /\ descend' \subseteq descend
        \/ /\ UNCHANGED <<cur, queue>> /\ docs[n] = Closed
           /\ descend' = (descend \ {n}) \cup Children(prev, n)
        \/ /\ DoQueueFile(n) /\ docs[n] # Closed
           /\ descend' = (descend \ {n}) \cup Children(prev, n)
    BY <1>9 DEF MaybeQueueNode
  <2>3. QuietInv'
    BY <1>3, <2>1, <2>2
  <2>4. entry = None
    BY <1>0, <2>1 DEF Rested, Compiling
  <2>5. CalmInv'
    <3> SUFFICES ASSUME calm PROVE CalmInv'
      BY <2>1 DEF CalmInv
    <3>1. RightEdges(prev)'
      BY <1>0, <2>1, SameEdges DEF CalmInv, RightEdges
    <3>2. CASE UNCHANGED <<cur, queue>> /\ descend' \subseteq descend
      BY <1>0, <2>1, <2>4, <3>1, <3>2 DEF CalmInv, Preceded, Parents, RootsOnly
    <3>3. CASE UNCHANGED <<cur, queue>> /\ docs[n] = Closed
               /\ descend' = (descend \ {n}) \cup Children(prev, n)
      <4>1. Children(prev, n) = {}
        BY <1>0, <2>1, <3>3 DEF CalmInv, RightEdges, Children
      <4>2. descend' \subseteq descend
        BY <3>3, <4>1
      <4>3. QED
        BY <3>2, <3>3, <4>2
    <3>4. CASE DoQueueFile(n) /\ docs[n] # Closed
               /\ descend' = (descend \ {n}) \cup Children(prev, n)
      <4>1. Preceded(n, queue)
        BY <1>0, <2>1 DEF CalmInv
      <4>2. \A k \in 1 .. Len(queue') :
               \/ Parents(prev, queue'[k]) = {}
               \/ \E l \in 1 .. k - 1 : queue'[l] \in Parents(prev, queue'[k])
        BY <1>4, <2>1, <3>4, <4>1
      <4>3. /\ Len(queue) \in Nat /\ Len(queue') = Len(queue) + 1
            /\ \A k \in 1 .. Len(queue) : queue'[k] = queue[k]
            /\ queue'[Len(queue) + 1] = n
        BY <1>0, <3>4 DEF DoQueueFile, TypeOK
      <4>4. \A c \in descend : Preceded(c, queue')
        BY <1>0, <2>1, <4>3 DEF CalmInv, Preceded
      <4>5. \A c \in Children(prev, n) : Preceded(c, queue')
        BY <4>3 DEF Preceded, Parents, Children
      <4>6. \A c \in descend' : Preceded(c, queue')
        BY <3>4, <4>4, <4>5
      <4>7. QED
        BY <2>1, <2>4, <3>1, <4>2, <4>6 DEF CalmInv, Preceded, Parents, RootsOnly
    <3>5. QED
      BY <2>2, <3>2, <3>3, <3>4
  <2>6. QED
    BY <2>3, <2>5
\* Steps of the loop over the queue, with no compilation under way
<1>10. ASSUME quiet, UNCHANGED <<docs, prev, queue, descend, calm>>, cur'.edges = cur.edges,
              entry' = None \/ (calm => Parents(prev, entry') = {}), pc' # "schedule",
              QuietRead', QuietCompile'
      PROVE  QuietInv' /\ CalmInv'
  <2>1. RightEdges(cur)'
    BY <1>0, <1>10, SameEdges DEF QuietInv, QuietQueue, RightEdges
  <2>2. QuietQueue'
    BY <1>0, <1>10, <2>1 DEF QuietInv, QuietQueue
  <2>3. calm => RightEdges(prev)'
    BY <1>0, <1>10, SameEdges DEF CalmInv, RightEdges
  <2>4. CalmInv'
    BY <1>0, <1>10, <2>3 DEF CalmInv, Preceded, Parents, RootsOnly
  <2>5. QED
    BY <1>10, <2>2, <2>4 DEF QuietInv
<1>11. CASE EndSchedule
  <2>1. /\ quiet /\ pc = "schedule" /\ pc' = "next" /\ qi' = 1 /\ files' = NothingRead
        /\ UNCHANGED <<docs, prev, cur, queue, descend, calm, analyzed, entry, wanted, included>>
    BY <1>11 DEF EndSchedule, Scheduled
  <2>2. analyzed = {} /\ entry = None
    BY <1>0, <2>1 DEF StableInv, Rested, Compiling
  <2>3. QuietRead'
    BY <2>1, <2>2 DEF QuietRead, NothingRead
  <2>4. QuietCompile'
    BY <1>0, <2>1 DEF QuietInv, QuietCompile, Compiling
  <2>5. QED
    BY <1>10, <2>1, <2>2, <2>3, <2>4
<1>12. CASE SkipEntry
  <2>1. /\ quiet /\ pc = "next" /\ pc' = "next" /\ qi' = qi + 1 /\ queue[qi] \in analyzed
        /\ UNCHANGED <<docs, prev, cur, queue, descend, calm, analyzed, files, entry, wanted,
                       included>>
    BY <1>12 DEF SkipEntry
  <2>2. entry = None
    BY <1>0, <2>1 DEF Rested, Compiling
  <2>3. \A k \in 1 .. Len(queue) : k < qi + 1 => queue[k] \in analyzed
    BY <1>0, <2>1 DEF QuietInv, QuietRead, TypeOK
  <2>4. QuietRead'
    BY <1>0, <2>1, <2>3, SameDocs DEF QuietInv, QuietRead, TypeOK
  <2>5. QuietCompile'
    BY <1>0, <2>1 DEF QuietInv, QuietCompile, Compiling
  <2>6. QED
    BY <1>10, <2>1, <2>2, <2>4, <2>5
<1>13. CASE CompileEntry
  <2> DEFINE e == queue[qi]
  <2>1. /\ quiet /\ pc = "next" /\ pc' = "open" /\ qi <= Len(queue) /\ e \notin analyzed
        /\ entry' = e /\ wanted' = {e} /\ included' = {}
        /\ UNCHANGED <<docs, prev, queue, qi, descend, calm, analyzed, files>>
    BY <1>13 DEF CompileEntry
  <2>2. qi \in 1 .. Len(queue) /\ e \in Files /\ Len(queue) \in Nat /\ qi \in Nat
    <3>1. queue \in Seq(Files) /\ qi \in Nat /\ qi >= 1
      BY <1>0, <2>1 DEF TypeOK, CompileOK
    <3>2. QED
      BY <2>1, <3>1
  <2>3. cur'.edges = cur.edges
    BY <1>0, <1>13 DEF CompileEntry, TypeOK, Graphs
  <2>4. wanted = {}
    BY <1>0, <2>1 DEF Rested, Compiling
  <2>5. /\ \A f \in analyzed : Includes[Content(f)] \subseteq analyzed
        /\ \A k \in 1 .. Len(queue) : k < qi => queue[k] \in analyzed
    BY <1>0, <2>1, <2>4 DEF QuietInv, QuietRead
  <2> HIDE DEF e
  <2>6. QuietRead'
    BY <1>0, <2>1, <2>5, SameDocs DEF QuietInv, QuietRead, TypeOK
  <2>7. QuietCompile'
    BY <2>1 DEF QuietCompile, Compiling, Reached
  <2>8. calm => Parents(prev, e) = {}
    <3> SUFFICES ASSUME calm, Parents(prev, e) # {} PROVE FALSE
      OBVIOUS
    <3>1. PICK l \in 1 .. qi - 1 : queue[l] \in Parents(prev, e)
      BY <1>0, <2>1, <2>2 DEF CalmInv, e
    <3>2. queue[l] \in analyzed
      BY <2>2, <2>5, <3>1
    <3>3. Reached(queue[l], e)
      BY <1>0, <2>1, <2>2, <3>1 DEF CalmInv, RightEdges, Parents
    <3>4. Sealed(analyzed) /\ analyzed \in SUBSET Files
      BY <1>0, <2>5 DEF Sealed, TypeOK
    <3>5. QED
      BY <2>1, <3>2, <3>3, <3>4 DEF Reached
  <2>9. QED
    BY <1>10, <2>1, <2>3, <2>6, <2>7, <2>8
<1>14. ASSUME NEW f \in Files, Fopen(f) PROVE QuietInv' /\ CalmInv'
  <2>1. /\ quiet /\ Compiling /\ f \in wanted /\ pc # "schedule" /\ pc \in {"open", "compile"}
        /\ UNCHANGED <<docs, prev, queue, qi, entry, descend, quiet, calm>>
    BY <1>14 DEF Fopen, Compiling
  <2>2. QuietRead /\ QuietCompile /\ QuietQueue
    BY <1>0, <2>1 DEF QuietInv
  <2>3. CASE files[f] # NotRead
    <3>1. files[f] \in Texts /\ Opened(f, files[f]) /\ files' = files /\ files[f] = Content(f)
      BY <1>0, <1>14, <2>1, <2>2, <2>3 DEF Fopen, TypeOK, QuietRead
    <3>2. files' = [files EXCEPT ![f] = files[f]]
      BY <1>0, <3>1 DEF TypeOK
    <3>3. QED
      BY <2>1, <3>1, <3>2, OpenedQuiet
  <2>4. CASE files[f] = NotRead /\ docs[f] # Closed
    <3>1. docs[f] \in Texts /\ Opened(f, docs[f]) /\ files' = [files EXCEPT ![f] = docs[f]]
      BY <1>0, <1>14, <2>4 DEF Fopen, TypeOK, Docs
    <3>2. docs[f] = Content(f)
      BY <2>4 DEF Content
    <3>3. QED
      BY <2>1, <3>1, <3>2, OpenedQuiet
  <2>5. CASE files[f] = NotRead /\ docs[f] = Closed
    <3>1. pc' = "read" /\ reading' = f /\ UNCHANGED <<analyzed, files, wanted, cur, included>>
      BY <1>14, <2>5 DEF Fopen
    <3>2. pc # "open"
      <4>1. qi \in 1 .. Len(queue) /\ entry = queue[qi]
        BY <1>0, <2>1 DEF StableInv, EntryOpens, TypeOK, CompileOK, Compiling
      <4>2. docs[entry] # Closed
        BY <2>2, <4>1 DEF QuietQueue
      <4>3. QED
        BY <2>1, <2>2, <2>5, <4>2 DEF QuietCompile
    <3>3. QuietRead'
      BY <1>0, <2>1, <2>2, <3>1, SameDocs DEF QuietRead, TypeOK
    <3>4. QuietCompile'
      BY <1>0, <2>1, <2>2, <2>5, <3>1, <3>2, SameDocs
      DEF QuietCompile, Compiling, TypeOK, CompileOK
    <3>5. entry' = None \/ (calm => Parents(prev, entry') = {})
      BY <1>0, <2>1 DEF CalmInv, RootsOnly
    <3>6. QED
      BY <1>10, <2>1, <3>1, <3>3, <3>4, <3>5
  <2>6. QED
    BY <2>3, <2>4, <2>5
<1>15. CASE ReadFile
  <2>1. /\ quiet /\ Compiling /\ pc = "read" /\ Opened(reading, Disk[reading])
        /\ files' = [files EXCEPT ![reading] = Disk[reading]]
        /\ UNCHANGED <<docs, prev, queue, qi, entry, descend, quiet, calm>>
    BY <1>15 DEF ReadFile, Compiling
  <2>2. reading \in wanted /\ Disk[reading] \in Texts /\ Disk[reading] = Content(reading)
    BY <1>0, <2>1, AnalyzerAssumption
    DEF ReadPending, CompileOK, QuietInv, QuietCompile, Content
  <2>3. QED
    BY <2>1, <2>2, OpenedQuiet
<1>16. CASE ReadFailure
  BY <1>16 DEF ReadFailure
<1>17. CASE EndCompile
  <2>1. /\ quiet /\ pc = "compile" /\ pc' = "next" /\ qi' = qi + 1 /\ entry' = None
        /\ wanted = {} /\ wanted' = {} /\ included' = {}
        /\ UNCHANGED <<docs, prev, cur, queue, descend, calm, analyzed, files>>
    BY <1>17 DEF EndCompile
  <2>2. queue[qi] \in analyzed
    BY <1>0, <2>1 DEF StableInv, EntryOpens, QuietInv, QuietCompile, Compiling
  <2>3. \A k \in 1 .. Len(queue) : k < qi + 1 => queue[k] \in analyzed
    BY <1>0, <2>1, <2>2 DEF QuietInv, QuietRead, TypeOK
  <2>4. QuietRead'
    BY <1>0, <2>1, <2>3, SameDocs DEF QuietInv, QuietRead, TypeOK
  <2>5. QuietCompile'
    BY <2>1 DEF QuietCompile, Compiling
  <2>6. QED
    BY <1>10, <2>1, <2>4, <2>5
<1>18. CASE EndRun
  <2>1. /\ quiet /\ pc = "next" /\ pc' = "idle"
        /\ UNCHANGED <<docs, prev, cur, queue, qi, descend, calm, analyzed, files, entry,
                       wanted, included>>
    BY <1>18 DEF EndRun
  <2>2. entry = None
    BY <1>0, <2>1 DEF Rested, Compiling
  <2>3. QuietRead'
    BY <1>0, <2>1, SameDocs DEF QuietInv, QuietRead, TypeOK
  <2>4. QuietCompile'
    BY <1>0, <2>1 DEF QuietInv, QuietCompile, Compiling
  <2>5. QED
    BY <1>10, <2>1, <2>2, <2>3, <2>4
<1>19. CASE UNCHANGED vars
  BY <1>2, <1>19 DEF vars
<1>20. QED
  BY <1>5, <1>6, <1>7, <1>8, <1>9, <1>11, <1>12, <1>13, <1>14, <1>15, <1>16, <1>17,
     <1>18, <1>19 DEF Next, Run

LEMMA OrderInit == Init => OrderInv
<1> SUFFICES ASSUME Init PROVE Rested /\ ReadPending
  BY StableInit DEF OrderInv, Init, QuietInv, CalmInv
<1>1. QED
  BY DEF Init, Rested, ReadPending, Compiling

\* RootsOnly for any number of files, contents and runs: when nothing has
\* changed since the last run, the order that buxn_ls_analyze guesses from its
\* include graph never compiles an included document on its own.
THEOREM OnlyRoots == Spec => []RootsOnly
<1>1. OrderInv => RootsOnly
  BY DEF OrderInv, CalmInv, RootsOnly
<1>2. QED
  BY OrderInit, OrderStep, <1>1, PTL DEF Spec
=============================================================================
