------------------------------ MODULE Analyzer ------------------------------
(***************************************************************************)
(* The order of compilation and the include graph (src/analyze.c).         *)
(*                                                                         *)
(* buxn_ls_analyze rebuilds everything in a fresh context and keeps the    *)
(* context of the previous run.  From the include graph of that run it     *)
(* guesses in which order to compile the open documents, so that one which *)
(* is included by another is compiled as a part of it and not on its own.  *)
(* The compilation of an entry calls back buxn_asm_fopen for every file it *)
(* includes, at any depth; each call adds an edge from the entry.          *)
(*                                                                         *)
(* The recursions over the graph are modelled by sets of nodes yet to be   *)
(* visited, in any order that respects the nesting of the calls: the order *)
(* of edges in a list is abstracted.  They do no I/O, so the workspace     *)
(* changes only between two runs and while a file is read from disk.       *)
(* Analyses do not overlap here: see Session for what happens if they do.  *)
(***************************************************************************)
EXTENDS Workspace

CONSTANTS Includes,   \* Includes[t]: the files that content t includes
          Disk,       \* Disk[f]: the content of f on disk, when it can be read
          NotRead,    \* the path has no entry in analyzer->files
          None,       \* no file
          MaxRuns,    \* bound on the number of analyses
          MaxUpdates  \* bound on the number of notifications

ASSUME AnalyzerAssumption ==
    /\ Includes \in [Texts -> SUBSET Files]
    /\ Disk \in [Files -> Texts]
    /\ NotRead \notin Texts
    /\ None \notin Files
    /\ MaxRuns \in Nat
    /\ MaxUpdates \in Nat

VARIABLES
    docs,      \* workspace->docs
    prev,      \* analyzer->previous_ctx: its nodes and include edges
    cur,       \* analyzer->current_ctx
    queue,     \* analyzer->analyze_queue
    qi,        \* index of the loop over the queue
    analyzed,  \* the nodes whose flag "analyzed" is set
    files,     \* analyzer->files: the contents read in this run
    pc,
    todo,      \* documents the scheduling loop has yet to look at
    climb,     \* pending calls of buxn_ls_queue_from_root
    descend,   \* pending calls of buxn_ls_maybe_queue_node
    entry,     \* ctx.entry_node
    wanted,    \* files this compilation has yet to open
    included,  \* files this compilation has opened
    reading,   \* the file being read from disk
    runs, updates,
    climbed, seen,  \* history: nodes climbed from and descended to in this run
    stable,    \* history: documents open and untouched since the run began
    quiet,     \* history: nothing has disturbed this run
    calm       \* history: nor the previous one, and the documents are the same

schedVars == <<todo, climb, descend, climbed, seen>>
compileVars == <<analyzed, files, entry, wanted, included, reading>>
historyVars == <<stable, quiet, calm>>
vars == <<docs, prev, cur, queue, qi, pc, runs, updates,
          schedVars, compileVars, historyVars>>

(***************************************************************************)
(* A context: the keys of its sources, and the edges between them.  rank   *)
(* is history: the position in the queue of the nodes that were an entry.  *)
(***************************************************************************)
Graphs == [nodes : SUBSET Files, edges : SUBSET (Files \X Files),
           rank : [Files -> Nat]]

EmptyGraph == [nodes |-> {}, edges |-> {}, rank |-> [f \in Files |-> 0]]

Parents(g, n) == {f \in Files : <<f, n>> \in g.edges}
Children(g, n) == {f \in Files : <<n, f>> \in g.edges}

\* Every variable has a value of its kind.
TypeOK ==
    /\ docs \in Docs
    /\ prev \in Graphs
    /\ cur \in Graphs
    /\ queue \in Seq(Files)
    /\ qi \in Nat
    /\ analyzed \subseteq Files
    /\ files \in [Files -> Texts \cup {NotRead}]
    /\ pc \in {"idle", "schedule", "next", "open", "compile", "read"}
    /\ todo \subseteq Files
    /\ climb \subseteq Files
    /\ descend \subseteq Files
    /\ entry \in Files \cup {None}
    /\ wanted \subseteq Files
    /\ included \subseteq Files
    /\ reading \in Files \cup {None}
    /\ runs \in 0 .. MaxRuns
    /\ updates \in 0 .. MaxUpdates
    /\ climbed \subseteq Files
    /\ seen \subseteq Files
    /\ stable \subseteq Files
    /\ quiet \in BOOLEAN
    /\ calm \in BOOLEAN

NothingRead == [f \in Files |-> NotRead]

Init ==
    /\ docs = NoDocs
    /\ prev = EmptyGraph
    /\ cur = EmptyGraph
    /\ queue = <<>>
    /\ qi = 0
    /\ analyzed = {}
    /\ files = NothingRead
    /\ pc = "idle"
    /\ todo = {} /\ climb = {} /\ descend = {}
    /\ entry = None
    /\ wanted = {} /\ included = {}
    /\ reading = None
    /\ runs = 0
    /\ updates = 0
    /\ climbed = {} /\ seen = {}
    /\ stable = {}
    /\ quiet = FALSE
    /\ calm = FALSE

-----------------------------------------------------------------------------
\* A document notification, handled while the analyzer is idle or suspended
Update(m) ==
    /\ pc \in {"idle", "read"}
    /\ updates < MaxUpdates
    /\ updates' = updates + 1
    /\ docs' = WorkspaceUpdate(docs, m)
    /\ stable' = stable \ {m.uri}
    /\ quiet' = (quiet /\ docs' = docs)
    /\ UNCHANGED <<prev, cur, queue, qi, pc, runs, schedVars, compileVars, calm>>

\* Reset the previous context, swap the two and clear the queue
StartRun ==
    /\ pc = "idle"
    /\ runs < MaxRuns
    /\ runs' = runs + 1
    /\ prev' = cur
    /\ cur' = EmptyGraph
    /\ queue' = <<>>
    /\ analyzed' = {}
    /\ todo' = OpenDocs(docs)
    /\ climbed' = {}
    /\ seen' = {}
    /\ pc' = "schedule"
    /\ stable' = OpenDocs(docs)
    /\ quiet' = TRUE
    /\ calm' = quiet
    /\ UNCHANGED <<docs, qi, climb, descend, files, entry, wanted, included, reading,
                   updates>>

-----------------------------------------------------------------------------
(***************************************************************************)
(* Scheduling: "Based on dependency of files in the previous run, try to   *)
(* figure out in what order the files should be compiled."                 *)
(***************************************************************************)
\* buxn_ls_do_queue_file
DoQueueFile(f) ==
    /\ cur' = [cur EXCEPT !.nodes = @ \cup {f}]
    /\ queue' = Append(queue, f)

\* Mutant of ScheduleDoc: the documents are queued in the order of the hash.
ScheduleDocInOrder(d) ==
    /\ pc = "schedule"
    /\ d \in todo
    /\ todo' = todo \ {d}
    /\ DoQueueFile(d)
    /\ UNCHANGED <<docs, prev, qi, pc, runs, updates, climb, descend, climbed, seen,
                   compileVars, historyVars>>

\* The loop over the documents: one that is already queued is skipped, one
\* that the previous run knows is looked up in its graph, a new one is queued.
ScheduleDoc(d) ==
    /\ pc = "schedule"
    /\ climb = {} /\ descend = {}
    /\ d \in todo
    /\ todo' = todo \ {d}
    /\ \/ /\ d \in cur.nodes
          /\ UNCHANGED <<cur, queue, climb>>
       \/ /\ d \notin cur.nodes
          /\ d \in prev.nodes
          /\ climb' = {d}
          /\ UNCHANGED <<cur, queue>>
       \/ /\ d \notin cur.nodes
          /\ d \notin prev.nodes
          /\ DoQueueFile(d)
          /\ UNCHANGED climb
    /\ UNCHANGED <<docs, prev, qi, pc, runs, updates, descend, climbed, seen,
                   compileVars, historyVars>>

\* buxn_ls_queue_from_root: up to the nodes that nothing includes
QueueFromRoot(n) ==
    /\ pc = "schedule"
    /\ descend = {}
    /\ n \in climb
    /\ climbed' = climbed \cup {n}
    /\ \/ /\ Parents(prev, n) # {}
          /\ climb' = (climb \ {n}) \cup Parents(prev, n)
          /\ UNCHANGED descend
       \/ /\ Parents(prev, n) = {}
          /\ climb' = climb \ {n}
          /\ descend' = {n}
    /\ UNCHANGED <<docs, prev, cur, queue, qi, pc, runs, updates, todo, seen,
                   compileVars, historyVars>>

\* Mutant of MaybeQueueNode: a node that is not open ends the descent.
MaybeQueueOpenNode(n) ==
    /\ pc = "schedule"
    /\ n \in descend
    /\ IF n \in cur.nodes \/ docs[n] = Closed
         THEN /\ descend' = descend \ {n}
              /\ UNCHANGED <<cur, queue, seen>>
         ELSE /\ seen' = seen \cup {n}
              /\ descend' = (descend \ {n}) \cup Children(prev, n)
              /\ DoQueueFile(n)
    /\ UNCHANGED <<docs, prev, qi, pc, runs, updates, todo, climb, climbed,
                   compileVars, historyVars>>

\* buxn_ls_maybe_queue_node: down again, through nodes that are not open too
MaybeQueueNode(n) ==
    /\ pc = "schedule"
    /\ n \in descend
    /\ \/ /\ n \in cur.nodes
          /\ descend' = descend \ {n}
          /\ UNCHANGED <<cur, queue, seen>>
       \/ /\ n \notin cur.nodes
          /\ seen' = seen \cup {n}
          /\ descend' = (descend \ {n}) \cup Children(prev, n)
          /\ IF docs[n] # Closed THEN DoQueueFile(n) ELSE UNCHANGED <<cur, queue>>
    /\ UNCHANGED <<docs, prev, qi, pc, runs, updates, todo, climb, climbed,
                   compileVars, historyVars>>

Scheduled == pc = "schedule" /\ todo = {} /\ climb = {} /\ descend = {}

\* Mutant of EndSchedule: analyzer->files is not cleared.
EndScheduleKeepFiles ==
    /\ Scheduled
    /\ qi' = 1
    /\ pc' = "next"
    /\ UNCHANGED <<docs, prev, cur, queue, runs, updates, schedVars,
                   compileVars, historyVars>>

\* All documents are queued: clear what the previous run read and reported.
EndSchedule ==
    /\ Scheduled
    /\ files' = NothingRead
    /\ qi' = 1
    /\ pc' = "next"
    /\ UNCHANGED <<docs, prev, cur, queue, runs, updates, schedVars,
                   analyzed, entry, wanted, included, reading, historyVars>>

-----------------------------------------------------------------------------
(***************************************************************************)
(* Compilation                                                             *)
(***************************************************************************)
\* "Skipping": the file was opened by the compilation of an earlier entry.
SkipEntry ==
    /\ pc = "next"
    /\ qi <= Len(queue)
    /\ queue[qi] \in analyzed
    /\ qi' = qi + 1
    /\ UNCHANGED <<docs, prev, cur, queue, pc, runs, updates, schedVars,
                   compileVars, historyVars>>

\* "Analyzing": buxn_asm opens the entry first.
CompileEntry ==
    /\ pc = "next"
    /\ qi <= Len(queue)
    /\ queue[qi] \notin analyzed
    /\ entry' = queue[qi]
    /\ cur' = [cur EXCEPT !.rank[queue[qi]] = qi]
    /\ wanted' = {queue[qi]}
    /\ included' = {}
    /\ pc' = "open"
    /\ UNCHANGED <<docs, prev, queue, qi, runs, updates, schedVars,
                   analyzed, files, reading, historyVars>>

\* Mutant of AddEdge: no test for the entry itself
AddEdgeAlways(f) ==
    cur' = [cur EXCEPT !.nodes = @ \cup {f}, !.edges = @ \cup {<<entry, f>>}]

\* The tail of buxn_asm_fopen: the node, its flag, and the edge from the entry.
AddEdge(f) ==
    cur' = [cur EXCEPT !.nodes = @ \cup {f},
                       !.edges = IF f = entry THEN @ ELSE @ \cup {<<entry, f>>}]

\* f is open with content t: the assembler will ask for what t includes, and
\* once for each file in a compilation, the entry too.
Opened(f, t) ==
    /\ AddEdge(f)
    /\ analyzed' = analyzed \cup {f}
    /\ included' = included \cup {f}
    /\ wanted' = (wanted \ {f}) \cup (Includes[t] \ included')
    /\ pc' = "compile"

\* Mutant of Fopen: a document is copied from the workspace at every open.
FopenLatest(f) ==
    /\ pc \in {"open", "compile"}
    /\ f \in wanted
    /\ \/ /\ docs[f] # Closed
          /\ files' = [files EXCEPT ![f] = docs[f]]
          /\ Opened(f, docs[f])
          /\ UNCHANGED reading
       \/ /\ docs[f] = Closed
          /\ reading' = f
          /\ pc' = "read"
          /\ UNCHANGED <<cur, analyzed, wanted, included, files>>
    /\ UNCHANGED <<docs, prev, queue, qi, runs, updates, schedVars, entry, historyVars>>

\* buxn_asm_fopen: content already read in this run, copied from the
\* workspace, or read from disk.
Fopen(f) ==
    /\ pc \in {"open", "compile"}
    /\ f \in wanted
    /\ \/ /\ files[f] # NotRead
          /\ Opened(f, files[f])
          /\ UNCHANGED <<files, reading>>
       \/ /\ files[f] = NotRead
          /\ docs[f] # Closed
          /\ files' = [files EXCEPT ![f] = docs[f]]
          /\ Opened(f, docs[f])
          /\ UNCHANGED reading
       \/ /\ files[f] = NotRead
          /\ docs[f] = Closed
          /\ reading' = f
          /\ pc' = "read"
          /\ UNCHANGED <<cur, analyzed, wanted, included, files>>
    /\ UNCHANGED <<docs, prev, queue, qi, runs, updates, schedVars, entry, historyVars>>

\* Mutant of ReadFile: the workspace is consulted again after the read.
ReadFileFromDocs ==
    /\ pc = "read"
    /\ reading' = None
    /\ files' = [files EXCEPT ![reading] = docs[reading]]
    /\ Opened(reading, Disk[reading])
    /\ UNCHANGED <<docs, prev, queue, qi, runs, updates, schedVars, entry, historyVars>>

ReadFile ==
    /\ pc = "read"
    /\ reading' = None
    /\ files' = [files EXCEPT ![reading] = Disk[reading]]
    /\ Opened(reading, Disk[reading])
    /\ UNCHANGED <<docs, prev, queue, qi, runs, updates, schedVars, entry, historyVars>>

\* bio_fopen, bio_fstat or bio_fread_exactly fails: fopen returns NULL.
ReadFailure ==
    /\ pc = "read"
    /\ reading' = None
    /\ wanted' = wanted \ {reading}
    /\ pc' = "compile"
    /\ quiet' = FALSE
    /\ UNCHANGED <<docs, prev, cur, queue, qi, runs, updates, schedVars,
                   analyzed, files, entry, included, stable, calm>>

\* buxn_asm returns, at the end of the source or at an error that leaves
\* includes unopened.
EndCompile ==
    /\ pc = "compile"
    /\ quiet' = (quiet /\ wanted = {})
    /\ entry' = None
    /\ wanted' = {}
    /\ included' = {}
    /\ qi' = qi + 1
    /\ pc' = "next"
    /\ UNCHANGED <<docs, prev, cur, queue, runs, updates, schedVars,
                   analyzed, files, reading, stable, calm>>

EndRun ==
    /\ pc = "next"
    /\ qi > Len(queue)
    /\ pc' = "idle"
    /\ UNCHANGED <<docs, prev, cur, queue, qi, runs, updates, schedVars,
                   compileVars, historyVars>>

-----------------------------------------------------------------------------
Run ==
    \/ \E f \in Files : \/ ScheduleDoc(f)
                        \/ QueueFromRoot(f)
                        \/ MaybeQueueNode(f)
                        \/ Fopen(f)
    \/ EndSchedule
    \/ SkipEntry
    \/ CompileEntry
    \/ ReadFile
    \/ ReadFailure
    \/ EndCompile
    \/ EndRun

Next ==
    \/ \E m \in Notifications : Update(m)
    \/ StartRun
    \/ Run

Spec == Init /\ [][Next]_vars

\* A run that has started is resumed whenever it is suspended.
FairSpec == Spec /\ WF_vars(Run)

-----------------------------------------------------------------------------
(***************************************************************************)
(* Properties                                                              *)
(***************************************************************************)
\* A graph in which every set of nodes has one with no parent in the set
Acyclic(g) ==
    \A S \in SUBSET Files :
        S # {} => \E n \in S : Parents(g, n) \cap S = {}

\* The include graphs have no cycle, even when documents include each other or
\* themselves: the recursions over the previous graph, which do not mark the
\* nodes they have visited, end.
GraphsAcyclic == Acyclic(prev) /\ Acyclic(cur)

\* When the scheduling loop is done every open document is in the queue, and
\* in it once: climbing to the roots of the previous graph and descending from
\* them passes through every document that led there, closed roots included.
QueueCoversDocs ==
    Scheduled =>
        \A d \in OpenDocs(docs) :
            \E k \in 1 .. Len(queue) :
                /\ queue[k] = d
                /\ \A l \in 1 .. Len(queue) : queue[l] = d => l = k

\* After a run, the content analyzed for each document the client has not
\* touched since the run began is the one it has: no document is missed, none
\* is analyzed with what is on disk.
RunCoversDocs == pc = "idle" => \A d \in stable : files[d] = docs[d]

\* "Make a copy so that even if workspace gets updated, we analyze based on the
\* current content": once read, a content is the same until the next run.
SnapshotStable ==
    [][\A f \in Files :
         pc \notin {"idle", "schedule"} /\ files[f] # NotRead => files'[f] = files[f]]_vars

\* The order works: in the second of two runs over the same documents, with
\* nothing disturbing either, no document that another one included in the
\* first run is compiled on its own.
RootsOnly ==
    calm /\ quiet /\ entry # None => Parents(prev, entry) = {}

\* Every run ends.
RunEnds == pc # "idle" ~> pc = "idle"
=============================================================================
