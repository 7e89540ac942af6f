------------------------------ MODULE Symbols ------------------------------
(***************************************************************************)
(* The symbols of an analysis (src/analyze.c) and the queries that read    *)
(* them (src/ls.c).                                                        *)
(*                                                                         *)
(* A content is a sequence of items; the position of an item, from 0, is   *)
(* its byte offset and stands for its range too.  The assembler, which is  *)
(* not part of the repository, walks through the items of the entry and of *)
(* the files it includes, and calls back for each: buxn_asm_put_symbol for *)
(* a definition, a reference or an annotation, buxn_asm_report for an      *)
(* error, which ends the assembly, buxn_chess_report for an error in the   *)
(* stack effects, which does not, and buxn_asm_fopen for an include.       *)
(*                                                                         *)
(* The lists of definitions and references of a source grow at their head; *)
(* here they are sequences that grow at their end, so that a node keeps    *)
(* its place: node <<f, k>> is the k-th definition made in file f.         *)
(* The order of the entries is arbitrary: Analyzer has the actual one.     *)
(***************************************************************************)
EXTENDS Workspace, SequencesExt

CONSTANTS Scopes, Subs,  \* a name is a scope and, after a slash, a sub-name
          NoSub,         \* the name is its scope: a root label
          Items,         \* Items[t]: the items of content t
          Disk,          \* Disk[f]: the content of f on disk
          None, NotRead,
          MaxRuns, MaxUpdates

Names == [scope : Scopes, sub : Subs \cup {NoSub}]

Definitions == {"label", "macro"}
References == {"ref8", "ref16"}

Item == [op : Definitions, name : Names, zero : BOOLEAN]
          \cup [op : References, name : Names]
          \cup [op : {"lambda", "device", "memory", "enum", "sig", "error", "lint"}]
          \cup [op : {"include"}, file : Files]

\* What the analysis keeps of a file it has read
FileStates == [text : Texts, page : {"variable", "device_port"},
               last : Nat, err : BOOLEAN]

ASSUME SymbolsAssumption ==
    /\ Items \in [Texts -> Seq(Item)]
    /\ Disk \in [Files -> Texts]
    /\ None \notin Files
    /\ None \notin Files \X Nat
    /\ None \notin Scopes
    /\ NotRead \notin FileStates
    /\ NoSub \notin Subs
    /\ MaxRuns \in Nat
    /\ MaxUpdates \in Nat

VARIABLES
    docs,     \* workspace->docs
    prev,     \* analyzer->previous_ctx
    cur,      \* analyzer->current_ctx
    files,    \* analyzer->files
    queue,    \* the entries not yet reached
    pc,
    entry,    \* ctx.entry_node
    todo,     \* what the assembler has yet to process: places in files
    reading,  \* the file being read from disk
    asm,      \* the rest of buxn_asm_ctx_t, and the arrays cleared with it
    runs, updates,
    program,  \* history: the number of this compilation in its run
    opens,    \* history: how many times each file was opened in this run
    owed      \* history: definitions a file with errors should still list

vars == <<docs, prev, cur, files, queue, pc, entry, todo, reading, asm,
          runs, updates, program, opens, owed>>

Semantics == {"variable", "subroutine", "device_port", "enum"}

\* A context: its sources, and for each the definitions and references.  by is
\* history: the compilation that made the node, 0 for a copy of an old one.
Def == [name : Names, type : Definitions, byte : Nat, sem : Semantics, by : Nat]
Ref == [byte : Nat, to : Files \X Nat, by : Nat]
Contexts == [nodes : SUBSET Files, defs : [Files -> Seq(Def)],
             refs : [Files -> Seq(Ref)]]

EmptyContext == [nodes |-> {}, defs |-> [f \in Files |-> <<>>],
                 refs |-> [f \in Files |-> <<>>]]

NewFile(t) == [text |-> t, page |-> "variable", last |-> 0, err |-> FALSE]

\* A reference as the assembler hands it over.  The id of a macro is its
\* number, the id of a label its name.
MacroRef == [type : {"macro_ref"}, id : Nat, file : Files, byte : Nat]
LabelRef == [type : {"label_ref"}, id : Names, file : Files, byte : Nat]

Places == Files \X Nat

NewAsm == [macros |-> <<>>,                     \* macro_defs
           labels |-> [n \in Names |-> None],   \* label_defs
           refs |-> <<>>,                       \* references
           last |-> None,                       \* previous_sym
           scope |-> None,                      \* enum_scope
           node |-> None,                       \* current_sym_node
           enum |-> FALSE,                      \* an annotation before a label
           included |-> {}]                     \* the assembler opens a file once

\* Every variable has a value of its kind.
TypeOK ==
    /\ docs \in Docs
    /\ prev \in Contexts
    /\ cur \in Contexts
    /\ files \in [Files -> FileStates \cup {NotRead}]
    /\ queue \in Seq(Files)
    /\ pc \in {"idle", "next", "open", "asm", "read"}
    /\ entry \in Files \cup {None}
    /\ todo \in Seq(Places)
    /\ reading \in Files \cup {None}
    /\ asm \in [macros : Seq(Places), labels : [Names -> Places \cup {None}],
                refs : Seq(MacroRef \cup LabelRef),
                last : MacroRef \cup LabelRef \cup {None},
                scope : Scopes \cup {None}, node : Places \cup {None},
                enum : BOOLEAN, included : SUBSET Files]
    /\ runs \in 0 .. MaxRuns
    /\ updates \in 0 .. MaxUpdates
    /\ program \in Nat
    /\ opens \in [Files -> Nat]
    /\ owed \in [Files -> SUBSET (Names \X Nat)]

NothingRead == [f \in Files |-> NotRead]

Init ==
    /\ docs = NoDocs
    /\ prev = EmptyContext
    /\ cur = EmptyContext
    /\ files = NothingRead
    /\ queue = <<>>
    /\ pc = "idle"
    /\ entry = None
    /\ todo = <<>>
    /\ reading = None
    /\ asm = NewAsm
    /\ runs = 0
    /\ updates = 0
    /\ program = 0
    /\ opens = [f \in Files |-> 0]
    /\ owed = [f \in Files |-> {}]

-----------------------------------------------------------------------------
\* A document notification, handled while the analyzer is idle or suspended
Update(m) ==
    /\ pc \in {"idle", "read"}
    /\ updates < MaxUpdates
    /\ updates' = updates + 1
    /\ docs' = WorkspaceUpdate(docs, m)
    /\ UNCHANGED <<prev, cur, files, queue, pc, entry, todo, reading, asm, runs,
                   program, opens, owed>>

\* Reset the previous context, swap the two, queue the documents
StartRun ==
    /\ pc = "idle"
    /\ runs < MaxRuns
    /\ runs' = runs + 1
    /\ prev' = cur
    /\ queue' \in SetToSeqs(OpenDocs(docs))
    /\ cur' = [EmptyContext EXCEPT !.nodes = OpenDocs(docs)]
    /\ files' = NothingRead
    /\ program' = 0
    /\ opens' = [f \in Files |-> 0]
    /\ pc' = "next"
    /\ UNCHANGED <<docs, entry, todo, reading, asm, updates, owed>>

\* "Skipping": an earlier compilation has opened the file
SkipEntry ==
    /\ pc = "next"
    /\ queue # <<>>
    /\ opens[Head(queue)] > 0
    /\ queue' = Tail(queue)
    /\ UNCHANGED <<docs, prev, cur, files, pc, entry, todo, reading, asm, runs,
                   updates, program, opens, owed>>

\* Mutant of CompileEntry: label_defs is not cleared.
CompileEntryKeepLabels ==
    /\ pc = "next"
    /\ queue # <<>>
    /\ opens[Head(queue)] = 0
    /\ entry' = Head(queue)
    /\ queue' = Tail(queue)
    /\ todo' = <<>>
    /\ asm' = [NewAsm EXCEPT !.labels = asm.labels]
    /\ program' = program + 1
    /\ pc' = "open"
    /\ UNCHANGED <<docs, prev, cur, files, reading, runs, updates, opens, owed>>

\* "Analyzing": the definitions and references of the last compilation are
\* cleared and the assembler asks for the entry.
CompileEntry ==
    /\ pc = "next"
    /\ queue # <<>>
    /\ opens[Head(queue)] = 0
    /\ entry' = Head(queue)
    /\ queue' = Tail(queue)
    /\ todo' = <<>>
    /\ asm' = NewAsm
    /\ program' = program + 1
    /\ pc' = "open"
    /\ UNCHANGED <<docs, prev, cur, files, reading, runs, updates, opens, owed>>

-----------------------------------------------------------------------------
(***************************************************************************)
(* The assembly of one entry                                               *)
(***************************************************************************)
\* The item the assembler is at
Here == todo[1]
ItemAt(p) == Items[files[p[1]].text][p[2] + 1]
At(ops) == pc = "asm" /\ todo # <<>> /\ ItemAt(Here).op \in ops

\* The places of a content that f was opened with
PlacesIn(f, t) == [k \in 1 .. Len(Items[t]) |-> <<f, k - 1>>]

\* The assembler continues with the content of f, then with the rest.
Opened(f, t, rest) ==
    /\ cur' = [cur EXCEPT !.nodes = @ \cup {f}]
    /\ opens' = [opens EXCEPT ![f] = @ + 1]
    /\ todo' = PlacesIn(f, t) \o rest
    /\ pc' = "asm"

\* buxn_asm_fopen of f: already read in this run, copied from the workspace,
\* or to be read from disk.  A file that was read keeps its buxn_ls_file_t.
Fopen(f, rest) ==
    /\ \/ /\ files[f] # NotRead
          /\ Opened(f, files[f].text, rest)
          /\ UNCHANGED <<files, reading>>
       \/ /\ files[f] = NotRead
          /\ docs[f] # Closed
          /\ files' = [files EXCEPT ![f] = NewFile(docs[f])]
          /\ Opened(f, docs[f], rest)
          /\ UNCHANGED reading
       \/ /\ files[f] = NotRead
          /\ docs[f] = Closed
          /\ reading' = f
          /\ pc' = "read"
          /\ UNCHANGED <<cur, files, todo, opens>>
    /\ asm' = [asm EXCEPT !.included = @ \cup {f}]
    /\ UNCHANGED <<docs, prev, queue, entry, runs, updates, program, owed>>

\* What follows the include in hand; there is none when the entry is opened.
Rest == IF todo = <<>> THEN <<>> ELSE Tail(todo)

OpenEntry == pc = "open" /\ Fopen(entry, Rest)

Include ==
    /\ At({"include"})
    /\ ItemAt(Here).file \notin asm.included
    /\ Fopen(ItemAt(Here).file, Rest)

IncludeAgain ==
    /\ At({"include"})
    /\ ItemAt(Here).file \in asm.included
    /\ todo' = Tail(todo)
    /\ UNCHANGED <<docs, prev, cur, files, queue, pc, entry, reading, asm, runs,
                   updates, program, opens, owed>>

ReadFile ==
    /\ pc = "read"
    /\ files' = [files EXCEPT ![reading] = NewFile(Disk[reading])]
    /\ Opened(reading, Disk[reading], Rest)
    /\ reading' = None
    /\ UNCHANGED <<docs, prev, queue, entry, asm, runs, updates, program, owed>>

\* The read fails.  The error is at the include; for an entry it is a top level
\* report, which is not saved.
ReadFailure ==
    /\ pc = "read"
    /\ reading' = None
    /\ files' = IF todo = <<>> THEN files ELSE [files EXCEPT ![Here[1]].err = TRUE]
    /\ todo' = <<>>
    /\ pc' = "asm"
    /\ UNCHANGED <<docs, prev, cur, queue, entry, asm, runs, updates, program,
                   opens, owed>>

LaterByte(a, b) == IF b > a THEN b ELSE a

IsZeroLabel(it) == it.op = "label" /\ it.zero

\* The meaning of a label in the zero page, before any annotation of its own
ZeroPage(f, name) ==
    IF asm.scope = name.scope THEN "enum" ELSE files[f].page

\* Mutant of EnumScope: a label of another scope does not end the group.
EnumScopeKept(it) == IF asm.enum THEN it.name.scope ELSE asm.scope

\* enum_scope behind the definition it: a label of another scope ends the group.
EnumScope(it) ==
    IF asm.enum THEN it.name.scope
    ELSE IF IsZeroLabel(it) /\ asm.scope # it.name.scope THEN None
    ELSE asm.scope

\* buxn_asm_put_symbol of a definition, and the annotation in front of it
PutDefinition ==
    /\ At(Definitions)
    /\ LET f == Here[1]
           it == ItemAt(Here)
           node == <<f, Len(cur.defs[f]) + 1>>
           label == it.op = "label"
           sem == IF asm.enum THEN "enum"
                  ELSE IF ~label THEN "subroutine"
                  ELSE IF it.zero THEN ZeroPage(f, it.name) ELSE "variable"
           def == [name |-> it.name, type |-> it.op, byte |-> Here[2],
                   sem |-> sem, by |-> program]
       IN  /\ files' = [files EXCEPT ![f].last = LaterByte(@, Here[2])]
           /\ cur' = [cur EXCEPT !.defs[f] = Append(@, def)]
           /\ asm' = [asm EXCEPT
                !.macros = IF label THEN @ ELSE Append(@, node),
                !.labels = IF label THEN [@ EXCEPT ![it.name] = node] ELSE @,
                !.scope = EnumScope(it),
                !.node = node,
                !.last = None,
                !.enum = FALSE]
    /\ todo' = Tail(todo)
    /\ UNCHANGED <<docs, prev, queue, pc, entry, reading, runs, updates, program,
                   opens, owed>>

\* buxn_asm_put_symbol of a label whose name the assembler generates: no node is
\* made, but the symbol counts as reached.  The annotation library, which is given
\* every symbol, keeps a comment in front of a label for the next one with a name:
\* the handler writes to current_sym_node, which is not that of a generated label.
PutGenerated ==
    /\ At({"lambda"})
    /\ files' = [files EXCEPT ![Here[1]].last = LaterByte(@, Here[2])]
    /\ asm' = [asm EXCEPT !.last = None]
    /\ todo' = Tail(todo)
    /\ UNCHANGED <<docs, prev, cur, queue, pc, entry, reading, runs, updates, program,
                   opens, owed>>

\* The numbers of the macros named n that the assembler has seen
MacroIds(n) ==
    {k \in 1 .. Len(asm.macros) : cur.defs[asm.macros[k][1]][asm.macros[k][2]].name = n}

\* What the assembler hands over for a name: the macro, if it is declared, or a
\* label, which may be declared later
Reference(p, n) ==
    IF MacroIds(n) # {}
      THEN [type |-> "macro_ref", id |-> CHOOSE k \in MacroIds(n) : TRUE,
            file |-> p[1], byte |-> p[2]]
      ELSE [type |-> "label_ref", id |-> n, file |-> p[1], byte |-> p[2]]

\* Mutant of PutReference: the symbol of the second byte is not recognized.
PutReferenceTwice(a, r) ==
    [a EXCEPT !.refs = Append(@, r), !.last = r]

\* "When an address reference is 16 bit, there will be two identical symbols
\* emitted for both bytes.  We should only consider the first symbol."
PutReference(a, r) ==
    IF r = a.last THEN a ELSE [a EXCEPT !.refs = Append(@, r), !.last = r]

\* buxn_asm_put_symbol of a reference, once or twice
PutReferences ==
    /\ At(References)
    /\ LET r == Reference(Here, ItemAt(Here).name)
           once == PutReference(asm, r)
       IN  asm' = IF ItemAt(Here).op = "ref16" THEN PutReference(once, r) ELSE once
    /\ todo' = Tail(todo)
    /\ UNCHANGED <<docs, prev, cur, files, queue, pc, entry, reading, runs, updates,
                   program, opens, owed>>

\* buxn_ls_handle_annotation: immediate ones, one that waits for its label, and
\* the stack comment of the label before it
Annotate ==
    /\ At({"device", "memory", "enum", "sig"})
    /\ LET op == ItemAt(Here).op
           n == asm.node
       IN  /\ files' = IF op \in {"device", "memory"}
                         THEN [files EXCEPT ![Here[1]].page =
                                 IF op = "device" THEN "device_port" ELSE "variable"]
                         ELSE files
           /\ cur' = IF op = "sig" /\ n # None
                       THEN [cur EXCEPT !.defs[n[1]][n[2]].sem = "subroutine"]
                       ELSE cur
           /\ asm' = [asm EXCEPT !.last = None, !.enum = @ \/ op = "enum"]
    /\ todo' = Tail(todo)
    /\ UNCHANGED <<docs, prev, queue, pc, entry, reading, runs, updates,
                   program, opens, owed>>

\* The file of the item in hand has an error.
MarkError ==
    /\ files' = [files EXCEPT ![Here[1]].err = TRUE]
    /\ UNCHANGED <<docs, prev, cur, queue, pc, entry, reading, asm, runs, updates,
                   program, opens, owed>>

\* buxn_asm_report of an error, which ends the assembly
ReportError == At({"error"}) /\ MarkError /\ todo' = <<>>

\* buxn_chess_report of an error, which does not
ChessReport == At({"lint"}) /\ MarkError /\ todo' = Tail(todo)

-----------------------------------------------------------------------------
(***************************************************************************)
(* After the assembly                                                      *)
(***************************************************************************)
FileHasError(f) == files[f] # NotRead /\ files[f].err

\* The k-th smallest of a set of numbers, and what a sequence has at its numbers
Nth(T, k) == CHOOSE i \in T : Cardinality({j \in T : j <= i}) = k
Kept(s, T) == [k \in 1 .. Cardinality(T) |-> s[Nth(T, k)]]

\* Mutant of Carried: only definitions a run has made, not copies of older ones
CarriedOnce(f) ==
    IF FileHasError(f) /\ f \in prev.nodes /\ f \in cur.nodes
      THEN LET old == prev.defs[f]
               s == Reverse(Kept(old, {k \in DOMAIN old : /\ old[k].byte > files[f].last
                                                          /\ old[k].by # 0}))
           IN  [k \in 1 .. Len(s) |-> [s[k] EXCEPT !.by = 0]]
      ELSE <<>>

\* Mutant of Carried: all the old definitions, from the first one
CarriedAll(f) ==
    IF FileHasError(f) /\ f \in prev.nodes /\ f \in cur.nodes
      THEN [k \in 1 .. Len(prev.defs[f]) |-> [prev.defs[f][k] EXCEPT !.by = 0]]
      ELSE <<>>

\* "Bring forward old symbols in files with error": from the head of the old
\* list, each to the head of the new one
Carried(f) ==
    IF FileHasError(f) /\ f \in prev.nodes /\ f \in cur.nodes
      THEN LET old == prev.defs[f]
               s == Reverse(Kept(old, {k \in DOMAIN old : old[k].byte > files[f].last}))
           IN  [k \in 1 .. Len(s) |-> [s[k] EXCEPT !.by = 0]]
      ELSE <<>>

\* The definition a reference is connected to, or None
Resolve(r) == IF r.type = "macro_ref" THEN asm.macros[r.id] ELSE asm.labels[r.id]

\* "Connect references to definitions": the new reference nodes of file f
Connected(f) ==
    LET s == Kept(asm.refs, {k \in DOMAIN asm.refs : /\ asm.refs[k].file = f
                                                     /\ Resolve(asm.refs[k]) # None})
    IN  [k \in 1 .. Len(s) |-> [byte |-> s[k].byte, to |-> Resolve(s[k]),
                                by |-> program]]

\* buxn_asm has returned.  Both loops run after every entry, over all files.
EndCompile ==
    /\ pc = "asm"
    /\ todo = <<>>
    /\ cur' = [cur EXCEPT !.defs = [f \in Files |-> @[f] \o Carried(f)],
                          !.refs = [f \in Files |-> @[f] \o Connected(f)]]
    /\ entry' = None
    /\ pc' = "next"
    /\ UNCHANGED <<docs, prev, files, queue, todo, reading, asm, runs, updates,
                   program, opens, owed>>

NamesIn(s) == {<<s[k].name, s[k].byte>> : k \in DOMAIN s}

EndRun ==
    /\ pc = "next"
    /\ queue = <<>>
    /\ pc' = "idle"
    /\ owed' = [f \in Files |->
         IF files[f] = NotRead THEN {}
         ELSE IF files[f].err THEN {x \in owed[f] : x[2] > files[f].last}
         ELSE NamesIn(cur.defs[f])]
    /\ UNCHANGED <<docs, prev, cur, files, queue, entry, todo, reading, asm, runs,
                   updates, program, opens>>

Next ==
    \/ \E m \in Notifications : Update(m)
    \/ StartRun
    \/ SkipEntry
    \/ CompileEntry
    \/ OpenEntry
    \/ Include
    \/ IncludeAgain
    \/ ReadFile
    \/ ReadFailure
    \/ PutDefinition
    \/ PutGenerated
    \/ PutReferences
    \/ Annotate
    \/ ReportError
    \/ ChessReport
    \/ EndCompile
    \/ EndRun

Spec == Init /\ [][Next]_vars

-----------------------------------------------------------------------------
(***************************************************************************)
(* The queries of ls.c.  They are answered whenever the analysis is idle   *)
(* or suspended, from the current context, complete or not.                *)
(***************************************************************************)
Observable == pc \in {"idle", "read"}

\* The first node of a list whose range holds the position, by its number: the
\* list begins with the node made last.  0 when there is none.
FirstAt(s, b) ==
    LET hits == {k \in DOMAIN s : s[k].byte = b}
    IN  IF hits = {} THEN 0 ELSE CHOOSE k \in hits : \A l \in hits : l <= k

\* buxn_ls_find_definition, which definition and hover requests use
FindDefinition(f, b) ==
    LET k == FirstAt(cur.refs[f], b)
    IN  IF f \notin cur.nodes \/ k = 0 THEN {} ELSE {cur.refs[f][k].to}

\* buxn_ls_handle_find_references: the files and positions of the references
FindReferences(f, b) ==
    LET k == FirstAt(cur.defs[f], b)
    IN  IF f \notin cur.nodes \/ k = 0 THEN {}
        ELSE UNION {{<<g, cur.refs[g][l].byte>> :
                       l \in {l \in DOMAIN cur.refs[g] : cur.refs[g][l].to = <<f, k>>}} :
                    g \in Files}

\* buxn_ls_handle_list_doc_symbols: the names and positions, in order
DocSymbols(f) ==
    [k \in 1 .. Len(cur.defs[f]) |->
       LET d == cur.defs[f][Len(cur.defs[f]) + 1 - k] IN <<d.name, d.byte>>]

-----------------------------------------------------------------------------
(***************************************************************************)
(* Properties                                                              *)
(***************************************************************************)
Text(f) == Items[files[f].text]

\* A file is part of one program only: one compilation opened it, once.
Unshared(f) == opens[f] = 1

NoErrors == \A f \in Files : ~FileHasError(f)

\* The names and positions that a content defines, from the last to the first
DefinedIn(t) == {k \in DOMAIN Items[t] : Items[t][k].op \in Definitions}
Declared(t) ==
    LET n == Cardinality(DefinedIn(t))
    IN  [k \in 1 .. n |-> LET i == Nth(DefinedIn(t), n + 1 - k)
                          IN  <<Items[t][i].name, i - 1>>]

\* Go to definition is never wrong, though the context it is answered from may
\* be half built: the definition was made by the same compilation as the
\* reference, not by that of another entry and not in an earlier run, and has
\* the name that the source has at the reference.
ReferenceSound ==
    Observable =>
      \A f \in Files : \A k \in DOMAIN cur.refs[f] :
        LET r == cur.refs[f][k]
            n == r.to
        IN  /\ n[2] \in DOMAIN cur.defs[n[1]]
            /\ cur.defs[n[1]][n[2]].by = r.by
            /\ cur.defs[n[1]][n[2]].name = Text(f)[r.byte + 1].name

\* After a run without errors the symbols of a file are those of its content,
\* each once and the last one first, and each reference is there once, though
\* the assembler emits it for every byte.
ListsOnce ==
    pc = "idle" /\ NoErrors =>
      \A f \in Files :
        Unshared(f) =>
          /\ DocSymbols(f) = Declared(files[f].text)
          /\ \A k, l \in DOMAIN cur.refs[f] :
               cur.refs[f][k].byte = cur.refs[f][l].byte => k = l

\* Error tolerance: however many runs a file has had errors in, it still lists
\* the definitions it had when it was last analyzed without one, as far as they
\* lie behind every definition that these runs have reached.
Tolerant ==
    pc = "idle" => \A f \in Files : owed[f] \subseteq NamesIn(cur.defs[f])

\* Go to references is the inverse of go to definition, for a definition in a
\* file that is part of one program: whatever is brought forward into the list
\* of definitions does not hide the one that the references are connected to.
ReferencesFound ==
    pc = "idle" =>
      \A f \in Files : \A k \in DOMAIN cur.refs[f] :
        LET r == cur.refs[f][k]
            n == r.to
        IN  Unshared(n[1]) =>
              <<f, r.byte>> \in FindReferences(n[1], cur.defs[n[1]][n[2]].byte)

Ops(t, i, j) == {Items[t][k].op : k \in i .. j}

\* Content t has a stack comment behind the definition at byte b, or surely none.
\* A symbol may be followed by the rest of an including file, or an included one.
Signed(t, b) == b + 2 <= Len(Items[t]) /\ Items[t][b + 2].op = "sig"
Unsigned(t, b) ==
    \E d \in b + 2 .. Len(Items[t]) :
      Items[t][d].op \in Definitions /\ Ops(t, b + 2, d - 1) \cap {"sig", "include"} = {}

\* "The group of zero-page addresses immediately following this comment": at byte b
\* a label of that scope is in it, as far as the content says, or surely not.
InGroup(t, b, scope) ==
    \E e \in 1 .. b :
      /\ Items[t][e].op = "enum"
      /\ Ops(t, e + 1, b) \cap {"include", "macro"} = {}
      /\ \A k \in e + 1 .. b : Items[t][k].op = "label" => Items[t][k].name.scope = scope

Apart(t, b, scope) ==
    \E e \in 1 .. b :
      /\ Items[t][e].op = "label" /\ Items[t][e].zero /\ Items[t][e].name.scope # scope
      /\ Ops(t, e + 1, b) \cap {"include", "enum"} = {}

\* "All zero-page labels after this comment", until one that says otherwise
AfterDevice(t, b) ==
    \E e \in 1 .. b : Items[t][e].op = "device" /\ "memory" \notin Ops(t, e + 1, b)

\* Or somewhere in the content
HasDevice(t) == "device" \in Ops(t, 1, Len(Items[t]))

\* What content t makes of its zero-page label at byte b.  A stack comment of its own
\* comes first, then the group it is in, then the page.  The page of a file that is
\* assembled again is still what its text made of it, from the first label on.
MeaningIn(t, b, sem, again) ==
    LET scope == Items[t][b + 1].name.scope
    IN  /\ Signed(t, b) => sem = "subroutine"
        /\ Unsigned(t, b) => sem # "subroutine"
        /\ InGroup(t, b, scope) => sem \in {"enum", "subroutine"}
        /\ Apart(t, b, scope) => sem # "enum"
        /\ sem = "variable" => ~AfterDevice(t, b)
        /\ sem = "device_port" =>
             AfterDevice(t, b) \/ (again /\ HasDevice(t))

\* What a label of the zero page means depends on the comments of its own file only,
\* whatever files include it or are included in it, and in the middle of an analysis
\* too.  The README says less: there a stack comment makes no exception from
\* (buxn:device ), (buxn:memory ) and (buxn:enum ), and labels become device ports
\* only after the comment; in a file that several compilations open they also do
\* before it, in the later ones.
MeaningFromText ==
    Observable =>
      \A f \in Files : \A k \in DOMAIN cur.defs[f] :
        LET d == cur.defs[f][k]
        IN  d.by # 0 /\ IsZeroLabel(Text(f)[d.byte + 1]) =>
              MeaningIn(files[f].text, d.byte, d.sem, ~Unshared(f))

\* "Go to references", for files of any number of programs: a reference from
\* which go to definition leads to a definition is among its references.
GoToReferences ==
    pc = "idle" =>
      \A f \in Files : \A k \in DOMAIN cur.refs[f] :
        LET r == cur.refs[f][k]
            n == r.to
        IN  <<f, r.byte>> \in FindReferences(n[1], cur.defs[n[1]][n[2]].byte)
=============================================================================
