----------------------------- MODULE Completion -----------------------------
(***************************************************************************)
(* Completion: src/completion.c.                                           *)
(*                                                                         *)
(* A name is a sequence of characters, of which the slash, the greater     *)
(* sign and the runes matter; a token is what the client has typed of a    *)
(* word, its rune first.  A symbol's position is its number in its file,   *)
(* where includes come first, and positions of different files are         *)
(* compared, as the code does.  A context is built, and then requests are  *)
(* answered from it while the client types a word.                         *)
(***************************************************************************)
EXTENDS Integers, SequencesExt

CONSTANTS Files,
          Includes,   \* the edges that the include graph may have
          Symbols,    \* what a source may define
          Tokens,     \* what a client may have typed
          Reset,      \* the scope before the first label
          MaxDefs

Symbol == [name : Seq(STRING), type : {"label", "macro"}, zero : BOOLEAN,
           sem : {"variable", "subroutine", "device_port", "enum"}]

ASSUME CompletionAssumption ==
    /\ Symbols \subseteq Symbol
    /\ Includes \subseteq Files \X Files
    /\ MaxDefs \in Nat

VARIABLES
    defs,    \* what a compilation adds to src_node->definitions, in its order
    edges,   \* the include graph, in the order in which edges were added
    req,     \* the request that was answered last: a set of at most one
    map      \* completer->completion_map: a set of items

vars == <<defs, edges, req, map>>

Defs == [sym : Symbols, file : Files, at : 1 .. MaxDefs]
Requests == [file : Files, at : 1 .. MaxDefs + 1, token : Tokens]
Items == [key : Seq(STRING), def : Defs, size : Nat \ {0}, local : BOOLEAN]

\* Every variable has a value of its kind, and map has one item for each key.
TypeOK ==
    /\ defs \in [Files -> Seq(Defs)]
    /\ edges \in Seq(Includes)
    /\ req \subseteq Requests /\ Cardinality(req) <= 1
    /\ map \subseteq Items
    /\ \A i, j \in map : i.key = j.key => i = j

Init ==
    /\ defs = [f \in Files |-> <<>>]
    /\ edges = <<>>
    /\ req = {}
    /\ map = {}

-----------------------------------------------------------------------------
(***************************************************************************)
(* The context                                                             *)
(***************************************************************************)
DefsIn(f) == Range(defs[f])
AllDefs == UNION {DefsIn(f) : f \in Files}

\* What one compilation opens, of the entry g.  A name is defined once in it, but
\* documents that do not include each other may define the same name.
Compiled(g) == {g} \cup {e[2] : e \in {e \in Range(edges) : e[1] = g}}
NoClash ==
    \A g \in Files : \A d, e \in UNION {DefsIn(f) : f \in Compiled(g)} :
      d.sym.name = e.sym.name => d = e

\* buxn_asm_put_symbol of a definition
Define(f, s) ==
    /\ req = {}
    /\ Cardinality(AllDefs) < MaxDefs
    /\ defs' = [defs EXCEPT ![f] = Append(@, [sym |-> s, file |-> f, at |-> Len(@) + 1])]
    /\ UNCHANGED <<edges, req, map>>
    /\ NoClash'

\* buxn_asm_fopen, from an entry
AddInclude(e) ==
    /\ req = {}
    /\ e \notin Range(edges)
    /\ edges' = Append(edges, e)
    /\ UNCHANGED <<defs, req, map>>
    /\ NoClash'

-----------------------------------------------------------------------------
(***************************************************************************)
(* What the token asks for                                                 *)
(***************************************************************************)
\* buxn_ls_label_scope
Slashes(n) == {k \in DOMAIN n : n[k] = "/"}
FirstSlash(n) == CHOOSE k \in Slashes(n) : \A j \in Slashes(n) : k <= j
Scope(n) == IF Slashes(n) = {} THEN n ELSE SubSeq(n, 1, FirstSlash(n) - 1)
Local(n) == SubSeq(n, Len(Scope(n)) + 2, Len(n))
IsRoot(n) == n = Scope(n)

\* The kind of search for a rune; no rune is the first character of a name.
Match(c) ==
    CASE c \in {";", "=", "!", "?"} -> "any_label"
      [] c \in {".", "-"} -> "zero_label"
      [] c \in {",", "_"} -> "local_label"
      [] c = "/" -> "sub_label"
      [] c \in {"|", "$"} -> "preceding_label"
      [] OTHER -> "any_symbol"

\* The search a token asks for, from its rune: start is where the edit begins.
ByRune(t) ==
    LET m == Match(t[1]) IN
    [match |-> m,
     prefix |-> IF m = "any_symbol" THEN t ELSE Tail(t),
     subroutine |-> t[1] \in {"!", "?", "/"} \/ m = "any_symbol",
     format |-> IF m = "sub_label" THEN "local" ELSE "full",
     start |-> IF m = "any_symbol" THEN 0 ELSE 1,
     group |-> m \notin {"local_label", "sub_label"}]

\* The rune is followed by that of a sub-label.
SubLabel(t) == Match(t[1]) # "any_symbol" /\ Len(t) >= 2 /\ t[2] \in {"&", "/"}

\* Mutant of Search: the edit begins at the slash.
SearchAtSlash(t) ==
    LET s == ByRune(t) IN
    IF SubLabel(t)
      THEN [s EXCEPT !.match = "sub_label", !.format = "local", !.prefix = Tail(@),
                     !.start = 2, !.group = FALSE]
    ELSE IF Slashes(Tail(t)) # {}
      THEN [s EXCEPT !.format = "local", !.start = FirstSlash(Tail(t)), !.group = FALSE]
    ELSE s

\* And from what follows it: a sub-label, or a slash further on
Search(t) ==
    LET s == ByRune(t) IN
    IF SubLabel(t)
      THEN [s EXCEPT !.match = "sub_label", !.format = "local", !.prefix = Tail(@),
                     !.start = 2, !.group = FALSE]
    ELSE IF Slashes(Tail(t)) # {}
      THEN [s EXCEPT !.format = "local", !.start = FirstSlash(Tail(t)) + 1, !.group = FALSE]
    ELSE s

\* The scope of the last label before the token
CurrentScope(r) ==
    LET before == {d \in DefsIn(r.file) : d.sym.type = "label" /\ d.at < r.at}
    IN  IF before = {} THEN Reset
        ELSE Scope((CHOOSE d \in before : \A e \in before : e.at <= d.at).sym.name)

\* What the names must begin with
FilterPrefix(r) ==
    LET s == Search(r.token) IN
    CASE s.match = "local_label" -> CurrentScope(r)
      [] s.match = "sub_label" -> CurrentScope(r) \o <<"/">> \o s.prefix
      [] OTHER -> s.prefix

IsSubroutine(s) ==
    \/ s.sem = "subroutine"
    \/ Local(s.name) # <<>> /\ Local(s.name)[1] = ">"

\* buxn_ls_match_symbol
MatchSymbol(d, r) ==
    LET s == Search(r.token) IN
    /\ IF d.sym.type = "label"
         THEN /\ s.match = "preceding_label" => d.at < r.at
              /\ s.subroutine => IsSubroutine(d.sym)
              /\ s.match = "zero_label" => d.sym.zero
         ELSE s.match = "any_symbol" /\ d.at < r.at
    /\ IsPrefix(FilterPrefix(r), d.sym.name)

-----------------------------------------------------------------------------
(***************************************************************************)
(* Collecting                                                              *)
(***************************************************************************)
\* Edges are added at the head of both lists.
InEdges(f) == Reverse(SelectSeq(edges, LAMBDA e : e[2] = f))
OutEdges(f) == Reverse(SelectSeq(edges, LAMBDA e : e[1] = f))

Depth == Cardinality(Files)

\* src_node->definitions: every compilation that opens a file adds its definitions
\* again.  A file that no other includes is compiled itself.
Definitions(f) ==
    LET copies == IF InEdges(f) = <<>> THEN 1 ELSE Len(InEdges(f))
    IN  FlattenSeq([k \in 1 .. copies |-> Reverse(defs[f])])

\* The definitions that buxn_ls_visit_symbols comes across, the last one of a file
\* first, and those of a file again each time it is reached
VisitSymbols(f) ==
    LET visit[n \in 0 .. Depth, g \in Files] ==
          Definitions(g) \o
            IF n = 0 THEN <<>>
            ELSE FlattenSeq([k \in 1 .. Len(OutEdges(g)) |-> visit[n - 1, OutEdges(g)[k][2]]])
    IN  visit[Depth, f]

\* "An included file can refer to symbols from the includer so we climb to the top
\* of the include chain before descending"
VisitFromRoot(f) ==
    LET climb[n \in 0 .. Depth, g \in Files] ==
          IF n = 0 \/ InEdges(g) = <<>> THEN VisitSymbols(g)
          ELSE FlattenSeq([k \in 1 .. Len(InEdges(g)) |-> climb[n - 1, InEdges(g)[k][1]]])
    IN  climb[Depth, f]

\* Mutant of Key: symbols of the current scope are grouped too.
KeyScope(n, r) == IF Search(r.token).group THEN Scope(n) ELSE n

\* The key of a name: symbols of another scope go together.
Key(n, r) ==
    IF Search(r.token).group /\ Scope(n) # CurrentScope(r) THEN Scope(n) ELSE n

\* One symbol more.  A group is represented by its root label if possible.
Collect(acc, d, r) ==
    LET k == Key(d.sym.name, r)
        old == {i \in acc : i.key = k}
        new == [key |-> k, def |-> d, size |-> 1, local |-> Scope(d.sym.name) = CurrentScope(r)]
        Merged(i) == [i EXCEPT !.size = @ + 1,
                               !.def = IF IsRoot(d.sym.name) THEN d ELSE @]
    IN  IF old = {} THEN acc \cup {new}
        ELSE (acc \ old) \cup (IF Search(r.token).group THEN {Merged(i) : i \in old} ELSE {new})

\* Mutant of Collected: the map still has the items of the last request.
CollectedMore(r) ==
    LET Step(acc, d) == IF MatchSymbol(d, r) THEN Collect(acc, d, r) ELSE acc
    IN  FoldLeft(Step, map, VisitFromRoot(r.file))

Collected(r) ==
    LET Step(acc, d) == IF MatchSymbol(d, r) THEN Collect(acc, d, r) ELSE acc
    IN  FoldLeft(Step, {}, VisitFromRoot(r.file))

\* buxn_ls_build_completion_list.  A token that begins with & is a declaration.
Complete(r) ==
    /\ r.token[1] # "&"
    /\ \A q \in req : q.file = r.file /\ q.at = r.at /\ IsStrictPrefix(q.token, r.token)
    /\ req' = {r}
    /\ map' = Collected(r)
    /\ UNCHANGED <<defs, edges>>

-----------------------------------------------------------------------------
(***************************************************************************)
(* Formatting                                                              *)
(***************************************************************************)
\* The text of an item that stands for its symbol
SymbolText(i, r) ==
    LET n == i.def.sym.name IN
    IF Search(r.token).format = "local" THEN Local(n)
    ELSE IF i.local /\ ~IsRoot(n) THEN <<"/">> \o Local(n)
    ELSE n

\* The items that are listed as symbols, and those listed as modules
AsSymbol(i, r) ==
    LET n == i.def.sym.name IN
    IF Search(r.token).format = "local" THEN Local(n) # <<>>
    ELSE \/ i.local
         \/ i.size = 1
         \/ IsRoot(n) /\ i.def.sym.sem \notin {"enum", "device_port"}

AsModule(i, r) == Search(r.token).format = "full" /\ ~i.local /\ i.size > 1

\* The token after the edit of an item: the text replaces what follows start.
Edited(r, text) == SubSeq(r.token, 1, Search(r.token).start) \o text

Next ==
    \/ \E f \in Files, s \in Symbols : Define(f, s)
    \/ \E e \in Includes : AddInclude(e)
    \/ \E r \in Requests : Complete(r)

Spec == Init /\ [][Next]_vars

-----------------------------------------------------------------------------
(***************************************************************************)
(* Properties                                                              *)
(***************************************************************************)
\* The symbol that a token means to the assembler, at r: a name in the current
\* scope after a slash or an ampersand, and a full name otherwise.  A word without
\* a rune may be a macro.
Meant(token, r) ==
    LET InScope(rest) == [name |-> CurrentScope(r) \o <<"/">> \o rest, macro |-> FALSE]
        rest == Tail(token)
    IN  CASE token[1] = "/" -> InScope(rest)
          [] Match(token[1]) = "any_symbol" -> [name |-> token, macro |-> TRUE]
          [] OTHER -> IF rest # <<>> /\ rest[1] \in {"&", "/"} THEN InScope(Tail(rest))
                      ELSE [name |-> rest, macro |-> FALSE]

\* Accepting an item leaves a token that means the item's symbol.
Names(i, r) == Meant(Edited(r, SymbolText(i, r)), r)

\* For labels: of the current scope or another, with any rune, with the part before
\* the slash typed or not.
LabelEditNames ==
    \A r \in req : \A i \in map :
      AsSymbol(i, r) /\ i.def.sym.type = "label" => Names(i, r).name = i.def.sym.name

\* The files that f reaches by includes, and those of the programs that it is part of
ReachedFrom(f) ==
    LET within[n \in 0 .. Depth] ==
          IF n = 0 THEN {f}
          ELSE within[n - 1] \cup {e[2] : e \in {e \in Range(edges) : e[1] \in within[n - 1]}}
    IN  within[Depth]
Roots(f) == {g \in Files : f \in ReachedFrom(g) /\ InEdges(g) = <<>>}
Program(f) == UNION {ReachedFrom(g) : g \in Roots(f)}

\* What a rune allows.  A sub-label after it may be of any page and anywhere.
Allowed(d, r) ==
    LET c == r.token[1] IN
    IF d.sym.type = "macro" THEN Match(c) = "any_symbol" /\ d.at < r.at
    ELSE /\ c \in {".", "-"} /\ ~SubLabel(r.token) => d.sym.zero
         /\ c \in {"!", "?", "/"} \/ Match(c) = "any_symbol" => IsSubroutine(d.sym)
         /\ c \in {"|", "$"} /\ ~SubLabel(r.token) => d.at < r.at

\* The name begins with what is typed.  After a comma or an underscore it is the
\* name of the current scope that it begins with, whatever is typed: that may be
\* a label of another scope too, such as ab/x in the scope a.
Begins(d, r) ==
    IF Search(r.token).match = "local_label" THEN IsPrefix(CurrentScope(r), d.sym.name)
    ELSE IsPrefix(Meant(r.token, r).name, d.sym.name)

\* The list is complete: a label of the program whose name begins as the token asks
\* for, and which the rune allows, is listed, or its scope is listed as a module.
\* So it is whether it is in a file that includes this one or is included, in one
\* that several documents include or under a name that several of them define,
\* however the labels are grouped, and whatever was asked before.
LabelsListed ==
    \A r \in req : \A f \in Program(r.file) : \A d \in DefsIn(f) :
      d.sym.type = "label" /\ Begins(d, r) /\ Allowed(d, r) =>
        \E i \in map :
          \/ AsSymbol(i, r) /\ i.def.sym.name = d.sym.name
          \/ AsModule(i, r) /\ Scope(i.def.sym.name) = Scope(d.sym.name)

\* And it has nothing else: what stands for an item is in a file of the program, its
\* name begins as the token asks for, and the rune allows it.
OnlyMatching ==
    \A r \in req :
      LET program == Program(r.file)
      IN  \A i \in map : i.def.file \in program /\ Begins(i.def, r) /\ Allowed(i.def, r)
=============================================================================
