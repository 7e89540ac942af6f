# A TLA+ model of buxn-ls

buxn-ls is a language server for uxntal, written in C on top of the coroutine and
I/O library bio. An editor opens documents, the server assembles them with the
buxn assembler and publishes diagnostics, and it answers queries about symbols
from the result of the last analysis. This directory holds TLA+ models of the
parts of `src/` that keep state or compute answers, TLC configurations that check
them on small instances, and TLAPS proofs for instances of any size.

## The system

| Component | Source | State | Operations | Module |
|---|---|---|---|---|
| Workspace | `workspace.c` | path to content of each open document | `resolve_path`, `update` (didOpen, didChange, didClose) | `Workspace` |
| Session | `ls.c` | handshake, analysis timer, two sets of diagnosed files | `buxn_ls`, `handle_msg`, `analyze_workspace`, `cleanup` | `Session` |
| Analyzer: order and include graph | `analyze.c`, `graph.h` | previous and current context, queue, files read | `analyze`, `queue_from_root`, `maybe_queue_node`, `buxn_asm_fopen` | `Analyzer` |
| Analyzer: symbols | `analyze.c`, queries in `ls.c` | definitions, references, edges between them | `put_symbol`, annotations, carry-forward, connecting references; definition, references, hover, symbols | `Symbols` |
| Stack-effect reports | `analyze.c` (chess callbacks) | none of their own | `buxn_chess_*` callbacks | `Symbols`, in part |
| Completion | `completion.c` | map of candidates | `build_completion_list` | `Completion` |
| Text positions | `common.c`, `lsp.c`, uses in `ls.c`, `analyze.c` | lines of the files read | `split_file`, byte and UTF-16 offsets | `Positions` |
| Framing | `lsp.c` | output buffer, message being received | header, parse, send | `Framing`, `Channel` |
| Server mode | `server.c` | set of clients, sockets, shared pool | accept, wrapper, exit handler, shutdown | `Server` |
| Shim, hybrid | `shim.c` | two forwarding coroutines | forward, fallback | `Shim` |
| Entry points | `main.c` | none | command line | not modelled |

All of it runs in one thread. A coroutine runs until it waits: for a message, for a
send, for the read of a file from disk, for a signal. The interactions that matter:

* A `textDocument/` notification updates the workspace and (re)starts a oneshot
  timer. When the timer fires, `buxn_ls_analyze_workspace` runs in a coroutine of its
  own. It shares the workspace, the analyzer and the output buffer with the coroutine
  that receives messages.
* The analysis is suspended when it reads a file that the client has not opened and
  at every message it sends. Between two of its steps the session can handle any
  message, answer queries from the half-built context, end, or (since a timer that
  fired is no longer pending) start another analysis.
* The assembler calls back into the analyzer to open files, to report and to hand
  over symbols. One run compiles several entries, which may open the same files.
* In server mode sessions share an arena pool, and their coroutines outlive the
  iteration of the accepting loop that created them.
* A shim copies bytes between an editor and such a server in two coroutines.

The hazards in `PROJECT.json` list, line by line, what this makes hard to test.

## Modules

`Workspace` is extended by `Session`, `Analyzer` and `Symbols`. `Framing` instantiates
`Channel`, the abstract specification that it implements. `*Proofs` hold the theorems
about the module they are named after, `MC*` the small instances, and the `.cfg` files
their constants. A definition whose comment begins "Mutant of" is used by no
specification: it is the changed form of the definition next to it that a plausible slip
would give, and with it TLC finds the property violated that it is listed with.

### Session

One action is what a coroutine does between two waits. `cpu` names the analysis that
is running; when it is `NoJob`, every coroutine is suspended and any may continue.

* `Initialize`, `InitializeWithoutRoot`, `Initialized`, `HandshakeExit`, `HandshakeInvalid`,
  `RecvError`: the two loops of the handshake, which a notification "exit" ends with exit code 0
  and a message of the wrong kind with 1. `held` is what `buxn_ls_initialize` allocates. The
  code resets `initialized` between the loops, so `End` releases only a session that
  reached the main loop.
* `HandleTextDocument`, `HandleCompletion`, `HandleShutdown`, `HandleOther`,
  `HandleExit`: `buxn_ls_handle_msg`. Completion and shutdown cancel the timer.
* `StartAnalysis` to `EndQueue`: `buxn_ls_analyze`. A document includes files of
  `Libs` only, which the client never opens; `Report` says what compiling a document
  reports. A read may be suspended at `ReadEntry` (a document closed after it was
  queued) and at `ReadLib`. `Emit` contains the assertion of `buxn_asm_put_symbol`.
* `PublishDiagnostic` to `EndAnalysis`: one message for each run of equal uris, the
  sets of diagnosed files, and the loop that unpublishes.
* `ReadPastEnd` and `ResumeAfterEnd` are the undefined behaviour that shared state
  leads to: the first when another analysis clears the array being published, the
  second when the session ends while an analysis is suspended. The model stops there.

`view` is what the client shows, `conn` whether messages still reach it. `suppressed`
and `overlapped` are history variables that the properties refer to.

### Analyzer

`buxn_ls_analyze` with inclusion between documents. The two recursions over the
previous graph are sets of pending calls, `climb` and `descend`; an upward call
descends from a root before the next upward call is made, as in the code. The order
of edges in a list is arbitrary. `Fopen` takes a content from the files already read,
from the workspace, or from disk, and the edge goes from the entry, not from the file
that contains the include: so does the code. `EndCompile` may come early (an error
ends the assembly). `rank`, `climbed`, `seen`, `stable`, `quiet` and `calm` are
history.

### Symbols

The same run, seen from the symbols. A content is a sequence of items (a label, a macro,
a reference of one or two bytes, an annotation, a stack comment, an error, an include, a
lambda with its generated label) and the position of an item stands for its byte and its
range. The assembler is external: it walks through the items and calls back. Each of
the callbacks is an action: `PutDefinition`, `PutGenerated`, `PutReferences`, `Annotate`,
`ReportError`, `ChessReport`, `Include`.

* The order of the entries is arbitrary here; `Analyzer` has the one the code computes.
* `asm` is `buxn_asm_ctx_t` together with `macro_defs`, `label_defs` and `references`,
  which are cleared for each entry. `files` is cleared for each run: a file that two
  entries open keeps its `zero_page_semantics`, `last_symbol_byte` and `has_error`.
* A prefix annotation is in front of its label in the text, and the annotation library
  delivers it with the label: `asm.enum` holds it until then (see External parts).
* `Fopen` takes a file once in a compilation, the entry too, even when the entry includes itself.
* `EndCompile` has the two loops after the assembly, over the files of all entries so
  far: `Carried` brings old symbols forward, `Connected` makes the reference nodes.
* The queries `FindDefinition`, `FindReferences` and `DocSymbols` are operators on the
  current context, which they read when the analyzer is idle or suspended.

`program`, `opens` and `owed` are history, and so is `by` in a node: the compilation
that made it, or 0 for a node brought forward.

### Positions

A content is a sequence of the bytes that the code tells apart: CR, LF, blanks, parts of
a UTF-8 sequence, others. `SplitFile`, `Utf16FromByte`, `ByteFromUtf16`, `PrefixStart`
and `CompletionPrefix` are the functions of `common.c`, `lsp.c` and `ls.c`; a length is a
number modulo `Wrap` (`size_t`), and `Signed` is its conversion to `utf8proc_ssize_t`. The
loops are recursive functions: `SplitFile` of the number of iterations, the conversions of the
place and, in `ByteFromUtf16`, of the code units that are still to pass. As in the code, the bytes
that a conversion is given go on behind the line (`BytesFrom`), and a length says how many of
them it may look at.
Contents grow byte by byte, so that every content up to the bound is a state. The other
actions are the life of `analyzer->lines`: cleared when a run begins, extended when the
lines of a file are first needed.

### Framing and Channel

`Framing` has both ends of a connection: coroutines that put a header and a body into the
output buffer, wait for room and for the flush; and the receiver, which reads header
lines, a body, and parses it. A token is a header line or a byte of a body. Two coroutines
of a session send: the one that answers requests, and the analysis. `torn` records that
one began while the message of another was half in the buffer; nothing in the code
prevents it. `Channel` is a queue of messages that promises nothing once it is `broken`.
`Implements` maps a message to it from the moment its sending begins, and `torn` to `broken`.

### Shim

`shim_entry` and its two coroutines, with reads of any part of what there is, sends and writes
of any part of the buffer, and the fallback of the hybrid mode. A coroutine ends as `done` when
it has met the end of its input and as `failed` on an error: of a read (`ReadError`,
`RecvError`), or of a send or a write after some of the buffer has gone (`SendError`,
`WriteError`). The editor and the server number the bytes they write.

### Completion

A context is built (definitions of files, includes from an entry), then a client asks while
it types a token. A name is defined once in what one compilation opens (`NoClash`: the assembler
reports another), but documents that do not include each other may define the same name, and
a file that two documents include has its definitions once for each of them (`Definitions`).
`Search` says what the token asks for, `VisitFromRoot` lists the symbols
in the order in which the code comes across them, `Collect` groups them, `SymbolText`,
`AsSymbol` and `AsModule` say how an item is shown. Names are sequences of characters, for
the rune, the slash and `>` decide everything here.

### Server

`server_entry`, `exit_handler` and one `ls_wrapper` for each connection.

### External parts

bio, the assembler, its annotation library, utf8proc and the clients are not under `src/`.
They are modelled from how the code uses them. A timer callback runs in a new coroutine, and
a oneshot timer that has fired is not pending (otherwise `ls.c` 713 would reset a timer that
does not fire again). File and socket I/O suspend the coroutine. A spawned coroutine runs
when its creator waits. A buffered write that does not fit waits; a flush waits until the
buffer is out. The assembler opens the entry first, then what it includes, each file once, the
entry too; the first error that it reports ends the assembly, and one of the stack effects does
not. The annotation library, which `analyze.c` 677 hands every symbol, keeps a prefix annotation
for the next definition that has a name in the text: a generated label has none to annotate, and
the handler would find the definition before it in `current_sym_node`.

## Runs

| Run | Checks |
|---|---|
| `session` | `NoForgottenDiagnostics`, `DiagnosedAsShown`, `InSync`, `PublishesWhole`, `EndReleases` with one analysis at a time: after any messages, the client shows what the open documents report, and the sets of diagnosed files say what it shows; `Converges`: once the client is silent, it gets there and stays there |
| `session_overlap` | `NoAbort` when two analyses can be in progress, for behaviours in which they do not overlap; all steps of overlapping ones are explored |
| `analyzer` | `GraphsAcyclic`, `QueueCoversDocs`, `RunCoversDocs`, `RootsOnly`, `SnapshotStable` over two runs; `RunEnds`: the recursions over the include graph and the loop over the queue terminate |
| `symbols` | `ReferenceSound`: go to definition never leads to a node of another compilation or run, in half-built contexts too; `ListsOnce`; `Tolerant`, `ReferencesFound` and `MeaningFromText` over three runs with errors |
| `positions` | `LinesKept`, `InBounds`: splitting loses no line, and the wrapped length of the extra ones never leads out of the content; `Adjoint`: the two conversions agree, for invalid sequences too; `EditIsPrefix`; `CachedLines`, `ShownWhereFound` |
| `framing` | `FailsWithReason`, `HeaderWhereExpected`; `Implements`: `Framing` implements `Channel`; `Delivered` |
| `completion` | `LabelEditNames`; `LabelsListed`: no label that the token asks for is missing; `OnlyMatching`: nothing is listed that does not begin as the token asks for, or that its rune excludes |
| `server` | `OwnConnection`, `ReturnsClean`; `Returns` |
| `shim` | `UpInOrder`, `DownInOrder`: order, no gap, and nothing left behind by a coroutine that has met the end of its input; `Ends` |
| `session_assert`, `symbols_goto`, `positions_client` | expected to be violated, see below |

`analyzer`, `server` and `shim` also check the `TypeOK` of their module. Those of `Session`,
`Framing`, `Symbols` and `Positions` are proved instead, and that of `Completion` says of what
kind its variables are; it holds in its run too.

**Bounds.** `session`: two documents and a library whose uri sorts between theirs, so that reports
of two documents about one file are not adjacent before the sort; three contents (no report, one
about the document, one about the library and the document); five messages, enough for two edits,
a closing and a request around an analysis. `session_overlap` has two analyses, so it has fewer
contents and four messages. `analyzer`: three files and contents that include none, one or two of
them, cycles and self-inclusion among them; two runs, because a run depends on the one before it
and on nothing older; three notifications, before, between and during the runs. `symbols`: two
documents and a library that both may include, so that a file is compiled twice in a run; three
runs, since a symbol brought forward twice is a copy of a copy; contents with an error before
everything, with a stack-effect error, and with every annotation. `positions`: five bytes in two
files, which hold a four-byte sequence, or its beginning, and something beside it; four of them
(`MaxRead`) in states where an analysis has read. `framing`: a buffer of three tokens, a message
that fills it and one that does not fit, three messages of two writers. `completion`: three
definitions in two documents and a library that both may include, of symbols that include two
scopes of which one name begins with the other; tokens with every rune, with a slash or an
ampersand behind it, and without one. `server`: three connections, so that one is joined while
another ends and a third is accepted. `shim`: a buffer of two bytes and four bytes each way, so
that a buffer can go in two parts, with an error between them. Symmetry is used in `positions` and
`completion`, where files are interchangeable and no liveness is checked.

**Fairness.** `Session`: a pending timer fires and a suspended analysis is resumed (bio completes
I/O, or fails it). Nothing obliges the client. `Analyzer`: a run that has started goes on.
`Framing`: the buffer of a connection that lasts goes out, a writer that waited is resumed, the
receiver reads. `Server`: a coroutine whose wait is over is resumed; clients need not leave, the
exit signal need not come, and `accept` need not fail, so `Returns` has the first two as premises.
`Shim`: each coroutine goes on when its I/O can complete, and no error of a read need happen until
the shim has closed the socket; the editor and the server need not write or close, so `Ends` has
the closing of stdin as its premise.

**Deadlock** is not checked: a session ends, a server returns, a shim ends, and the bounds on
messages and runs end every behaviour.

## What the violations say

* `session_assert`: nothing prevents a second analysis of a session while the first is
  suspended, and both use the same `files`, `diagnostics`, queue and sets. An edit while an
  include is being read, and a second analysis that clears `analyzer->files`: when the first
  is resumed, its entry is no longer there, and
  `assert((file != NULL) && "Symbol comes from unopened file")` fails.
* `symbols_goto`: two documents include a library. Its definition has one node for each
  compilation, at the same place, and go to references looks at the last of them only: the
  reference in the document that was compiled first is not found.
* `positions_client`: a CR LF ends two lines, so that the lines after it have another
  number than the client's. `LinesKept` and `InBounds` say what is still true.

`ReferencesFound` and `ListsOnce` are about files that are part of one program, `EditIsPrefix` and
`ShownWhereFound` about contents without CR LF, `LabelEditNames` and `LabelsListed` about labels:
what these behaviours leave. `NoForgottenDiagnostics`, `DiagnosedAsShown`, `InSync`,
`PublishesWhole` and `NoAbort` are about behaviours in which analyses did not overlap. `InSync`
and `Converges` also exclude the case that a completion or shutdown request cancelled the last
scheduled analysis: the code does that on purpose ("Stop analysis since the doc is incomplete"),
and the diagnostics stay old until the next notification. `Implements` and `Delivered` are about
messages that were not written into each other; `FailsWithReason` and `HeaderWhereExpected` say
what a receiver meets when they were. `UpInOrder` and `DownInOrder` say that a byte is in a buffer
also of a coroutine that has failed, where it stays: what they promise the editor is the order,
and the whole when a coroutine is `done`.

`MeaningFromText` says what the code does and not all that `src/README.md` 29-31 says of the
annotations ("all zero-page labels after this comment"): a label with a stack comment of its own
is a subroutine, whatever its page or group, and a file that several compilations open keeps
its page. `OnlyMatching` takes the name of the current scope without a slash after a comma or an
underscore, as `completion.c` 423 does: in the scope `a` the label `ab/x` is listed too.

The models have some more behaviours that a reader of the code may not expect. No run is
about them; they are why the properties above are stated as they are:

* Of two overlapping analyses the older one may publish last, the diagnostics of the old
  content, and no analysis follows.
* The second compilation of a shared file begins with the `zero_page_semantics` that the
  first ended with (`analyze.c` 685), so that labels before its `(buxn:device )` become
  device ports. This is the one exception that `MeaningFromText` makes.
* Symbols are brought forward after each entry (`analyze.c` 442), once for each entry of the
  run, and copies are copied again by the next run.
* An error in the stack effects marks a file that was assembled to its end (`analyze.c` 828),
  and a label that was deleted comes back.
* The shim closes the socket when stdin ends (`shim.c` 86), whatever replies are under way.
* A session that ends between the two halves of the handshake does not release what
  `buxn_ls_initialize` allocated (`ls.c` 815), and a session may read past the diagnostics when
  analyses overlap (`ls.c` 237).
* A macro with a slash in its name, offered in its scope, is inserted without the scope
  (`completion.c` 489); the size of a module counts the labels of a shared file once for
  each document that includes it (215); positions of different files are compared (97).

Seen while reading: `buxn_chess_report` assigns `diag.severity` and then
overwrites `diag` (`analyze.c` 815-854), so that these diagnostics are sent with severity 0;
both report functions convert `region` where they mean `related_region` (599, 860).

## What is proved

For any sets of files, contents, analyses and connections, contents and messages of any size, any
number of writers and buffers of any size, from the assumptions named in `Workspace`, `Session`,
`Analyzer`, `Symbols`, `Positions`, `Framing`, `Server` and `Shim` (constants are disjoint where
the code's values are, uris are numbers other than 0, a message has a body, functions have their
types, the files whose bytes `Positions` counts are finitely many and `size_t` can count them
twice over):

* `TypeCorrect` (of `Session`, `Framing`, `Symbols` and `Positions`), `AnalyzerTypeCorrect`,
  `ServerTypeCorrect`, `ShimTypeCorrect`: the `TypeOK` of the seven modules. The inductive
  invariants add which local variables are set at which point; `Base` in `Symbols`, that every
  place still to be assembled is an item of a file that was read, and that finitely many
  documents are open.

Session:

* `NeverForgotten`: `NoForgottenDiagnostics`. It is not inductive: between two messages
  a file may be out of `prev` already. `FeedInv` adds that at most one analysis is
  active (as long as none overlapped), that the uri of the message being built is in
  `cur`, and that what was unpublished was in `prev`.
* `NeverAborts`: `NoAbort`. `SafeInv` adds that the entry and the includes opened so
  far are registered, that the includes still to open are the others, and that the
  index of the publishing loop is within the array that was sorted.
* `SetsMatchView`: `DiagnosedAsShown`. `Tidy`, from `PubInv`: of a file in `prev` the client
  shows something, or the loop that unpublishes has already passed it. When that loop is done, all
  of `prev` is cleared, so that the sets which are swapped leave exactly what is shown.
* `AlwaysReleased`: `EndReleases`. Before the main loop there is no timer, no message was
  handled and no document is open (`EndInv`): a handshake that fails leaves no timer either. What
  it allocated it does leave; the property is about sessions that handled a message.
* `MessagesWhole`: the action property `PublishesWhole`. `PubInv` adds the order of the array:
  it is sorted by uri, the message being built has every diagnostic of its uri up to the index,
  the uris passed have moved from `prev` to `cur` and no other uri is in `cur`, and for each of
  them but the last the client shows what is reported. A uri that begins at the index cannot
  occur before it, so that a message is complete when the next one begins.
* `AlwaysInSync`: `InSync`, from the two previous ones. `SyncInv` says of an analysis that is
  still current (no timer is set, nothing was suppressed, nothing overlapped) that the queue
  holds the open documents, that what has been reported is what the compiled ones give with
  their content, and that the files registered are those. A document that is edited sets the
  timer, and the invariant promises nothing until it fires.

Analyzer:

* `NeverCyclic`: `GraphsAcyclic`. `GraphInv` orders the nodes by their place in the
  queue: every edge goes from an entry to a node of lower rank. An edge is added
  from the entry to a file that was opened; a file that was opened never becomes an
  entry, so its rank stays. A node of largest rank in a set has no parent in it
  (`WFMin` over the naturals).
* `AlwaysQueued`: `QueueCoversDocs`. `ScheduleInv` says what the pending calls owe:
  parents of a climbed node are climbed or pending, roots are descended to or pending,
  children of a node descended to are too. When nothing is pending, a document climbed
  from and not descended to would have a parent of the same kind, against
  `NeverCyclic`.
* `RunsCover`: `RunCoversDocs`, from the previous one. `StableInv`: a document that
  nobody touches is open, so its content never comes from disk; it is analyzed or its
  turn in the queue is still to come.
* `SnapshotsKept`: the action property `SnapshotStable`. A file is registered after the wait for
  its content; that nothing else registers it meanwhile is `ReadPending`.
* `OnlyRoots`: `RootsOnly`. In a run that nothing disturbs the files opened so far, with those
  still wanted, are closed under inclusion (`QuietInv`). An edge leads from an open document to
  a file that is in every closed set the document is in (`RightEdges`, for the previous graph
  too). `CalmInv`: every node in the queue has no parent or one before it. Its parent was
  compiled or opened, so it was opened, and is skipped. The graph is transitive through the
  entry only (the edge goes from the entry, not from the file that includes), which is why the
  invariant speaks of closed sets and not of paths.

Symbols:

* `AlwaysSound`: `ReferenceSound`. `SoundInv`: all ids in `asm.macros`, `asm.labels` and
  `asm.refs` are nodes that this compilation made, with the name that the reference in the text
  has; every reference node, once it is connected, leads to a definition of its own compilation
  and of its own name. `EndCompile` only appends to the definitions of a file, so that earlier
  ids stay valid (`Grows`).
* `AlwaysTolerant`: `Tolerant`. `Owing`: while a run goes on, the names that are owed for a file
  are in its list of the previous context (`Held`); between two entries, the list of each file
  with an error has those again that are behind its last symbol (`Forwarded`). A context has
  a node for every file that was read, without which nothing would be brought forward into it.
* `AlwaysFound`: `ReferencesFound`. `Once`, of a file that was opened once: what remains of it is
  in the order of the text; the definitions that a compilation made are at distinct bytes, none
  behind the last symbol and all before what remains; what was brought forward is behind the last
  symbol, and then nothing remains. So of the definitions at a byte none hides the one that
  the references are connected to. `KeptOf` says what the filters in `EndCompile` return: the
  k-th element kept is the one at the k-th smallest index that passes, with cardinalities in
  place of recursion.

* `AlwaysMeant`: `MeaningFromText`. `Unmixed`: a compilation opens a file once, so that what
  remains of a file is in the order of its text, and nothing remains of one that it is about to
  read. `Meanings` follows each file, opened for the first time or again, through its text. What
  remains of it is a row of neighbouring places, in each of the files that are open (`InRuns`);
  `asm.enum` and `asm.scope` say of the place that comes next whether it is in a group of
  enumerators (`Grouped`), `page` whether it is behind a device, or the text has one and is
  assembled again (`PageAt`); and every label that was listed is right already, or lacks only its
  signature, which the comment that comes next will give it (`NodeRight`). Behind an include the
  text alone does not say in which scope the assembler is, which is why the groups of the property
  end there.
* `AlwaysListedOnce`: `ListsOnce`. In a run without errors, the list of a file that was opened
  once rises, each of its definitions is one of the text, and each of those of the text is in the
  list or still ahead (`Complete`); at the end none is ahead. That such a list is the one the
  text gives is a fact about increasing sequences with the same elements (`RisingCounts`). `Single`
  says of the references that at most one compilation hands over those of the file: they are in
  `asm.refs`, or connected, at distinct bytes and all before what remains.

Positions. Nothing here recurs in the proof system's sense: that a function exists whose values
obey the equation of a loop is proved first (`LoopExists` by the number of iterations, `WalkExists`
for any loop that gets nearer to an end), and what holds of all its values by the least one for
which it would not (`Climb`, `Nearer`, `Backwards`, from the well-foundedness of the naturals).
`BytesWalk` and `UnitsWalk` are the values of the two conversions.

* `AlwaysKept`: `LinesKept`. `SplitRight` holds after every iteration: the lines so far are those
  that the client has up to `start`, in order (`LinesRight`); between the CR and the LF of a CR LF
  the last line is open, `start` is behind the index and the line that comes next is the wrapped
  one. Without the open line the invariant would not be inductive: an LF alone does not show
  whether its line is one of the client's.
* `AlwaysInBounds`: `InBounds`. A line of the client ends within the content, and its length is
  less than half of `Wrap`, so that it stays what it is when it is signed; the wrapped length is -1
  then, and a loop that may look at -1 bytes ends where it begins.
* `AlwaysAdjoint`: `Adjoint`, by going backwards from a boundary `b`: from every place before it,
  the loop for a number of code units stops not beyond `b` exactly if the loop up to `b` counts
  as many. No code point lies across `b`, so that both loops take the same steps until then.
* `AlwaysEditsPrefix`: `EditIsPrefix`. Units add up along a line: those to a boundary are those of
  the whole line without those behind it (`UnitsTo`), and those between two boundaries are those
  of the bytes between them, taken alone (`UnitsBetween`). The code point in front of a cursor
  ends at a boundary (`NextBoundary`), and no code point lies across the end of a blank
  (`BehindBlank`), in invalid UTF-8 either. What the code looks at is the line and nothing behind
  it (`SeesLine`).
* `AlwaysShown`: `ShownWhereFound`, from `AlwaysCached`. The way to a boundary and back leads to
  the first boundary with as many code units before it (`ExactOf`), which is the same one if every
  step of the line counts at least one. Without CR LF the line of a number is the one that as many
  lines are before (`LineAt`), for there is no wrapped one.
* `AlwaysCached`: `CachedLines`. `CachedInv`: a file that was read is not split, or its range of the
  shared array has the lines of its text; the array only grows as long as a run lasts.

Framing:

* `FailureExplained`: `FailsWithReason`. `FramingInv`: as long as nothing is torn, at most one
  writer has something pending, `received` is in the order of `sent`, and the stream from the
  receiver's position on (wire, buffer, and what the writer still has) is a row of whole frames:
  each of its tokens can be labelled with the frame it belongs to and its place there, the first
  with the place that the receiver expects, and each follows from the one before it
  (`WholeFrames`). The labelling replaces the concatenation of the frames, which would be
  recursive. The receiver fails only if its token is not the expected one.
* `HeadersFound`: `HeaderWhereExpected`, also when frames are torn. `InFrames` counts for every
  frame how much of it the receiver has taken and how much was handed over by its writer. Each
  token on the way belongs to a frame and stands there in the frame's own order, with those of
  others in between; those of a frame from the one count to the other are all on the way; and
  between messages the receiver has taken of every frame less than its header or all of it
  (`Reading`). If the next token were one of a body, its frame's header would have been taken
  whole and its body not. An empty line that came first would have made the receiver read a body:
  in that body it meets either the tokens that follow in the same frame, or a header line, and
  gives up.
* `ChannelKept`: the refinement `Implements`: the initial states of `Framing` are initial states
  of `Channel`, and every step is a step of `Channel` under the mapping, or a stutter. A body that
  was received completely is the message that `Channel` delivers next, by `FramingInv`.

Server and Shim:

* `NeverShared`, `AlwaysClean`: `OwnConnection`, `ReturnsClean`. `ServerInv`: the set
  of clients, the open connections and the live coroutines are the same, and a wrapper
  that has not run yet has the accepting loop wait for it.
* `UpKept`, `DownKept`: `UpInOrder`, `DownInOrder`. `ShimInv` adds that a coroutine that reads or
  is done has an empty buffer, what one that is done has met (`EndInv`), that nothing has reached
  the server before the connection, and `DownInv`: what the server wrote is what the editor has,
  the buffer, the socket, and a rest that was lost, which is empty as long as the socket is open.
  Without the rest, that the replies have no gap does not follow once the socket is closed.

Only model-checked:

* The invariants of `Completion`. `LabelsListed` and `OnlyMatching` are about files that paths of
  includes lead to, in a graph without cycles, and `LabelEditNames` about tokens that a client
  would type: all three hold for the graphs and tokens of the run, and not for every value of the
  constants. In a cycle there is no root to begin from, and after `//x` an item that is accepted
  leaves two slashes.
* Liveness (`Converges`, `RunEnds`, `Delivered`, `Returns`, `Ends`), which the prover does not
  handle.
* `session_overlap` explores steps of overlapping analyses; that they do not abort is false, see
  above.

## What is not modelled

* Contents, uris and messages are abstract; so is memory, except where a lifetime is at
  stake (`held`, `pool`, `ResumeAfterEnd`, `ReadPastEnd`).
* In `Session` a file of `Libs` can always be read; that another one cannot is part of
  `Report`. Failing reads are in `Analyzer` and `Symbols`, and for the entry in `ReadEntry`.
* Documentation and signatures of symbols, the text of diagnostics and of hovers, the kind,
  detail and sort key of completion items, and the stacks that `buxn_chess_deo` prints: data
  that is passed on. `buxn_chess_report` is `ChessReport`, as far as it marks a file.
* Workspace symbols (`ls.c` 537-576): the lists of `DocSymbols` for all files, filtered.
* Names with two slashes in `Completion` (a token such as `/x/y`, for which
  `completion.c` 366-378 moves the edit behind the second).
* A malformed header line, and JSON that is well formed and not a message: both end a
  session as `BadJson` does.
* `main.c`, the allocation helpers and `resources.h` keep no state. The choice of shim or
  hybrid mode is `fallback` in `Shim`.

## Plan

Done: all components that keep state, and the theorems above, which state every invariant and
action property of the runs except those of `Completion`.

1. `Completion`: assumptions on `Includes` and `Tokens` under which its invariants hold (no cycle,
   at most one slash), and the recursive functions that collect symbols in the form that
   `Positions` gives its loops, so that `LoopExists` has its counterpart there.
2. `DiagnosticsFeed`, an abstract specification of what the client is promised: a view
   per file that is replaced as a whole by the result of some analysis. `Session`
   without overlap implements it; the step simulation follows from `PubInv`.
