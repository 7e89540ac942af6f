------------------------------ MODULE Session ------------------------------
(***************************************************************************)
(* One language-server session (src/ls.c): the handshake, the document     *)
(* notifications, the debounced analysis and the publication of its        *)
(* diagnostics.                                                            *)
(*                                                                         *)
(* A session is a set of cooperative coroutines of the bio library: the    *)
(* one of buxn_ls, which receives and handles messages, and one for every  *)
(* firing of the analysis timer (buxn_ls_analyze_workspace).  A coroutine  *)
(* runs until it does I/O: a receive, a send, or the read of a file the    *)
(* client has not opened.  "cpu" names the analysis that runs now; when it *)
(* is NoJob every coroutine is suspended and any of them may be resumed.   *)
(* Handling a message does no I/O before its state changes are done, so it *)
(* is one action.                                                          *)
(*                                                                         *)
(* Inside an analysis (src/analyze.c) this module keeps what the session   *)
(* can observe: the queue of entry files, the set of files opened, and the *)
(* diagnostics.  A document includes only files of Libs, which the client  *)
(* never opens; inclusion between documents is the subject of Analyzer.    *)
(* A file that cannot be read is not in Libs: that it cannot is one of the *)
(* messages in the Report of the content that includes it.                 *)
(***************************************************************************)
EXTENDS Workspace, FiniteSets

CONSTANTS Libs,      \* files below the root that the client never opens
          Msgs,      \* diagnostic messages
          Needs,     \* Needs[t]: the files of Libs that content t includes
          Report,    \* Report[<<f, t>>]: what compiling f with content t reports
          Jobs,      \* analyses that may be in progress at the same time
          NoJob,
          MaxMsgs    \* bound on the messages handled after the handshake

\* Uris are numbers so that strcmp on them is <.  0 is the NULL uri.
Uris == Files \cup Libs
NoUri == 0

Diag == [uri : Uris, msg : Msgs]

ASSUME SessionAssumption ==
    /\ Uris \subseteq Nat \ {NoUri}
    /\ IsFiniteSet(Uris)
    /\ Files \cap Libs = {}
    /\ Needs \in [Texts -> SUBSET Libs]
    /\ Report \in [Files \X Texts -> Seq(Diag)]
    /\ NoJob \notin Jobs
    /\ MaxMsgs \in Nat

VARIABLES
    phase,      \* what buxn_ls waits for, or how it ended
    code,       \* exit_code
    held,       \* buxn_ls_initialize allocated what buxn_ls_cleanup frees
    docs,       \* ctx->workspace.docs
    timer,      \* bio_is_timer_pending(ctx->analyze_delay_timer)
    jobs,       \* the coroutines of buxn_ls_analyze_workspace
    cpu,        \* the analysis that has not reached its next I/O
    queue,      \* analyzer->analyze_queue
    files,      \* the keys of analyzer->files
    diags,      \* analyzer->diagnostics
    prev,       \* *ctx->previously_diagnosed_files
    cur,        \* *ctx->currently_diagnosed_files
    conn,       \* out_buf still reaches the client
    view,       \* what the client shows: the last diagnostics of each uri
    msgs,       \* messages handled, up to MaxMsgs
    suppressed, \* history: a request cancelled the last scheduled analysis
    overlapped  \* history: an analysis began while another was in progress

sessionVars == <<phase, code, held, docs, timer, msgs, suppressed>>
analysisVars == <<jobs, cpu, queue, files, diags, prev, cur, view, overlapped>>
vars == <<sessionVars, analysisVars, conn>>

Pcs == {"idle", "next", "read", "include", "lib", "emit",
        "publish", "begin", "unpublish"}

IdleJob == [pc |-> "idle", qi |-> 0, entry |-> NoUri, text |-> Empty,
            todo |-> {}, lib |-> NoUri, num |-> 0, i |-> 0,
            last |-> NoUri, msg |-> {}, done |-> {}]

JobStates == [pc : Pcs,
              qi : Nat,                 \* index of the loop over the queue
              entry : Files \cup {NoUri}, \* the entry file of the compilation
              text : Texts,             \* its content, as fopen copied it
              todo : SUBSET Libs,       \* its includes not yet opened
              lib : Libs \cup {NoUri},  \* the include being read
              num : Nat,                \* num_diags
              i : Nat,                  \* index of the loop over diagnostics
              last : Uris \cup {NoUri}, \* last_uri
              msg : SUBSET Msgs,        \* the message being built
              done : SUBSET Uris]       \* uris unpublished so far

\* Every variable has a value of its kind, and the analysis that runs is in progress.
TypeOK ==
    /\ phase \in {"initialize", "initialized", "running", "ended",
                  "aborted", "undefined", "dangling"}
    /\ code \in {0, 1}
    /\ held \in BOOLEAN
    /\ docs \in Docs
    /\ timer \in BOOLEAN
    /\ jobs \in [Jobs -> JobStates]
    /\ cpu \in Jobs \cup {NoJob}
    /\ cpu # NoJob => jobs[cpu].pc # "idle"
    /\ queue \in Seq(Files)
    /\ files \subseteq Uris
    /\ diags \in Seq(Diag)
    /\ prev \subseteq Uris
    /\ cur \subseteq Uris
    /\ conn \in BOOLEAN
    /\ view \in [Uris -> SUBSET Msgs]
    /\ msgs \in 0 .. MaxMsgs
    /\ suppressed \in BOOLEAN
    /\ overlapped \in BOOLEAN

Init ==
    /\ phase = "initialize"
    /\ code = 1
    /\ held = FALSE
    /\ docs = NoDocs
    /\ timer = FALSE
    /\ jobs = [j \in Jobs |-> IdleJob]
    /\ cpu = NoJob
    /\ queue = <<>>
    /\ files = {}
    /\ diags = <<>>
    /\ prev = {}
    /\ cur = {}
    /\ conn = TRUE
    /\ view = [u \in Uris |-> {}]
    /\ msgs = 0
    /\ suppressed = FALSE
    /\ overlapped = FALSE

-----------------------------------------------------------------------------
\* Mutant of End: the timer is not cancelled.
EndKeepTimer(exit_code) ==
    /\ phase' = "ended"
    /\ code' = exit_code
    /\ held' = (held /\ phase # "running")
    /\ UNCHANGED <<docs, timer, msgs, suppressed, analysisVars, conn>>

(***************************************************************************)
(* The end of buxn_ls.  "initialized" is false again after the initialize  *)
(* request, so only a session that reached the main loop is cleaned up.    *)
(***************************************************************************)
End(exit_code) ==
    /\ phase' = "ended"
    /\ code' = exit_code
    /\ IF phase = "running"
         THEN /\ timer' = FALSE
              /\ held' = FALSE
              /\ docs' = NoDocs
         ELSE UNCHANGED <<timer, held, docs>>
    /\ UNCHANGED <<msgs, suppressed, analysisVars, conn>>

\* buxn_ls is resumed with a message.
Receiving(p) == phase = p /\ cpu = NoJob /\ conn

\* buxn_ls_recv_msg fails: end of file, a bad header, body or message
RecvError ==
    /\ phase \in {"initialize", "initialized", "running"}
    /\ cpu = NoJob
    /\ End(1)

Initialize ==
    /\ Receiving("initialize")
    /\ phase' = "initialized"
    /\ held' = TRUE
    /\ UNCHANGED <<code, docs, timer, msgs, suppressed, analysisVars, conn>>

\* The request names no root: an error reply, after the allocations are made.
InitializeWithoutRoot ==
    /\ Receiving("initialize")
    /\ phase' = "ended"
    /\ held' = TRUE
    /\ UNCHANGED <<code, docs, timer, msgs, suppressed, analysisVars, conn>>

Initialized ==
    /\ Receiving("initialized")
    /\ phase' = "running"
    /\ UNCHANGED <<code, held, docs, timer, msgs, suppressed, analysisVars, conn>>

Handshake == Receiving("initialize") \/ Receiving("initialized")

\* The notification "exit"; one that is not awaited is skipped, which changes nothing.
HandshakeExit == Handshake /\ End(0)

\* "Client sent invalid message during initialization": a request that is not
\* awaited, or a response
HandshakeInvalid == Handshake /\ End(1)
-----------------------------------------------------------------------------
(***************************************************************************)
(* buxn_ls_handle_msg                                                      *)
(***************************************************************************)
Handling ==
    /\ Receiving("running")
    /\ msgs < MaxMsgs
    /\ msgs' = msgs + 1

\* Mutant of HandleTextDocument: an analysis in progress is not followed by one.
HandleTextDocumentOnce(m) ==
    /\ Handling
    /\ docs' = WorkspaceUpdate(docs, m)
    /\ timer' = (timer \/ \A j \in Jobs : jobs[j].pc = "idle")
    /\ suppressed' = FALSE
    /\ UNCHANGED <<phase, code, held, analysisVars, conn>>

\* A textDocument/ notification: whatever it was, the analysis is (re)scheduled.
HandleTextDocument(m) ==
    /\ Handling
    /\ docs' = WorkspaceUpdate(docs, m)
    /\ timer' = TRUE
    /\ suppressed' = FALSE
    /\ UNCHANGED <<phase, code, held, analysisVars, conn>>

\* bio_cancel_timer: the analysis that was scheduled will not happen
CancelTimer ==
    /\ timer' = FALSE
    /\ suppressed' = (suppressed \/ timer)

\* buxn_ls_handle_completion gets as far as cancelling the analysis when the
\* document is open and the current analysis knows the file.
HandleCompletion(f) ==
    /\ Handling
    /\ docs[f] # Closed
    /\ f \in files \/ \E k \in 1 .. Len(queue) : queue[k] = f
    /\ CancelTimer
    /\ UNCHANGED <<phase, code, held, docs, analysisVars, conn>>

HandleShutdown ==
    /\ Handling
    /\ CancelTimer
    /\ UNCHANGED <<phase, code, held, docs, analysisVars, conn>>

\* Every other request is answered, every other message dropped: neither
\* changes the session.
HandleOther ==
    /\ Handling
    /\ UNCHANGED <<phase, code, held, docs, timer, suppressed, analysisVars, conn>>

HandleExit ==
    /\ Receiving("running")
    /\ End(0)
-----------------------------------------------------------------------------
(***************************************************************************)
(* buxn_ls_analyze_workspace, first half: buxn_ls_analyze                  *)
(***************************************************************************)
Active(j) == jobs[j].pc # "idle"

\* The local variables of analysis j get the values of r.
Become(j, r) == jobs' = [jobs EXCEPT ![j] = r]

\* Analysis j runs now, or is resumed.
Step(j, pc) ==
    /\ phase = "running"
    /\ cpu \in {NoJob, j}
    /\ jobs[j].pc = pc

\* The orders in which the documents may be queued
Orders(S) == {s \in [1 .. Cardinality(S) -> S] :
                \A x \in S : \E k \in DOMAIN s : s[k] = x}

\* The timer fires: the queue is rebuilt and the results of the previous
\* analysis are cleared.
StartAnalysis(j) ==
    /\ phase = "running"
    /\ cpu = NoJob
    /\ timer
    /\ ~Active(j)
    /\ timer' = FALSE
    /\ overlapped' = (overlapped \/ \E k \in Jobs : Active(k))
    /\ queue' \in Orders(OpenDocs(docs))
    /\ files' = {}
    /\ diags' = <<>>
    /\ Become(j, [IdleJob EXCEPT !.pc = "next", !.qi = 1])
    /\ cpu' = j
    /\ UNCHANGED <<phase, code, held, docs, msgs, suppressed, prev, cur, view, conn>>

\* buxn_asm on entry e with content t: its includes are opened next.
BeginCompile(j, e, t) ==
    /\ files' = files \cup {e}
    /\ Become(j, [jobs[j] EXCEPT !.pc = "include", !.entry = e,
                                 !.text = t, !.todo = Needs[t]])

\* The next entry of the queue: skipped if an earlier one opened it, copied
\* from the workspace if it is (still) open, or else read from disk.
NextEntry(j) ==
    /\ Step(j, "next")
    /\ jobs[j].qi <= Len(queue)
    /\ LET e == queue[jobs[j].qi]
       IN  \/ /\ e \in files
              /\ Become(j, [jobs[j] EXCEPT !.qi = @ + 1])
              /\ cpu' = j
              /\ UNCHANGED files
           \/ /\ e \notin files
              /\ docs[e] # Closed
              /\ BeginCompile(j, e, docs[e])
              /\ cpu' = j
           \/ /\ e \notin files
              /\ docs[e] = Closed
              /\ Become(j, [jobs[j] EXCEPT !.pc = "read", !.entry = e])
              /\ cpu' = NoJob
              /\ UNCHANGED files
    /\ UNCHANGED <<sessionVars, queue, diags, prev, cur, view, overlapped, conn>>

\* The read of an entry that was closed after it was queued: it fails, and the
\* report about it has no source region, or the disk holds some content.
ReadEntry(j) ==
    /\ Step(j, "read")
    /\ \/ \E t \in Texts : BeginCompile(j, jobs[j].entry, t)
       \/ /\ Become(j, [jobs[j] EXCEPT !.pc = "next", !.qi = @ + 1])
          /\ UNCHANGED files
    /\ cpu' = j
    /\ UNCHANGED <<sessionVars, queue, diags, prev, cur, view, overlapped, conn>>

\* buxn_asm_fopen of an include: cached, or read from disk.
Include(j) ==
    /\ Step(j, "include")
    /\ \/ \E l \in jobs[j].todo :
            \/ /\ l \in files
               /\ Become(j, [jobs[j] EXCEPT !.todo = @ \ {l}])
               /\ cpu' = j
            \/ /\ l \notin files
               /\ Become(j, [jobs[j] EXCEPT !.pc = "lib", !.lib = l])
               /\ cpu' = NoJob
       \/ /\ jobs[j].todo = {}
          /\ Become(j, [jobs[j] EXCEPT !.pc = "emit"])
          /\ cpu' = j
    /\ UNCHANGED <<sessionVars, queue, files, diags, prev, cur, view, overlapped, conn>>

\* Mutant of ReadLib: a file read from disk is not registered.
ReadLibUnregistered(j) ==
    /\ Step(j, "lib")
    /\ Become(j, [jobs[j] EXCEPT !.pc = "include", !.todo = @ \ {jobs[j].lib}])
    /\ cpu' = j
    /\ UNCHANGED <<sessionVars, queue, files, diags, prev, cur, view, overlapped, conn>>

ReadLib(j) ==
    /\ Step(j, "lib")
    /\ files' = files \cup {jobs[j].lib}
    /\ Become(j, [jobs[j] EXCEPT !.pc = "include", !.todo = @ \ {jobs[j].lib}])
    /\ cpu' = j
    /\ UNCHANGED <<sessionVars, queue, diags, prev, cur, view, overlapped, conn>>

\* The files that the symbols and the reports of the compilation are in
Sources(j) == {jobs[j].entry} \cup Needs[jobs[j].text]

\* The rest of the compilation: buxn_asm_put_symbol for the symbols, which
\* asserts that their file is open, and buxn_asm_report for the diagnostics.
\* Every source is taken to define a symbol.
Emit(j) ==
    /\ Step(j, "emit")
    /\ IF Sources(j) \subseteq files
         THEN /\ diags' = diags \o Report[<<jobs[j].entry, jobs[j].text>>]
              /\ Become(j, [jobs[j] EXCEPT !.pc = "next", !.qi = @ + 1])
              /\ cpu' = j
              /\ UNCHANGED phase
         ELSE /\ phase' = "aborted"
              /\ UNCHANGED <<diags, jobs, cpu>>
    /\ UNCHANGED <<code, held, docs, timer, msgs, suppressed,
                   queue, files, prev, cur, view, overlapped, conn>>

\* Mutant of Sorted: the diagnostics stay in the order they were reported.
Unsorted(s) == {s}

\* How often d occurs in s
Occurrences(s, d) == Cardinality({k \in 1 .. Len(s) : s[k] = d})

\* qsort with buxn_ls_cmp_diagnostic, which is not stable: any order of the
\* diagnostics in which the uris ascend.
Sorted(s) ==
    {t \in [1 .. Len(s) -> {s[k] : k \in 1 .. Len(s)}] :
       /\ \A a, b \in 1 .. Len(s) : a < b => t[a].uri <= t[b].uri
       /\ \A k \in 1 .. Len(s) : Occurrences(t, s[k]) = Occurrences(s, s[k])}

EndQueue(j) ==
    /\ Step(j, "next")
    /\ jobs[j].qi > Len(queue)
    /\ diags' \in Sorted(diags)
    /\ Become(j, [jobs[j] EXCEPT !.pc = "publish", !.num = Len(diags)])
    /\ cpu' = j
    /\ UNCHANGED <<sessionVars, queue, files, prev, cur, view, overlapped, conn>>
-----------------------------------------------------------------------------
(***************************************************************************)
(* buxn_ls_analyze_workspace, second half: publication                     *)
(***************************************************************************)
\* Mutant of Diagnose: a uri found in the previous set is only removed from it.
DiagnoseRemoveOnly(u) ==
    /\ prev' = prev \ {u}
    /\ cur' = IF u \in prev THEN cur ELSE cur \cup {u}

\* Move uri to the set of diagnosed files
Diagnose(u) ==
    /\ prev' = prev \ {u}
    /\ cur' = cur \cup {u}

\* A publishDiagnostics notification replaces what the client had for the uri.
\* A send fails once the client is gone.
Send(u, content) ==
    view' = IF conn THEN [view EXCEPT ![u] = content] ELSE view

\* The next message: it holds the diagnostic in hand.
StartMessage(j, d) ==
    Become(j, [jobs[j] EXCEPT !.pc = "publish", !.last = d.uri,
                              !.msg = {d.msg}, !.i = @ + 1])

\* One pass of the loop over analyzer->diagnostics.  The send suspends the
\* analysis between the old message and the new one; if it fails, the loop is
\* left and the message that was to follow is never built.
PublishDiagnostic(j) ==
    /\ Step(j, "publish")
    /\ jobs[j].i < jobs[j].num
    /\ jobs[j].i < Len(diags)
    /\ LET d == diags[jobs[j].i + 1]
       IN  \/ /\ d.uri = jobs[j].last
              /\ Become(j, [jobs[j] EXCEPT !.msg = @ \cup {d.msg}, !.i = @ + 1])
              /\ cpu' = j
              /\ UNCHANGED <<prev, cur, view>>
           \/ /\ d.uri # jobs[j].last
              /\ jobs[j].last = NoUri
              /\ Diagnose(d.uri)
              /\ StartMessage(j, d)
              /\ cpu' = j
              /\ UNCHANGED view
           \/ /\ d.uri # jobs[j].last
              /\ jobs[j].last # NoUri
              /\ Diagnose(d.uri)
              /\ Send(jobs[j].last, jobs[j].msg)
              /\ Become(j, [jobs[j] EXCEPT !.pc = IF conn THEN "begin" ELSE "unpublish",
                                           !.last = NoUri, !.msg = {}])
              /\ cpu' = NoJob
    /\ UNCHANGED <<sessionVars, queue, files, diags, overlapped, conn>>

BeginMessage(j) ==
    /\ Step(j, "begin")
    /\ jobs[j].i < Len(diags)
    /\ StartMessage(j, diags[jobs[j].i + 1])
    /\ cpu' = j
    /\ UNCHANGED <<sessionVars, queue, files, diags, prev, cur, view, overlapped, conn>>

\* Another analysis has cleared the diagnostics that this one is publishing:
\* the loop reads beyond the end of the array.
ReadPastEnd(j) ==
    /\ Step(j, "publish") \/ Step(j, "begin")
    /\ jobs[j].i < jobs[j].num
    /\ jobs[j].i >= Len(diags)
    /\ phase' = "undefined"
    /\ UNCHANGED <<code, held, docs, timer, msgs, suppressed, analysisVars, conn>>

\* Last message
PublishLast(j) ==
    /\ Step(j, "publish")
    /\ jobs[j].i = jobs[j].num
    /\ Become(j, [jobs[j] EXCEPT !.pc = "unpublish"])
    /\ IF jobs[j].last # NoUri
         THEN Send(jobs[j].last, jobs[j].msg) /\ cpu' = NoJob
         ELSE cpu' = j /\ UNCHANGED view
    /\ UNCHANGED <<sessionVars, queue, files, diags, prev, cur, overlapped, conn>>

\* Unpublish from files with no diagnostic: one pass of the loop
Unpublish(j) ==
    /\ Step(j, "unpublish")
    /\ \E u \in prev \ jobs[j].done :
         /\ Send(u, {})
         /\ Become(j, [jobs[j] EXCEPT !.done = @ \cup {u}])
    /\ cpu' = NoJob
    /\ UNCHANGED <<sessionVars, queue, files, diags, prev, cur, overlapped, conn>>

\* Mutant of EndAnalysis: the previous set is swapped but not cleared.
EndAnalysisKeepSet(j) ==
    /\ Step(j, "unpublish")
    /\ prev \subseteq jobs[j].done
    /\ prev' = cur
    /\ cur' = prev
    /\ Become(j, IdleJob)
    /\ cpu' = NoJob
    /\ UNCHANGED <<sessionVars, queue, files, diags, view, overlapped, conn>>

\* Clear the previous set and swap the two
EndAnalysis(j) ==
    /\ Step(j, "unpublish")
    /\ prev \subseteq jobs[j].done
    /\ prev' = cur
    /\ cur' = {}
    /\ Become(j, IdleJob)
    /\ cpu' = NoJob
    /\ UNCHANGED <<sessionVars, queue, files, diags, view, overlapped, conn>>

\* buxn_ls has returned while the analysis was suspended, which nothing
\* prevents: the analysis goes on with a context that is released.
ResumeAfterEnd(j) ==
    /\ phase = "ended"
    /\ Active(j)
    /\ phase' = "dangling"
    /\ UNCHANGED <<code, held, docs, timer, msgs, suppressed, analysisVars, conn>>
-----------------------------------------------------------------------------
\* The client closes the connection.  What follows is a failed receive or a
\* failed send, whichever coroutine is resumed first.
Disconnect ==
    /\ conn
    /\ phase \in {"initialize", "initialized", "running"}
    /\ cpu = NoJob
    /\ conn' = FALSE
    /\ UNCHANGED <<sessionVars, analysisVars>>

Message ==
    \/ RecvError
    \/ Initialize
    \/ InitializeWithoutRoot
    \/ Initialized
    \/ HandshakeExit
    \/ HandshakeInvalid
    \/ \E m \in Notifications : HandleTextDocument(m)
    \/ \E f \in Files : HandleCompletion(f)
    \/ HandleShutdown
    \/ HandleOther
    \/ HandleExit

Analyze(j) ==
    \/ NextEntry(j)
    \/ ReadEntry(j)
    \/ Include(j)
    \/ ReadLib(j)
    \/ Emit(j)
    \/ EndQueue(j)
    \/ PublishDiagnostic(j)
    \/ BeginMessage(j)
    \/ ReadPastEnd(j)
    \/ PublishLast(j)
    \/ Unpublish(j)
    \/ EndAnalysis(j)

Next ==
    \/ Message
    \/ Disconnect
    \/ \E j \in Jobs : StartAnalysis(j) \/ Analyze(j) \/ ResumeAfterEnd(j)

Spec == Init /\ [][Next]_vars

\* A pending timer fires and a suspended analysis is resumed; nothing obliges
\* the client to send a message or to disconnect.
Fairness ==
    /\ WF_vars(\E j \in Jobs : StartAnalysis(j))
    /\ \A j \in Jobs : WF_vars(Analyze(j))

FairSpec == Spec /\ Fairness
-----------------------------------------------------------------------------
(***************************************************************************)
(* Properties                                                              *)
(***************************************************************************)
\* The messages about uri u in a sequence of diagnostics
MessagesFor(s, u) == {s[k].msg : k \in {k \in DOMAIN s : s[k].uri = u}}

\* What the client should show for the open documents
Expected == [u \in Uris |->
    UNION {MessagesFor(Report[<<f, docs[f]>>], u) : f \in OpenDocs(docs)}]

Quiet == phase = "running" /\ ~timer /\ \A j \in Jobs : ~Active(j)

\* A file for which the client shows diagnostics is in one of the two sets of
\* diagnosed files, so a later analysis can unpublish it (ls.c moves uris from
\* the previous set to the current one while messages are being sent, and
\* swaps the sets at the end).  Analyses that overlap break this.
NoForgottenDiagnostics ==
    conn /\ ~overlapped => {u \in Uris : view[u] # {}} \subseteq prev \cup cur

\* Between analyses the previous set has the files the client shows diagnostics for
\* and no other, and the current one is empty: every uri is unpublished once, though
\* it has moved from set to set while messages were being sent, and none that was
\* freed stays in a set.
DiagnosedAsShown ==
    conn /\ ~overlapped /\ (\A j \in Jobs : ~Active(j)) =>
      /\ cur = {}
      /\ prev = {u \in Uris : view[u] # {}}

\* When no analysis is in progress or scheduled, the client shows exactly the
\* diagnostics of the open documents: no notification handled during an
\* analysis is lost, a document closed after it was queued leaves nothing
\* behind.  Not if a completion or shutdown request cancelled the last one.
InSync ==
    Quiet /\ conn /\ ~suppressed /\ ~overlapped => view = Expected

\* Whenever a message changes what the client shows for a file, it shows all
\* the diagnostics of the current analysis for that file: a file has one
\* message (diagnostics are sorted by uri), and it is cleared only if it has none.
PublishesWhole ==
    [][\A u \in Uris : view'[u] # view[u] =>
          overlapped \/ view'[u] = MessagesFor(diags, u)]_vars

\* While an analysis compiles, no other one clears the files it has opened:
\* the assertion of buxn_asm_put_symbol holds and the publishing loop stays
\* within the array.  Only analyses that do not overlap can rely on it.
NoAbort == ~overlapped => phase \notin {"aborted", "undefined"}

\* When the session has ended no timer is left that would run an analysis on
\* the context of buxn_ls, a local variable; and if the session was ever
\* running, what it held is released.
EndReleases ==
    phase = "ended" => /\ ~timer
                       /\ msgs > 0 => ~held

\* Once the client stops sending messages, the session settles with the client
\* showing the diagnostics of the open documents: a timer that is set fires,
\* an analysis that started ends.
Converges ==
    <>[](phase = "running" /\ conn /\ ~suppressed /\ ~overlapped => view = Expected)

\* put_symbol's assertion "Symbol comes from unopened file", taken as it stands
SymbolFromOpenFile == phase # "aborted"
=============================================================================
