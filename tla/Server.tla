------------------------------- MODULE Server -------------------------------
(***************************************************************************)
(* Server mode (src/server.c): one process that accepts connections and    *)
(* runs a session, buxn_ls, in a coroutine for each of them.               *)
(*                                                                         *)
(* Three kinds of coroutine share the state: server_entry, exit_handler    *)
(* and one ls_wrapper for each connection.  Each runs until it waits (for  *)
(* a connection, a signal, a coroutine or the closing of a socket), so     *)
(* what it does between two waits is one action.  A session is abstracted  *)
(* to its beginning and its end: see Session.                              *)
(*                                                                         *)
(* External, from how the code uses bio: a spawned coroutine runs when its *)
(* creator waits; accept fails once the listening socket is closed; a join *)
(* returns when the coroutine has ended.                                   *)
(***************************************************************************)
EXTENDS Naturals, FiniteSets

CONSTANTS Clients,  \* connections, and the coroutines that serve them
          Nobody

ASSUME ServerAssumption == Nobody \notin Clients

VARIABLES
    main,       \* what server_entry waits for
    exit,       \* exit_handler_coro
    terminate,  \* exit_ctx.should_terminate
    listening,  \* server_sock is open
    pending,    \* connections made and not yet accepted
    args,       \* args.client, a variable of the accepting loop
    ready,      \* args.ready_sig is raised
    coro,       \* the coroutines of ls_wrapper
    serves,     \* the connection each of them copied from args
    open,       \* accepted connections that are not closed
    clients,    \* ctx.clients
    joining,    \* the coroutine server_entry joins
    pool        \* the arena pool that the sessions share is not cleaned up

vars == <<main, exit, terminate, listening, pending, args, ready, coro, serves,
          open, clients, joining, pool>>

\* Every variable has a value of its kind, and a coroutine is there to join.
TypeOK ==
    /\ main \in {"listen", "accept", "ready", "close", "join", "joining", "exit",
                 "done", "failed"}
    /\ exit \in {"none", "waiting", "closing", "ended"}
    /\ terminate \in BOOLEAN
    /\ listening \in BOOLEAN
    /\ pending \subseteq Clients
    /\ args \in Clients \cup {Nobody}
    /\ ready \in BOOLEAN
    /\ coro \in [Clients -> {"none", "spawned", "serving", "closing", "ended"}]
    /\ serves \in [Clients -> Clients \cup {Nobody}]
    /\ open \subseteq Clients
    /\ clients \subseteq Clients
    /\ joining \in Clients \cup {Nobody}
    /\ main = "joining" => joining # Nobody
    /\ pool \in BOOLEAN

Init ==
    /\ main = "listen"
    /\ exit = "none"
    /\ terminate = FALSE
    /\ listening = FALSE
    /\ pending = {}
    /\ args = Nobody
    /\ ready = FALSE
    /\ coro = [c \in Clients |-> "none"]
    /\ serves = [c \in Clients |-> Nobody]
    /\ open = {}
    /\ clients = {}
    /\ joining = Nobody
    /\ pool = TRUE

-----------------------------------------------------------------------------
(***************************************************************************)
(* server_entry                                                            *)
(***************************************************************************)
Listen ==
    /\ main = "listen"
    /\ main' = "accept"
    /\ listening' = TRUE
    /\ exit' = "waiting"
    /\ UNCHANGED <<terminate, pending, args, ready, coro, serves, open, clients,
                   joining, pool>>

\* "Could not listen": the process returns with the pool as it is.
ListenError ==
    /\ main = "listen"
    /\ main' = "failed"
    /\ UNCHANGED <<exit, terminate, listening, pending, args, ready, coro, serves,
                   open, clients, joining, pool>>

\* A client connects.
Connect(c) ==
    /\ listening
    /\ coro[c] = "none"
    /\ c \notin pending
    /\ pending' = pending \cup {c}
    /\ UNCHANGED <<main, exit, terminate, listening, args, ready, coro, serves,
                   open, clients, joining, pool>>

Accept(c) ==
    /\ main = "accept"
    /\ listening
    /\ c \in pending
    /\ pending' = pending \ {c}
    /\ open' = open \cup {c}
    /\ args' = c
    /\ ready' = FALSE
    /\ coro' = [coro EXCEPT ![c] = "spawned"]
    /\ clients' = clients \cup {c}
    /\ main' = "ready"
    /\ UNCHANGED <<exit, terminate, listening, serves, joining, pool>>

\* Accept fails: the socket is closed, or there is an error.
LeaveLoop ==
    /\ main' = "close"
    /\ UNCHANGED <<exit, terminate, listening, pending, args, ready, coro, serves,
                   open, clients, joining, pool>>

AcceptClosed == main = "accept" /\ ~listening /\ LeaveLoop

AcceptError == main = "accept" /\ listening /\ LeaveLoop

\* Mutant of WaitReady: the loop goes on at once.
WaitReadyNot ==
    /\ main = "ready"
    /\ main' = IF terminate THEN "close" ELSE "accept"
    /\ UNCHANGED <<exit, terminate, listening, pending, args, ready, coro, serves,
                   open, clients, joining, pool>>

\* The wrapper has copied its arguments: the loop tests should_terminate.
WaitReady ==
    /\ main = "ready"
    /\ ready
    /\ main' = IF terminate THEN "close" ELSE "accept"
    /\ UNCHANGED <<exit, terminate, listening, pending, args, ready, coro, serves,
                   open, clients, joining, pool>>

CloseServer ==
    /\ main = "close"
    /\ main' = "join"
    /\ listening' = FALSE
    /\ UNCHANGED <<exit, terminate, pending, args, ready, coro, serves, open,
                   clients, joining, pool>>

\* Mutant of JoinClients: the first key is joined before the length is tested.
JoinClientsFirst ==
    /\ main = "join"
    /\ joining' \in IF clients = {} THEN {Nobody} ELSE clients
    /\ main' = "joining"
    /\ UNCHANGED <<exit, terminate, listening, pending, args, ready, coro, serves,
                   open, clients, pool>>

\* The loop that waits for the sessions: clients.keys[0] may be any of them.
JoinClients ==
    /\ main = "join"
    /\ \/ /\ clients # {}
          /\ joining' \in clients
          /\ main' = "joining"
       \/ /\ clients = {}
          /\ main' = "exit"
          /\ UNCHANGED joining
    /\ UNCHANGED <<exit, terminate, listening, pending, args, ready, coro, serves,
                   open, clients, pool>>

\* Mutant of Joined: the sessions are joined once and not until none is left.
JoinedOnce ==
    /\ main = "joining"
    /\ coro[joining] = "ended"
    /\ main' = "exit"
    /\ UNCHANGED <<exit, terminate, listening, pending, args, ready, coro, serves,
                   open, clients, joining, pool>>

Joined ==
    /\ main = "joining"
    /\ coro[joining] = "ended"
    /\ main' = "join"
    /\ UNCHANGED <<exit, terminate, listening, pending, args, ready, coro, serves,
                   open, clients, joining, pool>>

\* exit_handler_coro is joined and the pool cleaned up.
JoinExit ==
    /\ main = "exit"
    /\ exit = "ended"
    /\ pool' = FALSE
    /\ main' = "done"
    /\ UNCHANGED <<exit, terminate, listening, pending, args, ready, coro, serves,
                   open, clients, joining>>

-----------------------------------------------------------------------------
(***************************************************************************)
(* exit_handler                                                            *)
(***************************************************************************)
ExitSignal ==
    /\ exit = "waiting"
    /\ exit' = "closing"
    /\ terminate' = TRUE
    /\ UNCHANGED <<main, listening, pending, args, ready, coro, serves, open,
                   clients, joining, pool>>

ExitClose ==
    /\ exit = "closing"
    /\ exit' = "ended"
    /\ listening' = FALSE
    /\ UNCHANGED <<main, terminate, pending, args, ready, coro, serves, open,
                   clients, joining, pool>>

-----------------------------------------------------------------------------
(***************************************************************************)
(* ls_wrapper                                                              *)
(***************************************************************************)
WrapperStart(c) ==
    /\ coro[c] = "spawned"
    /\ coro' = [coro EXCEPT ![c] = "serving"]
    /\ serves' = [serves EXCEPT ![c] = args]
    /\ ready' = TRUE
    /\ UNCHANGED <<main, exit, terminate, listening, pending, args, open, clients,
                   joining, pool>>

\* buxn_ls returns; the connection is being closed.
SessionEnd(c) ==
    /\ coro[c] = "serving"
    /\ coro' = [coro EXCEPT ![c] = "closing"]
    /\ UNCHANGED <<main, exit, terminate, listening, pending, args, ready, serves,
                   open, clients, joining, pool>>

\* Mutant of WrapperEnd: the coroutine stays in the set of clients.
WrapperEndKeep(c) ==
    /\ coro[c] = "closing"
    /\ coro' = [coro EXCEPT ![c] = "ended"]
    /\ open' = open \ {serves[c]}
    /\ UNCHANGED <<main, exit, terminate, listening, pending, args, ready, serves,
                   clients, joining, pool>>

WrapperEnd(c) ==
    /\ coro[c] = "closing"
    /\ coro' = [coro EXCEPT ![c] = "ended"]
    /\ open' = open \ {serves[c]}
    /\ clients' = clients \ {c}
    /\ UNCHANGED <<main, exit, terminate, listening, pending, args, ready, serves,
                   joining, pool>>

-----------------------------------------------------------------------------
Main == WaitReady \/ AcceptClosed \/ CloseServer \/ JoinClients \/ Joined \/ JoinExit

Next ==
    \/ Listen
    \/ ListenError
    \/ AcceptError
    \/ Main
    \/ ExitSignal
    \/ ExitClose
    \/ \E c \in Clients : \/ Connect(c)
                          \/ Accept(c)
                          \/ WrapperStart(c)
                          \/ SessionEnd(c)
                          \/ WrapperEnd(c)

Spec == Init /\ [][Next]_vars

\* A coroutine is resumed when what it waits for has happened.  Nothing obliges
\* a client to leave, a session to end or the signal to exit to be raised.
FairSpec ==
    /\ Spec
    /\ WF_vars(Main)
    /\ WF_vars(ExitClose)
    /\ \A c \in Clients : WF_vars(WrapperStart(c)) /\ WF_vars(WrapperEnd(c))

-----------------------------------------------------------------------------
(***************************************************************************)
(* Properties                                                              *)
(***************************************************************************)
\* Two sessions never share a connection, though each wrapper copies it from a
\* variable of the accepting loop that the next connection overwrites.
OwnConnection ==
    \A c, d \in Clients :
        coro[c] = "serving" /\ coro[d] = "serving" /\ serves[c] = serves[d] => c = d

\* The arena pool is cleaned up when no session can use it any more, no
\* connection is open and the listening socket is closed.
ReturnsClean ==
    ~pool => /\ \A c \in Clients : coro[c] \in {"none", "ended"}
             /\ open = {}
             /\ ~listening

\* Once the signal to exit is raised and all sessions end, the server returns,
\* even when a session ends, or a connection is accepted, while it shuts down.
Returns ==
    <>terminate /\ <>[](\A c \in Clients : coro[c] # "serving") => <>(main = "done")
=============================================================================
