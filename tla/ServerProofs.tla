---------------------------- MODULE ServerProofs ----------------------------
(***************************************************************************)
(* Theorems about Server, for any set of connections.                      *)
(***************************************************************************)
EXTENDS Server, TLAPS

\* A wrapper that has not copied its arguments has the loop wait for it, and
\* finds its own connection in them.
SlotInv ==
    \A c \in Clients : coro[c] = "spawned" => main = "ready" /\ ~ready /\ args = c

ServesInv ==
    \A c \in Clients : coro[c] \in {"serving", "closing", "ended"} => serves[c] = c

\* The set of clients, the open connections and the live coroutines agree.
ClientsInv ==
    /\ clients = {c \in Clients : coro[c] \in {"spawned", "serving", "closing"}}
    /\ open = clients

ShutdownInv ==
    /\ main \in {"join", "joining", "exit", "done"} => ~listening
    /\ main \in {"exit", "done"} => clients = {}
    /\ ~pool => main = "done"

ServerInv == TypeOK /\ SlotInv /\ ServesInv /\ ClientsInv /\ ShutdownInv

LEMMA ServerInit == Init => ServerInv
BY DEF Init, ServerInv, TypeOK, SlotInv, ServesInv, ClientsInv, ShutdownInv

LEMMA ServerStep == ServerInv /\ [Next]_vars => ServerInv'
<1> SUFFICES ASSUME ServerInv, [Next]_vars PROVE ServerInv'
  OBVIOUS
<1>0. TypeOK /\ SlotInv /\ ServesInv /\ ClientsInv /\ ShutdownInv
  BY DEF ServerInv
<1> USE DEF ServerInv, TypeOK, SlotInv, ServesInv, ClientsInv, ShutdownInv
<1>1. CASE Listen \/ ListenError
  BY <1>0, <1>1 DEF Listen, ListenError
<1>2. CASE AcceptError \/ AcceptClosed
  BY <1>0, <1>2 DEF AcceptError, AcceptClosed, LeaveLoop
<1>3. CASE WaitReady \/ CloseServer
  BY <1>0, <1>3 DEF WaitReady, CloseServer
<1>4. CASE JoinClients
  <2>1. UNCHANGED <<exit, terminate, listening, pending, args, ready, coro, serves,
                    open, clients, pool>>
    BY <1>4 DEF JoinClients
  <2>2. main = "join" /\ joining' \in Clients \cup {Nobody}
    BY <1>0, <1>4 DEF JoinClients
  <2>3. \/ main' = "joining" /\ joining' # Nobody
        \/ main' = "exit" /\ clients = {}
    BY <1>0, <1>4, ServerAssumption DEF JoinClients
  <2>4. QED
    BY <1>0, <2>1, <2>2, <2>3
<1>5. CASE Joined \/ JoinExit
  <2>1. CASE Joined
    BY <1>0, <2>1 DEF Joined
  <2>2. CASE JoinExit
    BY <1>0, <2>2 DEF JoinExit
  <2>3. QED
    BY <1>5, <2>1, <2>2
<1>6. CASE ExitSignal \/ ExitClose
  <2>1. CASE ExitSignal
    BY <1>0, <2>1 DEF ExitSignal
  <2>2. CASE ExitClose
    BY <1>0, <2>2 DEF ExitClose
  <2>3. QED
    BY <1>6, <2>1, <2>2
<1>7. ASSUME NEW c \in Clients, Connect(c) PROVE ServerInv'
  BY <1>0, <1>7 DEF Connect
<1>8. ASSUME NEW c \in Clients, Accept(c) PROVE ServerInv'
  <2>1. /\ main = "accept" /\ main' = "ready" /\ ready' = FALSE /\ args' = c
        /\ coro' = [coro EXCEPT ![c] = "spawned"]
        /\ open' = open \cup {c} /\ clients' = clients \cup {c}
        /\ UNCHANGED <<exit, terminate, listening, serves, joining, pool>>
    BY <1>8 DEF Accept
  <2>2. TypeOK'
    BY <1>0, <1>8, <2>1 DEF Accept
  <2>3. SlotInv' /\ ServesInv' /\ ShutdownInv'
    BY <1>0, <2>1
  <2>4. ClientsInv'
    BY <1>0, <2>1
  <2>5. QED
    BY <2>2, <2>3, <2>4
<1>9. ASSUME NEW c \in Clients, WrapperStart(c) PROVE ServerInv'
  <2>1. /\ coro[c] = "spawned" /\ args = c /\ ready' = TRUE
        /\ coro' = [coro EXCEPT ![c] = "serving"]
        /\ serves' = [serves EXCEPT ![c] = args]
        /\ UNCHANGED <<main, exit, terminate, listening, pending, args, open, clients,
                       joining, pool>>
    BY <1>0, <1>9 DEF WrapperStart
  <2>2. TypeOK' /\ ServesInv' /\ ShutdownInv' /\ ClientsInv'
    BY <1>0, <2>1
  <2>3. SlotInv'
    BY <1>0, <2>1
  <2>4. QED
    BY <2>2, <2>3
<1>10. ASSUME NEW c \in Clients, SessionEnd(c) PROVE ServerInv'
  BY <1>0, <1>10 DEF SessionEnd
<1>11. ASSUME NEW c \in Clients, WrapperEnd(c) PROVE ServerInv'
  <2>1. serves[c] = c
    BY <1>0, <1>11 DEF WrapperEnd
  <2>2. QED
    BY <1>0, <1>11, <2>1 DEF WrapperEnd
<1>12. CASE UNCHANGED vars
  BY <1>0, <1>12 DEF vars
<1>13. QED
  BY <1>1, <1>2, <1>3, <1>4, <1>5, <1>6, <1>7, <1>8, <1>9, <1>10, <1>11, <1>12
  DEF Next, Main

\* The variables of a server keep their types, and the loop that joins the sessions
\* always has one to join.
THEOREM ServerTypeCorrect == Spec => []TypeOK
<1>1. ServerInv => TypeOK
  BY DEF ServerInv
<1>2. QED
  BY ServerInit, ServerStep, <1>1, PTL DEF Spec

\* Two sessions of one server never share a connection.
THEOREM NeverShared == Spec => []OwnConnection
<1>1. ServerInv => OwnConnection
  BY DEF ServerInv, ServesInv, OwnConnection
<1>2. QED
  BY ServerInit, ServerStep, <1>1, PTL DEF Spec

\* The server cleans up the arena pool of its sessions only after the last one.
THEOREM AlwaysClean == Spec => []ReturnsClean
<1>1. ServerInv => ReturnsClean
  BY DEF ServerInv, TypeOK, ClientsInv, ShutdownInv, ReturnsClean
<1>2. QED
  BY ServerInit, ServerStep, <1>1, PTL DEF Spec
=============================================================================
