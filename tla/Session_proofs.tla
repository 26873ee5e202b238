--------------------------- MODULE Session_proofs ---------------------------
(***************************************************************************)
(* Proofs about Session, for any number of clients and sockets.            *)
(*                                                                         *)
(* LockMatchesSessions, OwnEntry and CloseAlone are not inductive: the     *)
(* lock needs what "exec" means for the flags (ExecInv), the list of       *)
(* clients needs that the sockets of sessions are open and distinct        *)
(* (SockInv).                                                              *)
(***************************************************************************)
EXTENDS Session, TLAPS

Holding == Before \cup {"count", "close"}

\* An executing session owns the lock; one that waits for it, or has rolled
\* back, has no engine transaction; uncommitted changes belong to an explicit one.
ExecInv ==
  \A c \in Clients :
    /\ pc[c] = "exec" => lock = c /\ started[c] = inTxn[c]
    /\ pc[c] \in {"lock", "erase"} => ~started[c]
    /\ changed /\ lock = c => started[c]

\* The sockets of sessions are open, and no two sessions share one.
SockInv ==
  /\ \A c \in Clients : pc[c] \in Holding => sock[c] \in open
  /\ \A c, d \in Clients : pc[c] \in Holding /\ pc[d] \in Holding /\ sock[c] = sock[d] => c = d

LockInv == LockMatchesSessions /\ ExecInv
ListInv == OwnEntry /\ SockInv
Inv == TypeOK /\ LockInv /\ ListInv /\ CloseAlone

USE DEF Before, After

\* The initial state: nobody is connected.
LEMMA InitInv == Init => Inv
<1> SUFFICES ASSUME Init PROVE Inv
  OBVIOUS
<1>1. TypeOK
  <2>1. /\ inTxn \in [Clients -> BOOLEAN] /\ started \in [Clients -> BOOLEAN]
        /\ failed \in [Clients -> BOOLEAN] /\ changed \in BOOLEAN /\ running \in BOOLEAN
    BY Zenon DEF Init
  <2>2. rows \in [Clients -> 0..MaxRows]
    BY ConstantsOK DEF Init
  <2> QED BY <2>1, <2>2 DEF Init, TypeOK
<1>2. LockInv /\ CloseAlone
  BY DEF Init, LockInv, LockMatchesSessions, ExecInv, CloseAlone
<1>3. ListInv
  BY DEF Init, ListInv, OwnEntry, SockInv, Holding
<1> QED BY <1>1, <1>2, <1>3 DEF Inv

\* A Boolean flag of one session changes.
LEMMA FlagType ==
  ASSUME NEW f \in [Clients -> BOOLEAN], NEW c \in Clients, NEW b \in BOOLEAN
  PROVE  [f EXCEPT ![c] = b] \in [Clients -> BOOLEAN]
OBVIOUS

\* rollback_session_txn keeps the types of what it changes.
LEMMA RollbackType ==
  ASSUME TypeOK, NEW c \in Clients, RollbackSession(c)
  PROVE  /\ inTxn' \in [Clients -> BOOLEAN] /\ started' \in [Clients -> BOOLEAN]
         /\ lock' \in Clients \cup {None} /\ changed' \in BOOLEAN
<1>1. inTxn' \in [Clients -> BOOLEAN] /\ started' \in [Clients -> BOOLEAN]
  BY FlagType DEF RollbackSession, TypeOK
<1>2. lock' \in Clients \cup {None} /\ changed' \in BOOLEAN
  BY DEF RollbackSession, TypeOK, engine
<1> QED BY <1>1, <1>2

\* A reply keeps the types of what it changes.
LEMMA ReplyType ==
  ASSUME TypeOK, NEW c \in Clients, NEW err \in BOOLEAN, Reply(c, err)
  PROVE  /\ pc' \in [Clients -> Before \cup After \cup {"none", "gone"}]
         /\ failed' \in [Clients -> BOOLEAN]
         /\ stmt' \in [Clients -> {"none", "read", "write"}]
         /\ rows' \in [Clients -> 0..MaxRows]
<1>1. failed' \in [Clients -> BOOLEAN]
  BY FlagType DEF Reply, TypeOK
<1>2. pc' \in [Clients -> Before \cup After \cup {"none", "gone"}]
  BY DEF Reply, Loop, TypeOK
<1>3. /\ stmt' \in [Clients -> {"none", "read", "write"}]
      /\ rows' \in [Clients -> 0..MaxRows]
  BY ConstantsOK DEF Reply, TypeOK
<1> QED BY <1>1, <1>2, <1>3

\* Every step keeps the types of the server's state.
LEMMA TypeStep == Inv /\ [Next]_vars => TypeOK'
<1> SUFFICES ASSUME Inv, [Next]_vars PROVE TypeOK'
  OBVIOUS
<1> USE ConstantsOK DEF Inv, TypeOK
<1>1. ASSUME NEW c \in Clients, Request(c) PROVE TypeOK'
  <2>1. CASE ParseError(c)
    BY <2>1, RollbackType, ReplyType DEF ParseError, At, server
  <2>2. CASE BeginStmt(c)
    <3> inTxn[c] \in BOOLEAN
      OBVIOUS
    <3>1. CASE inTxn[c]
      BY <2>2, <3>1, RollbackType, ReplyType DEF BeginStmt, At, server
    <3>2. CASE ~inTxn[c]
      <4>1. inTxn' \in [Clients -> BOOLEAN]
        BY <2>2, <3>2, FlagType DEF BeginStmt
      <4>2. Reply(c, inTxn[c])
        BY <2>2 DEF BeginStmt
      <4> QED BY <2>2, <3>2, <4>1, <4>2, ReplyType DEF BeginStmt, server, engine
    <3> QED BY <3>1, <3>2
  <2>3. CASE EndStmt(c)
    BY <2>3, RollbackType, ReplyType DEF EndStmt, At, server
  <2>4. CASE ForbiddenStmt(c)
    BY <2>4, RollbackType, ReplyType DEF ForbiddenStmt, At, server
  <2>5. ASSUME NEW kind \in {"read", "write"}, ExecStatement(c, kind) PROVE TypeOK'
    BY <2>5 DEF ExecStatement, RollbackSession, Reply, Loop, At, Autocommit, engine, server, session
  <2> QED BY <1>1, <2>1, <2>2, <2>3, <2>4, <2>5 DEF Request
<1>2. ASSUME NEW c \in Clients, Work(c) PROVE TypeOK'
  <2>1. CASE BeginTxn(c)
    BY <2>1 DEF BeginTxn, RollbackSession, Reply, Loop, At, Autocommit, engine, server, session
  <2>2. CASE ExecError(c)
    <3>1. inTxn' \in [Clients -> BOOLEAN] /\ started' \in [Clients -> BOOLEAN]
      BY <2>2, FlagType DEF ExecError
    <3> QED BY <2>2, <3>1, ReplyType DEF ExecError, At, server
  <2>3. CASE ExecWrite(c)
    BY <2>3 DEF ExecWrite, RollbackSession, Reply, Loop, At, Autocommit, engine, server, session
  <2>4. CASE ExecSelect(c)
    BY <2>4 DEF ExecSelect, RollbackSession, Reply, Loop, At, Autocommit, engine, server, session
  <2>5. CASE Leave(c)
    <3>1. failed' \in [Clients -> BOOLEAN]
      BY <2>5, FlagType DEF Leave
    <3> QED BY <2>5, <3>1, RollbackType DEF Leave, At, server
  <2>6. CASE EraseClient(c)
    BY <2>6 DEF EraseClient, RollbackSession, Reply, Loop, At, Autocommit, engine, server, session
  <2>7. CASE CountClients(c)
    BY <2>7 DEF CountClients, RollbackSession, Reply, Loop, At, Autocommit, engine, server, session
  <2>8. CASE CloseSocket(c)
    BY <2>8 DEF CloseSocket, RollbackSession, Reply, Loop, At, Autocommit, engine, server, session
  <2>9. CASE Notify(c)
    BY <2>9 DEF Notify, RollbackSession, Reply, Loop, At, Autocommit, engine, server, session
  <2> QED BY <1>2, <2>1, <2>2, <2>3, <2>4, <2>5, <2>6, <2>7, <2>8, <2>9 DEF Work
<1>3. ASSUME NEW c \in Clients, Peer(c) PROVE TypeOK'
  <2>1. CASE StreamRow(c)
    BY <2>1 DEF StreamRow, RollbackSession, Reply, Loop, At, Autocommit, engine, server, session
  <2>2. CASE StreamEnd(c)
    BY <2>2 DEF StreamEnd, RollbackSession, Reply, Loop, At, Autocommit, engine, server, session
  <2>3. CASE StreamError(c)
    BY <2>3 DEF StreamError, RollbackSession, Reply, Loop, At, Autocommit, engine, server, session
  <2>4. CASE SendFails(c)
    BY <2>4 DEF SendFails, RollbackSession, Reply, Loop, At, Autocommit, engine, server, session
  <2>5. CASE Disconnect(c)
    BY <2>5 DEF Disconnect, RollbackSession, Reply, Loop, At, Autocommit, engine, server, session
  <2> QED BY <1>3, <2>1, <2>2, <2>3, <2>4, <2>5 DEF Peer
<1>4. ASSUME NEW c \in Clients, NEW fd \in Socks, Accept(c, fd) PROVE TypeOK'
  BY <1>4 DEF Accept, engine, session
<1>5. ASSUME Main \/ Wake \/ ControlShutdown \/ Signal \/ MainTimeout PROVE TypeOK'
  <2>1. CASE MainShutdown
    BY <2>1 DEF MainShutdown, engine, session
  <2>2. CASE ~MainShutdown
    BY <1>5, <2>2 DEF Main, MainCheck, MainPoll, MainDrained, MainClose, Wake, ControlShutdown, Signal,
       MainTimeout, engine, session
  <2> QED BY <2>1, <2>2
<1>6. CASE UNCHANGED vars
  BY <1>6 DEF vars, engine, server, session
<1> QED BY <1>1, <1>2, <1>3, <1>4, <1>5, <1>6 DEF Next

\* Every step keeps the lock and the sessions' flags in step.
LEMMA LockStep == Inv /\ [Next]_vars => LockInv'
<1> SUFFICES ASSUME Inv, [Next]_vars PROVE LockInv'
  OBVIOUS
<1> USE ConstantsOK DEF Inv, TypeOK, LockInv, LockMatchesSessions, ExecInv
<1>1. ASSUME NEW c \in Clients, Request(c) PROVE LockInv'
  <2>1. CASE ParseError(c) \/ BeginStmt(c)
    BY <2>1 DEF ParseError, BeginStmt, RollbackSession, Reply, Loop, At, engine
  <2>2. CASE EndStmt(c) \/ ForbiddenStmt(c)
    BY <2>2 DEF EndStmt, ForbiddenStmt, RollbackSession, Reply, Loop, At, engine
  <2>3. ASSUME NEW kind \in {"read", "write"}, ExecStatement(c, kind) PROVE LockInv'
    BY <2>3 DEF ExecStatement, At, engine
  <2> QED BY <1>1, <2>1, <2>2, <2>3 DEF Request
<1>2. ASSUME NEW c \in Clients, Work(c) PROVE LockInv'
  <2>1. CASE BeginTxn(c)
    BY <2>1 DEF BeginTxn, At
  <2>2. CASE ExecError(c)
    BY <2>2 DEF ExecError, Reply, Loop, At
  <2>3. CASE ExecWrite(c)
    BY <2>3 DEF ExecWrite, Autocommit, Reply, Loop, At
  <2>4. CASE ExecSelect(c)
    BY <2>4 DEF ExecSelect, Autocommit, At
  <2>5. CASE Leave(c)
    BY <2>5 DEF Leave, RollbackSession, At, engine
  <2>6. CASE EraseClient(c) \/ CountClients(c) \/ CloseSocket(c) \/ Notify(c)
    BY <2>6 DEF EraseClient, CountClients, CloseSocket, Notify, At, engine, session
  <2> QED BY <1>2, <2>1, <2>2, <2>3, <2>4, <2>5, <2>6 DEF Work
<1>3. ASSUME NEW c \in Clients, Peer(c) PROVE LockInv'
  BY <1>3 DEF Peer, StreamRow, StreamEnd, StreamError, SendFails, Disconnect, Reply, Loop, At, engine,
     session
<1>4. ASSUME NEW c \in Clients, NEW fd \in Socks, Accept(c, fd) PROVE LockInv'
  BY <1>4 DEF Accept, engine, session
<1>5. ASSUME Main \/ Wake \/ ControlShutdown \/ Signal \/ MainTimeout PROVE LockInv'
  BY <1>5 DEF Main, MainCheck, MainPoll, MainShutdown, MainDrained, MainClose, Wake, ControlShutdown,
     Signal, MainTimeout, engine, session
<1>6. CASE UNCHANGED vars
  BY <1>6 DEF vars, engine, session
<1> QED BY <1>1, <1>2, <1>3, <1>4, <1>5, <1>6 DEF Next

\* A step that moves sessions only within Before keeps the list.
LEMMA SameSessions ==
  ASSUME Inv, UNCHANGED <<sock, clients, open>>,
         \A c \in Clients : pc[c] \in Before <=> pc'[c] \in Before,
         \A c \in Clients : pc'[c] \in Holding => pc[c] \in Holding
  PROVE  ListInv'
BY DEF Inv, TypeOK, ListInv, OwnEntry, SockInv, Entry

\* Every step keeps the list of clients and the sockets in step.
LEMMA ListStep == Inv /\ [Next]_vars => ListInv'
<1> SUFFICES ASSUME Inv, [Next]_vars PROVE ListInv'
  OBVIOUS
<1>1. ASSUME NEW c \in Clients, Request(c) \/ Peer(c) PROVE ListInv'
  <2> SUFFICES /\ UNCHANGED <<sock, clients, open>>
               /\ \A d \in Clients : pc[d] \in Before <=> pc'[d] \in Before
               /\ \A d \in Clients : pc'[d] \in Holding => pc[d] \in Holding
    BY SameSessions
  <2> QED
    BY <1>1 DEF Request, ParseError, BeginStmt, EndStmt, ForbiddenStmt, ExecStatement, Peer, StreamRow,
       StreamEnd, StreamError, SendFails, Disconnect, Reply, Loop, At, server, Inv, TypeOK, Holding
<1>2. ASSUME NEW c \in Clients, BeginTxn(c) \/ ExecError(c) \/ ExecWrite(c) \/ ExecSelect(c) \/ Leave(c)
                                \/ CountClients(c)
      PROVE  ListInv'
  <2> SUFFICES /\ UNCHANGED <<sock, clients, open>>
               /\ \A d \in Clients : pc[d] \in Before <=> pc'[d] \in Before
               /\ \A d \in Clients : pc'[d] \in Holding => pc[d] \in Holding
    BY SameSessions
  <2> QED
    BY <1>2 DEF BeginTxn, ExecError, ExecWrite, ExecSelect, Leave, CountClients, Reply, Loop, At, server,
       Inv, TypeOK, Holding
<1>3. ASSUME NEW c \in Clients, EraseClient(c) PROVE ListInv'
  <2>1. pc[c] = "erase" /\ pc' = [pc EXCEPT ![c] = "count"] /\ UNCHANGED <<sock, open>>
    BY <1>3 DEF EraseClient, At
  <2>2. Entry(c) \in clients /\ \A x \in clients : x.sock = sock[c] => x = Entry(c)
    BY <2>1 DEF Inv, ListInv, OwnEntry, Entry
  <2>3. clients' = clients \ {Entry(c)}
    BY <1>3, <2>2 DEF EraseClient, Entry
  <2> QED
    BY <2>1, <2>3 DEF Inv, TypeOK, ListInv, OwnEntry, SockInv, Entry, Holding
<1>4. ASSUME NEW c \in Clients, CloseSocket(c) \/ Notify(c) PROVE ListInv'
  <2>1. /\ pc[c] \in {"close", "notify"} /\ UNCHANGED clients
        /\ \E w \in {"notify", "gone"} : pc' = [pc EXCEPT ![c] = w]
        /\ \A d \in Clients \ {c} : sock'[d] = sock[d]
        /\ open' = open \/ (pc[c] = "close" /\ open' = open \ {sock[c]})
    BY <1>4 DEF CloseSocket, Notify, At, server, Inv, TypeOK
  <2> QED
    BY <2>1 DEF Inv, TypeOK, ListInv, OwnEntry, SockInv, Entry, Holding
<1>5. ASSUME NEW c \in Clients, NEW fd \in Socks, Accept(c, fd) PROVE ListInv'
  <2>1. CASE Cardinality(clients) >= MaxClients
    BY <1>5, <2>1, SameSessions DEF Accept, Inv, TypeOK, Holding
  <2>2. CASE ~(Cardinality(clients) >= MaxClients)
    <3>1. /\ pc[c] = "none" /\ fd \notin open
          /\ pc' = [pc EXCEPT ![c] = "recv"] /\ sock' = [sock EXCEPT ![c] = fd]
          /\ clients' = clients \cup {[sock |-> fd, id |-> c]} /\ open' = open \cup {fd}
      BY <1>5, <2>2 DEF Accept
    <3> QED
      BY <3>1 DEF Inv, TypeOK, ListInv, OwnEntry, SockInv, Entry, Holding
  <2> QED BY <2>1, <2>2
<1>6. ASSUME Main \/ Wake \/ ControlShutdown \/ Signal \/ MainTimeout \/ UNCHANGED vars PROVE ListInv'
  <2>1. UNCHANGED <<pc, sock, clients, open>>
    BY <1>6 DEF Main, MainCheck, MainPoll, MainShutdown, MainDrained, MainClose, Wake, ControlShutdown,
       Signal, MainTimeout, vars, server
  <2> QED BY <2>1, SameSessions
<1> QED BY <1>1, <1>2, <1>3, <1>4, <1>5, <1>6 DEF Next, Work

\* Every step keeps the closed engine alone.
LEMMA CloseStep == Inv /\ [Next]_vars => CloseAlone'
<1> SUFFICES ASSUME Inv, [Next]_vars PROVE CloseAlone'
  OBVIOUS
<1> USE DEF Inv, TypeOK, CloseAlone
<1>1. ASSUME NEW c \in Clients, Request(c) \/ Peer(c) PROVE CloseAlone'
  BY <1>1 DEF Request, ParseError, BeginStmt, EndStmt, ForbiddenStmt, ExecStatement, Peer, StreamRow,
     StreamEnd, StreamError, SendFails, Disconnect, At, server
<1>2. ASSUME NEW c \in Clients, Work(c) PROVE CloseAlone'
  BY <1>2 DEF Work, BeginTxn, ExecError, ExecWrite, ExecSelect, Leave, EraseClient, CountClients,
     CloseSocket, Notify, At, server, engine
<1>3. ASSUME NEW c \in Clients, NEW fd \in Socks, Accept(c, fd) PROVE CloseAlone'
  BY <1>3 DEF Accept
<1>4. CASE MainDrained
  <2>1. clients = {} /\ UNCHANGED <<pc, lock>>
    BY <1>4 DEF MainDrained, engine
  <2>2. \A c \in Clients : pc[c] \notin Before
    <3>1. \A c \in Clients : pc[c] \in Before => Entry(c) \in clients
      BY DEF ListInv, OwnEntry
    <3> QED BY <2>1, <3>1
  <2>3. lock = None
    BY <2>2 DEF LockInv, LockMatchesSessions
  <2> QED BY <2>1, <2>2, <2>3
<1>5. ASSUME Main \/ Wake \/ ControlShutdown \/ Signal \/ MainTimeout, ~MainDrained PROVE CloseAlone'
  BY <1>5 DEF Main, MainCheck, MainPoll, MainShutdown, MainClose, Wake, ControlShutdown, Signal,
     MainTimeout, engine
<1>6. CASE UNCHANGED vars
  BY <1>6 DEF vars, engine, server
<1> QED BY <1>1, <1>2, <1>3, <1>4, <1>5, <1>6 DEF Next

\* The session invariant holds in every reachable state, for any number of
\* clients, sockets and statements (handle_client, remove_client, main).
THEOREM SessionInvariant == Spec => []Inv
<1>1. Inv /\ [Next]_vars => Inv'
  BY TypeStep, LockStep, ListStep, CloseStep DEF Inv
<1> QED BY InitInv, <1>1, PTL DEF Spec

\* Sessions' flags and the catalog's lock never disagree.
THEOREM LockHolds == Spec => []LockMatchesSessions
<1>1. Inv => LockMatchesSessions
  BY DEF Inv, LockInv
<1> QED BY SessionInvariant, <1>1, PTL

\* No session loses its entry in the clients vector to another one.
THEOREM EntriesHold == Spec => []OwnEntry
<1>1. Inv => OwnEntry
  BY DEF Inv, ListInv
<1> QED BY SessionInvariant, <1>1, PTL

\* The engine is closed only when no session can reach it any more.
THEOREM CloseIsAlone == Spec => []CloseAlone
<1>1. Inv => CloseAlone
  BY DEF Inv
<1> QED BY SessionInvariant, <1>1, PTL

=============================================================================
