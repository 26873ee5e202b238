------------------------------ MODULE Session ------------------------------
(***************************************************************************)
(* The server process: one thread per client (src/server/session.cpp), the *)
(* main thread (src/server/server.cpp) and the catalog's global lock, held *)
(* for the length of a transaction (src/catalog/catalog.cpp).              *)
(*                                                                         *)
(* Statements are atomic here: they run inside the lock. What a            *)
(* transaction does to the data is only "changed": are there uncommitted   *)
(* changes in the buffer pool? Clients never come back under the same id.  *)
(***************************************************************************)
EXTENDS Integers, FiniteSets

CONSTANTS
  Clients,      \* connections, named by client_id
  Socks,        \* socket descriptors
  MaxClients,   \* MAX_CLIENTS
  MaxRows,      \* rows of a result set
  None          \* nobody

ASSUME ConstantsOK ==
  /\ None \notin Clients /\ None \notin Socks
  /\ MaxClients \in Nat /\ MaxRows \in Nat

VARIABLES
  pc,         \* where each client's thread is
  sock,       \* its socket
  stmt,       \* the statement it executes
  inTxn,      \* SessionCtx::in_txn
  started,    \* SessionCtx::txn_started
  rows,       \* rows its result stream has left
  failed,     \* history: was the last reply an error?
  lock,       \* owner of Catalog::mutex_
  changed,    \* uncommitted changes in the pool
  clients,    \* the clients vector
  open,       \* open sockets
  shut,       \* sockets shut down by the main thread
  running,    \* server_running
  main        \* where the main thread is

session == <<stmt, inTxn, started, rows, failed>>
engine  == <<lock, changed>>
server  == <<clients, open, shut, running, main>>
vars    == <<pc, sock, session, engine, server>>

Before == {"recv", "lock", "exec", "stream", "leave", "erase"}   \* its entry is in clients
After  == {"count", "close", "notify"}                           \* the rest of remove_client

-----------------------------------------------------------------------------
Init ==
  /\ pc = [c \in Clients |-> "none"] /\ sock = [c \in Clients |-> None]
  /\ stmt = [c \in Clients |-> "none"] /\ rows = [c \in Clients |-> 0]
  /\ inTxn = [c \in Clients |-> FALSE] /\ started = [c \in Clients |-> FALSE]
  /\ failed = [c \in Clients |-> FALSE]
  /\ lock = None /\ changed = FALSE
  /\ clients = {} /\ open = {} /\ shut = {}
  /\ running = TRUE /\ main = "check"

Entry(c) == [sock |-> sock[c], id |-> c]

\* handle_client's loop goes round while the server runs.
Loop(c) == pc' = [pc EXCEPT ![c] = IF running THEN "recv" ELSE "leave"]

\* The reply ends the statement; err: an error frame.
Reply(c, err) ==
  /\ Loop(c)
  /\ failed' = [failed EXCEPT ![c] = err]
  /\ stmt' = [stmt EXCEPT ![c] = "none"]
  /\ rows' = [rows EXCEPT ![c] = 0]

\* Faulty: the session forgets its transaction and leaves it open in the engine.
ForgetTxn(c) ==
  /\ UNCHANGED engine
  /\ inTxn' = [inTxn EXCEPT ![c] = FALSE] /\ started' = [started EXCEPT ![c] = FALSE]

\* rollback_session_txn; the engine's rollback frees the lock.
RollbackSession(c) ==
  /\ IF started[c] THEN lock' = None /\ changed' = FALSE ELSE UNCHANGED engine
  /\ inTxn' = [inTxn EXCEPT ![c] = FALSE] /\ started' = [started EXCEPT ![c] = FALSE]

At(c, where) == pc[c] = where /\ main # "crash"

(* Requests *)

ParseError(c) ==
  /\ At(c, "recv")
  /\ RollbackSession(c)
  /\ Reply(c, TRUE)
  /\ UNCHANGED <<sock, server>>

\* A nested BEGIN ends the outer transaction; BEGIN takes no lock.
BeginStmt(c) ==
  /\ At(c, "recv")
  /\ IF inTxn[c] THEN RollbackSession(c)
                 ELSE inTxn' = [inTxn EXCEPT ![c] = TRUE] /\ UNCHANGED <<started, engine>>
  /\ Reply(c, inTxn[c])
  /\ UNCHANGED <<sock, server>>

\* COMMIT or ROLLBACK: either ends the engine's transaction, if a statement has
\* started one, leaves nothing uncommitted and frees the lock.
EndStmt(c) ==
  /\ At(c, "recv")
  /\ RollbackSession(c)
  /\ Reply(c, ~inTxn[c])
  /\ UNCHANGED <<sock, server>>

\* DDL or SET inside an explicit transaction.
ForbiddenStmt(c) ==
  /\ At(c, "recv") /\ inTxn[c]
  /\ RollbackSession(c)
  /\ Reply(c, TRUE)
  /\ UNCHANGED <<sock, server>>

\* exec_statement up to begin_txn: the first statement of a transaction waits
\* for the lock.
ExecStatement(c, kind) ==
  /\ At(c, "recv")
  /\ stmt' = [stmt EXCEPT ![c] = kind]
  /\ pc' = [pc EXCEPT ![c] = IF started[c] THEN "exec" ELSE "lock"]
  /\ UNCHANGED <<sock, inTxn, started, rows, failed, engine, server>>

BeginTxn(c) ==
  /\ At(c, "lock") /\ lock = None
  /\ lock' = c
  /\ started' = [started EXCEPT ![c] = inTxn[c]]
  /\ pc' = [pc EXCEPT ![c] = "exec"]
  /\ UNCHANGED <<sock, stmt, inTxn, rows, failed, changed, server>>

\* execute throws: the whole transaction is rolled back.
ExecError(c) ==
  /\ At(c, "exec")
  /\ lock' = None /\ changed' = FALSE
  /\ inTxn' = [inTxn EXCEPT ![c] = FALSE] /\ started' = [started EXCEPT ![c] = FALSE]
  /\ Reply(c, TRUE)
  /\ UNCHANGED <<sock, server>>

\* Autocommit commits and frees the lock when execute returns.
Autocommit(c) == IF inTxn[c] THEN UNCHANGED lock ELSE lock' = None

ExecWrite(c) ==
  /\ At(c, "exec") /\ stmt[c] = "write"
  /\ Autocommit(c)
  /\ changed' = inTxn[c]
  /\ Reply(c, FALSE)
  /\ UNCHANGED <<sock, inTxn, started, server>>

\* A SELECT is opened inside the lock and streamed after an autocommit.
ExecSelect(c) ==
  /\ At(c, "exec") /\ stmt[c] = "read"
  /\ Autocommit(c)
  /\ pc' = [pc EXCEPT ![c] = "stream"]
  /\ rows' = [rows EXCEPT ![c] = MaxRows]
  /\ UNCHANGED <<sock, stmt, inTxn, started, failed, changed, server>>

(* send_result_stream *)

StreamRow(c) ==
  /\ At(c, "stream") /\ rows[c] > 0
  /\ rows' = [rows EXCEPT ![c] = @ - 1]
  /\ UNCHANGED <<pc, sock, stmt, inTxn, started, failed, engine, server>>

StreamEnd(c) ==
  /\ At(c, "stream") /\ rows[c] = 0
  /\ Reply(c, FALSE)
  /\ UNCHANGED <<sock, inTxn, started, engine, server>>

\* next throws: handle_client's catch sends the error and goes on.
StreamError(c) ==
  /\ At(c, "stream")
  /\ Reply(c, TRUE)
  /\ UNCHANGED <<sock, inTxn, started, engine, server>>

\* The peer is gone, or its socket is shut down.
SendFails(c) ==
  /\ At(c, "stream")
  /\ pc' = [pc EXCEPT ![c] = "leave"]
  /\ UNCHANGED <<sock, session, engine, server>>

(* The end of a session *)

\* recv_frame fails, or the client quits.
Disconnect(c) ==
  /\ At(c, "recv")
  /\ pc' = [pc EXCEPT ![c] = "leave"]
  /\ UNCHANGED <<sock, session, engine, server>>

\* Faulty: the socket is closed here, before its entry is erased.
LeaveClosing(c) ==
  /\ At(c, "leave")
  /\ RollbackSession(c)
  /\ pc' = [pc EXCEPT ![c] = "erase"]
  /\ stmt' = [stmt EXCEPT ![c] = "none"] /\ rows' = [rows EXCEPT ![c] = 0]
  /\ failed' = [failed EXCEPT ![c] = FALSE]
  /\ open' = open \ {sock[c]}
  /\ UNCHANGED <<sock, clients, shut, running, main>>

Leave(c) ==
  /\ At(c, "leave")
  /\ RollbackSession(c)
  /\ pc' = [pc EXCEPT ![c] = "erase"]
  /\ stmt' = [stmt EXCEPT ![c] = "none"] /\ rows' = [rows EXCEPT ![c] = 0]
  /\ failed' = [failed EXCEPT ![c] = FALSE]
  /\ UNCHANGED <<sock, server>>

\* Faulty: the session leaves the list before it rolls back.
EraseEarly(c) ==
  /\ At(c, "leave") \/ At(c, "erase")
  /\ clients' = {x \in clients : x.sock # sock[c]}
  /\ pc' = [pc EXCEPT ![c] = IF @ = "leave" THEN "leave" ELSE "count"]
  /\ UNCHANGED <<sock, session, engine, open, shut, running, main>>

\* remove_client erases the entry with this socket, ...
EraseClient(c) ==
  /\ At(c, "erase")
  /\ \/ \E x \in clients : x.sock = sock[c] /\ clients' = clients \ {x}
     \/ (\A x \in clients : x.sock # sock[c]) /\ UNCHANGED clients
  /\ pc' = [pc EXCEPT ![c] = "count"]
  /\ UNCHANGED <<sock, session, engine, open, shut, running, main>>

\* ... takes clients_mutex to report the number of clients, ...
CountClients(c) ==
  /\ At(c, "count")
  /\ pc' = [pc EXCEPT ![c] = "close"]
  /\ UNCHANGED <<sock, session, engine, server>>

\* ... closes the socket ...
CloseSocket(c) ==
  /\ At(c, "close")
  /\ open' = open \ {sock[c]}
  /\ pc' = [pc EXCEPT ![c] = "notify"]
  /\ UNCHANGED <<sock, session, engine, clients, shut, running, main>>

\* ... and takes clients_mutex again to wake the main thread.
Notify(c) ==
  /\ At(c, "notify")
  /\ pc' = [pc EXCEPT ![c] = "gone"]
  /\ sock' = [sock EXCEPT ![c] = None]
  /\ UNCHANGED <<session, engine, server>>

(* The main thread *)

MainCheck ==
  /\ main = "check"
  /\ main' = IF running THEN "enter" ELSE "shut"
  /\ UNCHANGED <<pc, sock, session, engine, clients, open, shut, running>>

MainPoll ==
  /\ main = "enter"
  /\ main' = "poll"
  /\ UNCHANGED <<pc, sock, session, engine, clients, open, shut, running>>

\* accept and spawn_client. A refused connection is closed at once.
Accept(c, fd) ==
  /\ main = "poll" /\ running
  /\ pc[c] = "none"
  /\ IF Cardinality(clients) >= MaxClients
     THEN /\ pc' = [pc EXCEPT ![c] = "gone"]
          /\ UNCHANGED <<sock, clients, open>>
     ELSE /\ fd \notin open
          /\ pc' = [pc EXCEPT ![c] = "recv"]
          /\ sock' = [sock EXCEPT ![c] = fd]
          /\ clients' = clients \cup {[sock |-> fd, id |-> c]}
          /\ open' = open \cup {fd}
  /\ main' = "check"
  /\ UNCHANGED <<session, engine, shut, running>>

\* A connection arrives when the stop flag is already set: it is not accepted.
Wake ==
  /\ main = "poll" /\ ~running
  /\ main' = "shut"
  /\ UNCHANGED <<pc, sock, session, engine, clients, open, shut, running>>

\* "shutdown" on the control socket.
ControlShutdown ==
  /\ main = "poll"
  /\ running' = FALSE /\ main' = "shut"
  /\ UNCHANGED <<pc, sock, session, engine, clients, open, shut>>

\* SIGINT, SIGTERM or SIGHUP sets the flag and interrupts a poll in progress.
Signal ==
  /\ main # "crash" /\ running
  /\ running' = FALSE
  /\ main' = IF main = "poll" THEN "shut" ELSE main
  /\ UNCHANGED <<pc, sock, session, engine, clients, open, shut>>

\* Faulty: the sockets of the sessions are left alone.
ShutNobody ==
  /\ main = "shut"
  /\ main' = "wait"
  /\ UNCHANGED <<pc, sock, session, engine, clients, open, shut, running>>

MainShutdown ==
  /\ main = "shut"
  /\ shut' = {x.sock : x \in clients}
  /\ main' = "wait"
  /\ UNCHANGED <<pc, sock, session, engine, clients, open, running>>

\* wait_for: the predicate is looked at on entry and after each notify.
MainDrained ==
  /\ main = "wait" /\ clients = {}
  /\ main' = "close"
  /\ UNCHANGED <<pc, sock, session, engine, clients, open, shut, running>>

\* Ten seconds are over: DB_CRASH.
MainTimeout ==
  /\ main = "wait" /\ clients # {}
  /\ main' = "crash"
  /\ UNCHANGED <<pc, sock, session, engine, clients, open, shut, running>>

\* db.close, and main returns.
MainClose ==
  /\ main = "close" /\ lock = None
  /\ main' = "exit"
  /\ UNCHANGED <<pc, sock, session, engine, clients, open, shut, running>>

-----------------------------------------------------------------------------
Request(c) ==
  \/ ParseError(c) \/ BeginStmt(c) \/ EndStmt(c) \/ ForbiddenStmt(c)
  \/ \E kind \in {"read", "write"} : ExecStatement(c, kind)

\* Steps a session's thread takes by itself.
Work(c) ==
  \/ BeginTxn(c) \/ ExecError(c) \/ ExecWrite(c) \/ ExecSelect(c)
  \/ Leave(c) \/ EraseClient(c) \/ CountClients(c) \/ CloseSocket(c) \/ Notify(c)

\* Steps that wait for the peer, or for its socket to be shut down.
Peer(c) == StreamRow(c) \/ StreamEnd(c) \/ StreamError(c) \/ SendFails(c) \/ Disconnect(c)

Main == MainCheck \/ MainPoll \/ MainShutdown \/ MainDrained \/ MainClose

Next ==
  \/ \E c \in Clients : Request(c) \/ Work(c) \/ Peer(c)
  \/ \E c \in Clients, fd \in Socks : Accept(c, fd)
  \/ Main \/ Wake \/ ControlShutdown \/ Signal \/ MainTimeout

Spec == Init /\ [][Next]_vars

(* Threads are scheduled; a socket that was shut down lets its session go on.
   Nothing is assumed of clients, signals and connections. *)
Fairness ==
  /\ WF_vars(Main)
  /\ \A c \in Clients : WF_vars(Work(c)) /\ WF_vars(sock[c] \in shut /\ Peer(c))

FairSpec == Spec /\ Fairness

-----------------------------------------------------------------------------
(* Properties *)

\* Types of the server's state.
TypeOK ==
  /\ pc \in [Clients -> Before \cup After \cup {"none", "gone"}]
  /\ sock \in [Clients -> Socks \cup {None}]
  /\ stmt \in [Clients -> {"none", "read", "write"}]
  /\ inTxn \in [Clients -> BOOLEAN] /\ started \in [Clients -> BOOLEAN]
  /\ rows \in [Clients -> 0..MaxRows]
  /\ failed \in [Clients -> BOOLEAN]
  /\ lock \in Clients \cup {None} /\ changed \in BOOLEAN
  /\ clients \subseteq [sock : Socks, id : Clients]
  /\ open \subseteq Socks /\ shut \subseteq Socks
  /\ running \in BOOLEAN
  /\ main \in {"check", "enter", "poll", "shut", "wait", "close", "exit", "crash"}

\* The session's flags and the catalog's lock never disagree: who has started
\* an engine transaction owns the lock, who owns it is executing or has, and
\* uncommitted changes have an owner. A lock left behind would stop the server,
\* one freed twice would let two transactions run at once (recursive_mutex).
LockMatchesSessions ==
  /\ \A c \in Clients : started[c] => lock = c /\ inTxn[c] /\ pc[c] \in Before
  /\ lock # None => started[lock] \/ pc[lock] = "exec"
  /\ changed => lock # None

\* remove_client erases by socket number, which the kernel reuses: no session
\* ever loses its entry to another, so shutdown reaches everyone.
OwnEntry ==
  /\ clients = {Entry(c) : c \in {d \in Clients : pc[d] \in Before}}
  /\ \A c, d \in Clients : pc[c] \in Before /\ pc[d] \in Before /\ sock[c] = sock[d] => c = d

\* The engine is closed only when no session can touch it any more.
CloseAlone ==
  main \in {"close", "exit"} => lock = None /\ \A c \in Clients : pc[c] \notin Before

\* Once the sockets are shut down every session ends, those that wait for the
\* lock of an idle transaction included, unless the ten seconds run out.
ShutdownDrains == main = "wait" ~> (clients = {} \/ main = "crash")

\* storage-design.md: transactions are serial, always SERIALIZABLE. No row is
\* sent that shows another session's uncommitted change.
NoDirtyRead == [][\A c \in Clients : StreamRow(c) => ~changed \/ lock = c]_vars

\* exec_statement, test/e2e/sql/txn: an error inside an explicit transaction
\* ends it.
ErrorEndsTxn == \A c \in Clients : failed[c] => ~inTxn[c]

\* session.cpp: the main thread is let go by the notify, after which a session
\* touches nothing global.
ExitAfterNotify == main = "exit" => \A c \in Clients : pc[c] \notin After

\* server.cpp: a stop signal makes the main loop exit, through poll's EINTR.
SignalStops == ~running ~> main \notin {"check", "enter", "poll"}

=============================================================================
