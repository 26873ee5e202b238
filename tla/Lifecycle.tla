----------------------------- MODULE Lifecycle -----------------------------
(***************************************************************************)
(* The processes around one data directory: initdb and the bootstrap       *)
(* server it spawns, servers started by "serverctl start" (a daemon and    *)
(* the parent that waits for its handshake), and "serverctl stop":         *)
(* tool/initdb/initdb.cpp, tool/serverctl/serverctl.cpp, server.cpp's      *)
(* start-up and shutdown, net.cpp, utils.cpp. Every step of one process    *)
(* interleaves with those of the others; any process may be killed, and    *)
(* every wait with a deadline may run into it. What a server does between  *)
(* its start-up and its shutdown is Session's.                             *)
(***************************************************************************)
EXTENDS Naturals, FiniteSets

CONSTANTS
  Servers,   \* server processes that may run at once
  Inits,     \* initdb processes that may run at once
  Inodes,    \* inodes of server.pid
  NoOne

ASSUME LifecycleAssumption ==
  /\ IsFiniteSet(Servers) /\ IsFiniteSet(Inodes) /\ Cardinality(Inodes) > Cardinality(Servers)
  /\ NoOne \notin Servers \cup Inodes

VARIABLES
  dir,       \* the data directory exists
  files,     \* what initdb and bootstrap.sql have put into it
  path,      \* the inode server.pid names, or NoOne
  sock,      \* the server whose socket server.sock names, or NoOne
  pc,        \* server: the next step of main()
  kind,      \* server: "boot" or "daemon"
  fd,        \* server: the inode it has open as pidfile
  locked,    \* server: it holds the flock of fd
  parent,    \* server: the process that forked the daemon still waits
  ready,     \* server: the daemon wrote 'R' into the handshake pipe
  ctl,       \* server: the "serverctl start" that launched it
  asked,     \* server: a signal, or a shutdown command waiting at its socket
  ini,       \* initdb: its next step
  made,      \* initdb: dir_created
  boot,      \* initdb: the bootstrap server it spawned
  failed,    \* initdb: some statement of bootstrap.sql was refused
  promised   \* history: an initdb has reported success

disk  == <<dir, files, path, sock>>
locks == <<fd, locked>>
start == <<parent, ready, ctl, asked>>
inits == <<ini, made, boot, failed>>
vars  == <<dir, files, path, sock, pc, kind, fd, locked, parent, ready, ctl, asked, ini, made, boot,
           failed, promised>>

-----------------------------------------------------------------------------
(* Who holds what *)

Dead(s) == pc[s] \in {"off", "exited"}
Gone(s) == Dead(s) /\ ~parent[s]

\* An flock belongs to the open file, which daemon and parent share.
Holds(s, i) == locked[s] /\ fd[s] = i /\ ~Gone(s)

\* A process number that no one still has to wait for.
Free(s) ==
  /\ Gone(s) /\ pc[s] = "off" /\ ctl[s] = "idle"
  /\ \A i \in Inits : boot[i] # s

\* A process that never gets out of the destructor of its Logger, with its
\* listeners open or without.
Hung == {"hung", "hungListening"}

Listening == {"port", "bound", "opening", "serving", "draining", "failing", "hungListening"}
Answering(s) == sock = s /\ pc[s] = "serving" /\ ~asked[s]

\* FAULTY: the port does not keep a second server out.
PortShared(s) == TRUE

\* The configured port; a bootstrap server takes any free one.
PortFree(s) == kind[s] = "boot" \/ \A t \in Servers \ {s} : kind[t] = "daemon" => pc[t] \notin Listening

\* The process has its engine open.
EngineSteps == {"opening", "serving", "draining", "closed", "unsocked", "closing"}

Init ==
  /\ dir = FALSE /\ files = {} /\ path = NoOne /\ sock = NoOne
  /\ pc = [s \in Servers |-> "off"] /\ kind = [s \in Servers |-> "daemon"]
  /\ fd = [s \in Servers |-> NoOne] /\ locked = [s \in Servers |-> FALSE]
  /\ parent = [s \in Servers |-> FALSE] /\ ready = [s \in Servers |-> FALSE]
  /\ ctl = [s \in Servers |-> "idle"] /\ asked = [s \in Servers |-> FALSE]
  /\ ini = [i \in Inits |-> "idle"] /\ made = [i \in Inits |-> FALSE]
  /\ boot = [i \in Inits |-> NoOne] /\ failed = [i \in Inits |-> FALSE]
  /\ promised = FALSE

-----------------------------------------------------------------------------
(* server: start-up *)

Goto(s, at) == pc' = [pc EXCEPT ![s] = at]

\* The process ends; nothing it left in the directory is removed.
End(s, at) ==
  /\ Goto(s, at)
  /\ IF parent[s] THEN UNCHANGED locks
     ELSE fd' = [fd EXCEPT ![s] = NoOne] /\ locked' = [locked EXCEPT ![s] = FALSE]
  /\ asked' = [asked EXCEPT ![s] = FALSE]
  /\ UNCHANGED <<disk, kind, parent, ready, ctl, inits, promised>>

\* config::load, then open(pidfile, O_CREAT).
OpenPidfile(s) ==
  /\ pc[s] = "begun" /\ "conf" \in files
  /\ LET i == IF path # NoOne THEN path ELSE CHOOSE n \in Inodes : \A t \in Servers : fd[t] # n
     IN path' = i /\ fd' = [fd EXCEPT ![s] = i]
  /\ Goto(s, "pid")
  /\ UNCHANGED <<dir, files, sock, kind, locked, start, inits, promised>>

\* flock(LOCK_EX | LOCK_NB).
Flock(s) ==
  /\ pc[s] = "pid" /\ \A t \in Servers : ~Holds(t, fd[s])
  /\ locked' = [locked EXCEPT ![s] = TRUE]
  /\ Goto(s, "locked")
  /\ UNCHANGED <<disk, kind, fd, start, inits, promised>>

\* create_tcp_listener.
BindPort(s) ==
  /\ pc[s] = "locked" /\ PortFree(s)
  /\ Goto(s, "port")
  /\ UNCHANGED <<disk, kind, locks, start, inits, promised>>

\* create_control_listener: whatever the path named is unlinked first. Then
\* fork and pidfile contents; a bootstrap server stays in the foreground.
BindSocket(s) ==
  /\ pc[s] = "port" /\ dir
  /\ sock' = s
  /\ parent' = [parent EXCEPT ![s] = kind[s] = "daemon"]
  /\ Goto(s, "bound")
  /\ UNCHANGED <<dir, files, path, kind, locks, ready, ctl, asked, inits, promised>>

\* Catalog::open: the metadata files are there, recovery runs.
OpenEngine(s) ==
  /\ pc[s] = "bound"
  /\ IF kind[s] = "boot" THEN "meta" \in files ELSE "db_table" \in files
  /\ Goto(s, "opening")
  /\ UNCHANGED <<disk, kind, locks, start, inits, promised>>

\* The completion marker is there; port line or handshake 'R', main loop.
Serve(s) ==
  /\ pc[s] = "opening"
  /\ kind[s] = "boot" \/ "marker" \in files
  /\ ready' = [ready EXCEPT ![s] = parent[s]]
  /\ Goto(s, "serving")
  /\ UNCHANGED <<disk, kind, locks, parent, ctl, asked, inits, promised>>

\* Catalog::open raises: handshake 'F' and its message, then DB_CRITICAL.
OpenFails(s) ==
  /\ pc[s] \in {"bound", "opening"}
  /\ Goto(s, "failing")
  /\ UNCHANGED <<disk, kind, locks, start, inits, promised>>

\* FAULTY: flock without LOCK_NB.
RefuseNotLocked(s) ==
  /\ pc[s] \in {"begun", "port", "failing"} \/ (pc[s] = "locked" /\ ~PortFree(s))
  /\ End(s, "off")

\* An early return or DB_CRITICAL: no configuration, another instance's lock,
\* a port in use, a socket or file that cannot be made.
Refused(s) ==
  \/ pc[s] \in {"begun", "port", "failing"}
  \/ pc[s] = "pid" /\ \E t \in Servers : Holds(t, fd[s])
  \/ pc[s] = "locked" /\ ~PortFree(s)

Refuse(s) == Refused(s) /\ End(s, "off")

(* server: shutdown *)

\* The main loop ends: server_running is false, or the command is read.
LeaveLoop(s) ==
  /\ pc[s] = "serving" /\ asked[s]
  /\ Goto(s, "draining")
  /\ UNCHANGED <<disk, kind, locks, start, inits, promised>>

\* Sessions are gone, or 10 seconds are over (Kill); both listeners are closed.
Drained(s) ==
  /\ pc[s] = "draining"
  /\ Goto(s, "closed")
  /\ UNCHANGED <<disk, kind, locks, start, inits, promised>>

\* unlink(ctl_sock).
UnlinkSocket(s) ==
  /\ pc[s] = "closed"
  /\ sock' = NoOne
  /\ Goto(s, "unsocked")
  /\ UNCHANGED <<dir, files, path, kind, locks, start, inits, promised>>

\* unlink(pidfile), before db.close().
UnlinkPidfile(s) ==
  /\ pc[s] = "unsocked"
  /\ path' = NoOne
  /\ Goto(s, "closing")
  /\ UNCHANGED <<dir, files, sock, kind, locks, start, inits, promised>>

\* db.close(), close(pid_fd) and return 0; a bootstrap server waits to be
\* reaped by its initdb.
CloseEngine(s) == pc[s] = "closing" /\ End(s, IF \E i \in Inits : boot[i] = s THEN "exited" ELSE "off")

\* exit, or the return from main, runs the destructor of the Logger, which may
\* join its writer for ever (Logger's ExitEnds): what the process has open
\* stays open, but pid_fd is closed by then if main returns. Without a
\* configuration there is no Logger yet.
Hang(s) ==
  /\ \/ Refused(s) /\ pc[s] # "begun" /\ UNCHANGED locks
     \/ /\ pc[s] = "closing"
        /\ IF parent[s] THEN UNCHANGED locks
           ELSE fd' = [fd EXCEPT ![s] = NoOne] /\ locked' = [locked EXCEPT ![s] = FALSE]
  /\ Goto(s, IF pc[s] \in Listening THEN "hungListening" ELSE "hung")
  /\ asked' = [asked EXCEPT ![s] = FALSE]
  /\ UNCHANGED <<disk, kind, parent, ready, ctl, inits, promised>>

\* SIGKILL, a crash, DB_CRASH.
Kill(s) == ~Dead(s) /\ End(s, "off")

ServerStep(s) ==
  \/ OpenPidfile(s) \/ Flock(s) \/ BindPort(s) \/ BindSocket(s) \/ OpenEngine(s)
  \/ Serve(s) \/ OpenFails(s) \/ Refuse(s) \/ LeaveLoop(s) \/ Drained(s) \/ UnlinkSocket(s) \/ UnlinkPidfile(s)
  \/ CloseEngine(s)

-----------------------------------------------------------------------------
(* serverctl start *)

\* ping unanswered: fork and exec server --daemon.
Start(s) ==
  /\ Free(s)
  /\ "conf" \in files /\ \A t \in Servers : ~Answering(t)
  /\ Goto(s, "begun")
  /\ kind' = [kind EXCEPT ![s] = "daemon"]
  /\ ctl' = [ctl EXCEPT ![s] = "wait"]
  /\ UNCHANGED <<disk, locks, parent, ready, asked, inits, promised>>

\* run_daemon_parent: 'R' or nothing within 5 seconds, and _exit(0); 'F' and
\* its message up to the end of file, or the end of file at once, and the
\* pidfile is unlinked. The lock goes with the last of the two processes.
ParentLeaves(s, verdict) ==
  /\ parent[s]
  /\ parent' = [parent EXCEPT ![s] = FALSE]
  /\ ready' = [ready EXCEPT ![s] = FALSE]
  /\ ctl' = [ctl EXCEPT ![s] = verdict]
  /\ IF Dead(s) \/ pc[s] = "hung"
     THEN fd' = [fd EXCEPT ![s] = NoOne] /\ locked' = [locked EXCEPT ![s] = FALSE]
     ELSE UNCHANGED locks
  /\ UNCHANGED <<dir, files, sock, pc, kind, asked, inits, promised>>

\* After an 'F' the parent reads on without a deadline.
TellsFailure(s) == pc[s] \in {"failing", "hungListening"}

ParentReady(s) == (ready[s] \/ ~(Dead(s) \/ TellsFailure(s))) /\ path' = path /\ ParentLeaves(s, "poll")
ParentFails(s) == ~ready[s] /\ Dead(s) /\ path' = NoOne /\ ParentLeaves(s, "idle")

\* waitpid: the server ended before it forked.
StartFails(s) ==
  /\ ctl[s] = "wait" /\ Gone(s)
  /\ ctl' = [ctl EXCEPT ![s] = "idle"]
  /\ UNCHANGED <<disk, pc, kind, locks, parent, ready, asked, inits, promised>>

\* PONG, or 5 seconds of polling are over: serverctl reports and ends.
Poll(s) ==
  /\ ctl[s] = "poll"
  /\ ctl' = [ctl EXCEPT ![s] = "idle"]
  /\ UNCHANGED <<disk, pc, kind, locks, parent, ready, asked, inits, promised>>

StartStep(s) == ParentReady(s) \/ ParentFails(s) \/ StartFails(s) \/ Poll(s)

(* serverctl stop, and signals *)

\* The server accepts a connection at the path: from listen() to close().
Connected(s) == sock = s /\ pc[s] \in {"bound", "opening", "serving", "draining"}

\* A signal, for which the handlers are set up by then, or "shutdown" sent to
\* the control socket, when it is this server's. A server that is still
\* starting reads the command when its loop begins, although the sender's
\* 3 seconds are over by then. Whether serverctl then reports "stopped" or
\* gives up after 10 seconds changes nothing.
Stop(s) ==
  /\ pc[s] \in {"bound", "opening", "serving", "draining"}
  /\ asked' = [asked EXCEPT ![s] = TRUE]
  /\ UNCHANGED <<disk, pc, kind, locks, parent, ready, ctl, inits, promised>>

-----------------------------------------------------------------------------
(* initdb *)

To(i, at) == ini' = [ini EXCEPT ![i] = at]

\* initdb ends; its variables are gone.
Finish(i, how) ==
  /\ To(i, how)
  /\ made' = [made EXCEPT ![i] = FALSE]
  /\ failed' = [failed EXCEPT ![i] = FALSE]
  /\ boot' = [boot EXCEPT ![i] = NoOne]

Ended(i) == ini[i] \in {"idle", "ok"}

Empty == files = {} /\ path = NoOne /\ sock = NoOne

\* FAULTY: is_empty is not asked.
PrepareAnything(i) ==
  /\ Ended(i)
  /\ To(i, "conf")
  /\ made' = [made EXCEPT ![i] = ~dir]
  /\ dir' = TRUE
  /\ UNCHANGED <<files, path, sock, pc, kind, locks, start, boot, failed, promised>>

\* prepare_data_dir: a directory with anything in it is refused.
Prepare(i) ==
  /\ Ended(i) /\ (dir => Empty)
  /\ To(i, "conf")
  /\ made' = [made EXCEPT ![i] = ~dir]
  /\ dir' = TRUE
  /\ UNCHANGED <<files, path, sock, pc, kind, locks, start, boot, failed, promised>>

\* write_default_conf.
WriteConf(i) ==
  /\ ini[i] = "conf" /\ dir /\ "conf" \notin files
  /\ files' = files \cup {"conf"}
  /\ To(i, "create")
  /\ UNCHANGED <<dir, path, sock, pc, kind, locks, start, made, boot, failed, promised>>

\* Catalog::create: the files appear one by one, the rows with the commit.
CreateBegin(i) ==
  /\ ini[i] = "create" /\ dir /\ "db_table" \notin files
  /\ files' = files \cup {"db_table"}
  /\ To(i, "creating")
  /\ UNCHANGED <<dir, path, sock, pc, kind, locks, start, made, boot, failed, promised>>

CreateEnd(i) ==
  /\ ini[i] = "creating" /\ dir
  /\ files' = files \cup {"meta"}
  /\ To(i, "created")
  /\ UNCHANGED <<dir, path, sock, pc, kind, locks, start, made, boot, failed, promised>>

\* fork and exec server --bootstrap.
Spawn(i) ==
  /\ ini[i] = "created"
  /\ \E s \in Servers :
       /\ Free(s)
       /\ boot' = [boot EXCEPT ![i] = s]
       /\ kind' = [kind EXCEPT ![s] = "boot"]
       /\ Goto(s, "begun")
  /\ To(i, "port")
  /\ UNCHANGED <<disk, locks, start, made, failed, promised>>

\* read_port_line: the port, or end of file or the deadline.
PortLine(i) ==
  /\ ini[i] = "port"
  /\ To(i, IF pc[boot[i]] = "serving" THEN "sql" ELSE "stopping")
  /\ UNCHANGED <<disk, pc, kind, locks, start, made, boot, failed, promised>>

\* The statements of bootstrap.sql before the last; the client goes on after
\* one that fails.
RunSql(i) ==
  /\ ini[i] = "sql" /\ pc[boot[i]] = "serving"
  /\ failed' \in {failed, [failed EXCEPT ![i] = TRUE]}
  /\ To(i, "marker")
  /\ UNCHANGED <<disk, pc, kind, locks, start, made, boot, promised>>

\* FAULTY: the client's exit code is not looked at.
RunMarkerUnchecked(i) ==
  /\ ini[i] = "marker" /\ pc[boot[i]] = "serving" /\ dir
  /\ files' = files \cup {"marker"}
  /\ To(i, "shut")
  /\ UNCHANGED <<dir, path, sock, pc, kind, locks, start, made, boot, failed, promised>>

\* The last statement creates db_version, the completion marker.
RunMarker(i) ==
  /\ ini[i] = "marker" /\ pc[boot[i]] = "serving" /\ dir
  /\ files' = files \cup {"marker"}
  /\ To(i, IF failed[i] THEN "stopping" ELSE "shut")
  /\ UNCHANGED <<dir, path, sock, pc, kind, locks, start, made, boot, failed, promised>>

\* A statement or the connection fails at the end, or 10 seconds are over.
ClientFails(i) ==
  /\ ini[i] \in {"sql", "marker"}
  /\ To(i, "stopping")
  /\ UNCHANGED <<disk, pc, kind, locks, start, made, boot, failed, promised>>

\* control_shutdown: the command goes to whoever listens at the path; only a
\* server in its loop answers in time.
AskToStop(i) ==
  /\ ini[i] \in {"shut", "stopping"}
  /\ asked' = [s \in Servers |-> asked[s] \/ Connected(s)]
  /\ To(i, IF ini[i] = "stopping" THEN "reap"
           ELSE IF \E s \in Servers : Answering(s) THEN "wait" ELSE "stopping")
  /\ UNCHANGED <<disk, pc, kind, locks, parent, ready, ctl, made, boot, failed, promised>>

\* FAULTY: past the deadline the server is left running.
ReapedLeft(i) ==
  LET s == boot[i]
  IN /\ ini[i] \in {"wait", "reap"}
     /\ pc' = [pc EXCEPT ![s] = IF Dead(s) THEN "off" ELSE @]
     /\ IF ini[i] = "wait" /\ pc[s] = "exited"
        THEN Finish(i, "ok") /\ promised' = TRUE
        ELSE To(i, "rollback") /\ boot' = [boot EXCEPT ![i] = NoOne] /\ UNCHANGED <<made, failed, promised>>
     /\ UNCHANGED <<disk, kind, locks, start>>

\* FAULTY: no deadline.
ReapedPatiently(i) ==
  LET s == boot[i]
  IN /\ ini[i] \in {"wait", "reap"} /\ Dead(s)
     /\ pc' = [pc EXCEPT ![s] = "off"]
     /\ kind' = [kind EXCEPT ![s] = "daemon"]
     /\ fd' = [fd EXCEPT ![s] = NoOne] /\ locked' = [locked EXCEPT ![s] = FALSE]
     /\ asked' = [asked EXCEPT ![s] = FALSE]
     /\ IF ini[i] = "wait" /\ pc[s] = "exited"
        THEN Finish(i, "ok") /\ promised' = TRUE
        ELSE To(i, "rollback") /\ boot' = [boot EXCEPT ![i] = NoOne] /\ UNCHANGED <<made, failed, promised>>
     /\ UNCHANGED <<disk, parent, ready, ctl>>

\* wait_child; past the deadline SIGKILL and waitpid.
Reaped(i) ==
  LET s == boot[i]
  IN /\ ini[i] \in {"wait", "reap"}
     /\ pc' = [pc EXCEPT ![s] = "off"]
     /\ kind' = [kind EXCEPT ![s] = "daemon"]
     /\ fd' = [fd EXCEPT ![s] = NoOne] /\ locked' = [locked EXCEPT ![s] = FALSE]
     /\ asked' = [asked EXCEPT ![s] = FALSE]
     /\ IF ini[i] = "wait" /\ pc[s] = "exited"
        THEN Finish(i, "ok") /\ promised' = TRUE
        ELSE To(i, "rollback") /\ boot' = [boot EXCEPT ![i] = NoOne] /\ UNCHANGED <<made, failed, promised>>
     /\ UNCHANGED <<disk, parent, ready, ctl>>

\* A file that exists, cannot be written or was removed; a missing program.
GiveUp(i) ==
  /\ ini[i] \in {"conf", "create", "creating", "created"}
  /\ To(i, "rollback")
  /\ UNCHANGED <<disk, pc, kind, locks, start, made, boot, failed, promised>>

\* rollback: everything in the directory, and the directory if initdb made it.
RollBack(i) ==
  /\ ini[i] = "rollback"
  /\ files' = {} /\ path' = NoOne /\ sock' = NoOne
  /\ dir' = (dir /\ ~made[i])
  /\ Finish(i, "idle")
  /\ UNCHANGED <<pc, kind, locks, start, promised>>

\* SIGKILL of initdb: directory and bootstrap server stay as they are.
KillInit(i) ==
  /\ ~Ended(i)
  /\ Finish(i, "idle")
  /\ IF boot[i] # NoOne /\ pc[boot[i]] = "exited" THEN Goto(boot[i], "off") ELSE pc' = pc
  /\ UNCHANGED <<disk, kind, locks, start, promised>>

InitStep(i) ==
  \/ WriteConf(i) \/ CreateBegin(i) \/ CreateEnd(i) \/ Spawn(i) \/ PortLine(i) \/ RunSql(i)
  \/ RunMarker(i) \/ ClientFails(i) \/ AskToStop(i) \/ Reaped(i) \/ GiveUp(i) \/ RollBack(i)

-----------------------------------------------------------------------------
Next ==
  \/ \E s \in Servers : ServerStep(s) \/ Hang(s) \/ Kill(s) \/ Start(s) \/ StartStep(s) \/ Stop(s)
  \/ \E i \in Inits : Prepare(i) \/ InitStep(i) \/ KillInit(i)

Spec == Init /\ [][Next]_vars

(* A running process takes its next step unless it dies or hangs at its exit;
   a wait with a deadline ends, one without ends with the process waited for. *)
Fairness ==
  /\ \A s \in Servers : WF_vars(ServerStep(s)) /\ WF_vars(StartStep(s))
  /\ \A i \in Inits : WF_vars(InitStep(i))

FairSpec == Spec /\ Fairness

-----------------------------------------------------------------------------
(* Properties *)

\* server.cpp: once a database is initialised, two servers never work on its
\* files while either still accepts commands, in whatever order pidfiles are
\* opened, unlinked and locked and processes die: what the lock misses, the
\* port catches.
SoleServer ==
  promised => Cardinality({s \in Servers : pc[s] \in {"opening", "serving", "draining"}}) <= 1

\* initdb.cpp: a database whose initdb reported success keeps its files: no
\* later initdb, whatever it meets, clears the directory.
DataKept == [][promised => files \subseteq files']_vars

\* initdb.cpp, catalog.cpp: initdb reports success only for a directory with
\* all its tables and the marker, made by statements that all succeeded.
InitComplete ==
  [][\A i \in Inits : ini[i] # "ok" /\ ini'[i] = "ok" =>
       files' = {"conf", "db_table", "meta", "marker"} /\ ~failed[i]]_vars

\* initdb.cpp: the directory is cleared only when no bootstrap server, this
\* initdb's or one that a killed initdb left behind, has its files open.
RollBackAlone ==
  \A i \in Inits : ini[i] = "rollback" =>
    \A s \in Servers : kind[s] = "boot" => pc[s] \notin EngineSteps

\* serverctl.cpp, server.cpp, initdb.cpp: initdb comes to its verdict whatever
\* the server and the client it launches run into, a server that hangs at its
\* exit included; "serverctl start" does unless the server it launched hangs
\* there, for waitpid and the parent's read of the pipe have no deadline.
ToolsReturn ==
  /\ \A s \in Servers : ctl[s] = "wait" ~> ctl[s] = "idle" \/ pc[s] \in Hung
  /\ \A i \in Inits : ~Ended(i) ~> Ended(i)

(* Promises of comments that TLC refutes *)

\* server.cpp:53: the parent waits for the handshake 5 seconds at most and
\* then ends, so that "serverctl start" always comes back.
StartReturns == \A s \in Servers : ctl[s] = "wait" ~> ctl[s] = "idle"

\* server.cpp:384: the lock is kept until shutdown is complete, so that no new
\* instance gets it early; serverctl.cpp:104: when the socket's path is gone
\* the shutdown is complete.
SingleInstance == promised => Cardinality({s \in Servers : pc[s] \in EngineSteps}) <= 1

\* catalog.cpp:59: the marker's row stands for the success of every statement
\* of bootstrap.sql.
MarkerMeansComplete == \A i \in Inits : "marker" \in files => ~failed[i]

\* initdb.cpp: nobody uses the files that a failing initdb removes.
RollBackUndisturbed ==
  \A i \in Inits : ini[i] = "rollback" => \A s \in Servers : pc[s] \notin EngineSteps

=============================================================================
