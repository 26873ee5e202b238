-------------------------- MODULE Lifecycle_proofs --------------------------
(***************************************************************************)
(* Proofs about Lifecycle, for any number of servers, when no two initdbs  *)
(* work on the directory at the same time (OneInit; with two, TLC refutes  *)
(* DataKept).                                                              *)
(*                                                                         *)
(* The place of a running initdb says which files there are (StageInv). A  *)
(* bootstrap server that has not ended belongs to that initdb, or a killed *)
(* initdb left it behind, and then no initdb will ever start or has        *)
(* succeeded (BootInv): the directory is not empty and nobody clears it.   *)
(* Among the other servers the port lets only one in (PortInv).            *)
(***************************************************************************)
EXTENDS Lifecycle, FiniteSetTheorems, TLAPS

OneInit == \A i, j \in Inits : i = j

ServerPlaces ==
  {"off", "exited", "begun", "pid", "locked", "closed", "unsocked", "closing"} \cup Hung \cup Listening
InitPlaces == {"idle", "ok", "conf", "create", "creating", "created", "port", "sql", "marker", "shut",
               "stopping", "wait", "reap", "rollback"}
\* The steps between fork and waitpid of the bootstrap server.
WithServer == {"port", "sql", "marker", "shut", "stopping", "wait", "reap"}

TypeOK ==
  /\ pc \in [Servers -> ServerPlaces] /\ kind \in [Servers -> {"boot", "daemon"}]
  /\ ini \in [Inits -> InitPlaces] /\ boot \in [Inits -> Servers \cup {NoOne}]
  /\ failed \in [Inits -> BOOLEAN]

\* What an initdb at place at finds in the directory, fs.
FilesAt(at, fs) ==
  /\ at = "conf" => fs = {}
  /\ at = "create" => fs = {"conf"}
  /\ at = "creating" => fs = {"conf", "db_table"}
  /\ at \in {"created", "port", "sql", "marker"} => fs = {"conf", "db_table", "meta"}
  /\ at \in {"shut", "wait"} => fs = {"conf", "db_table", "meta", "marker"}
  /\ at \in {"stopping", "reap"} => "conf" \in fs

StageInv ==
  /\ ~dir => files = {}
  /\ promised => dir /\ "conf" \in files /\ \A i \in Inits : Ended(i)
  /\ \A i \in Inits :
       /\ ~Ended(i) => dir
       /\ FilesAt(ini[i], files)
       /\ ini[i] \in {"shut", "wait"} => ~failed[i]
       /\ boot[i] # NoOne <=> ini[i] \in WithServer

\* Every initdb is over, and the directory keeps further ones out.
Abandoned == dir /\ "conf" \in files /\ ~promised /\ \A i \in Inits : Ended(i)

BootInv ==
  \A s \in Servers : kind[s] = "boot" /\ pc[s] # "off" => (\E i \in Inits : boot[i] = s) \/ Abandoned

PortInv ==
  \A s, t \in Servers :
    kind[s] = "daemon" /\ kind[t] = "daemon" /\ pc[s] \in Listening /\ pc[t] \in Listening => s = t

Inv == TypeOK /\ StageInv /\ BootInv /\ PortInv

-----------------------------------------------------------------------------

\* A step of a running server: no file of the database comes or goes, and it
\* begins to listen only when the port is free.
LEMMA ServerMoves ==
  ASSUME Inv, NEW s \in Servers, NEW at \in ServerPlaces, pc[s] # "off",
         pc' = [pc EXCEPT ![s] = at], at \in Listening => pc[s] \in Listening \/ PortFree(s),
         UNCHANGED <<dir, files, kind, ini, boot, failed, promised>>
  PROVE  Inv'
<1>1. TypeOK' /\ StageInv'
  BY DEF Inv, TypeOK, StageInv, FilesAt, Ended
<1>2. \A t \in Servers : pc'[t] = IF t = s THEN at ELSE pc[t]
  BY DEF Inv, TypeOK
<1>3. BootInv'
  BY <1>2 DEF Inv, BootInv, Abandoned, Ended
<1>4. PortInv'
  BY <1>2 DEF Inv, PortInv, PortFree
<1> QED BY <1>1, <1>3, <1>4 DEF Inv

\* Everything a server does, its death included.
LEMMA ServerStepInv ==
  ASSUME Inv, NEW s \in Servers, ServerStep(s) \/ Hang(s) \/ Kill(s)
  PROVE  Inv'
<1>1. CASE OpenPidfile(s) \/ Flock(s)
  <2>1. PICK at \in {"pid", "locked"} : pc' = [pc EXCEPT ![s] = at]
    BY <1>1 DEF OpenPidfile, Flock, Goto
  <2> QED BY <1>1, <2>1, ServerMoves DEF OpenPidfile, Flock, ServerPlaces, Listening, inits, disk
<1>2. CASE BindPort(s)
  BY <1>2, ServerMoves DEF BindPort, Goto, ServerPlaces, Listening, inits, disk
<1>3. CASE BindSocket(s) \/ OpenEngine(s) \/ Serve(s) \/ OpenFails(s)
  <2>1. PICK at \in {"bound", "opening", "serving", "failing"} : pc' = [pc EXCEPT ![s] = at]
    BY <1>3 DEF BindSocket, OpenEngine, Serve, OpenFails, Goto
  <2>2. pc[s] \in Listening /\ UNCHANGED <<dir, files, kind, ini, boot, failed, promised>>
    BY <1>3 DEF BindSocket, OpenEngine, Serve, OpenFails, Listening, inits, disk
  <2> QED BY <2>1, <2>2, ServerMoves DEF ServerPlaces, Listening
<1>4. CASE LeaveLoop(s) \/ Drained(s) \/ UnlinkSocket(s) \/ UnlinkPidfile(s)
  <2>1. PICK at \in {"draining", "closed", "unsocked", "closing"} :
          pc' = [pc EXCEPT ![s] = at] /\ (at = "draining" => pc[s] = "serving")
    BY <1>4 DEF LeaveLoop, Drained, UnlinkSocket, UnlinkPidfile, Goto
  <2>2. pc[s] # "off" /\ UNCHANGED <<dir, files, kind, ini, boot, failed, promised>>
    BY <1>4 DEF LeaveLoop, Drained, UnlinkSocket, UnlinkPidfile, inits, disk
  <2> QED BY <2>1, <2>2, ServerMoves DEF ServerPlaces, Listening
<1>5. CASE Refuse(s) \/ CloseEngine(s) \/ Kill(s)
  <2>1. PICK at \in {"off", "exited"} : End(s, at)
    BY <1>5 DEF Refuse, CloseEngine, Kill
  <2>2. pc[s] # "off"
    BY <1>5 DEF Refuse, Refused, CloseEngine, Kill, Dead
  <2>3. pc' = [pc EXCEPT ![s] = at] /\ UNCHANGED <<dir, files, kind, ini, boot, failed, promised>>
    BY <2>1 DEF End, Goto, inits, disk
  <2> QED BY <2>1, <2>2, <2>3, ServerMoves DEF ServerPlaces, Listening
<1>6. CASE Hang(s)
  <2>1. PICK at \in Hung : pc' = [pc EXCEPT ![s] = at] /\ (at \in Listening => pc[s] \in Listening)
    BY <1>6 DEF Hang, Goto, Hung, Listening
  <2>2. pc[s] # "off" /\ UNCHANGED <<dir, files, kind, ini, boot, failed, promised>>
    BY <1>6 DEF Hang, Refused, inits, disk
  <2> QED BY <2>1, <2>2, ServerMoves DEF ServerPlaces
<1> QED BY <1>1, <1>2, <1>3, <1>4, <1>5, <1>6 DEF ServerStep

\* serverctl: a new server is an ordinary one and does not listen yet.
LEMMA StartInv ==
  ASSUME Inv, NEW s \in Servers, Start(s) \/ StartStep(s) \/ Stop(s)
  PROVE  Inv'
<1>1. CASE Start(s)
  <2>1. /\ pc' = [pc EXCEPT ![s] = "begun"] /\ kind' = [kind EXCEPT ![s] = "daemon"]
        /\ UNCHANGED <<dir, files, ini, boot, failed, promised>>
    BY <1>1 DEF Start, Goto, inits, disk
  <2>2. TypeOK' /\ StageInv'
    BY <2>1 DEF Inv, TypeOK, StageInv, FilesAt, Ended, ServerPlaces
  <2>3. \A t \in Servers : /\ pc'[t] = IF t = s THEN "begun" ELSE pc[t]
                           /\ kind'[t] = IF t = s THEN "daemon" ELSE kind[t]
    BY <2>1 DEF Inv, TypeOK
  <2>4. BootInv' /\ PortInv'
    BY <2>1, <2>3 DEF Inv, BootInv, PortInv, Abandoned, Ended, Listening
  <2> QED BY <2>2, <2>4 DEF Inv
<1>2. CASE StartStep(s) \/ Stop(s)
  <2>1. UNCHANGED <<dir, files, pc, kind, ini, boot, failed, promised>>
    BY <1>2 DEF StartStep, ParentReady, ParentFails, ParentLeaves, StartFails, Poll, Stop, inits, disk
  <2> QED BY <2>1 DEF Inv, TypeOK, StageInv, FilesAt, BootInv, PortInv, Abandoned, Ended
<1> QED BY <1>1, <1>2

-----------------------------------------------------------------------------
(* initdb *)

\* While an initdb runs, no bootstrap server is left behind.
LEMMA OwnServer ==
  ASSUME OneInit, Inv, NEW i \in Inits, ~Ended(i)
  PROVE  /\ ~promised /\ dir
         /\ \A s \in Servers : kind[s] = "boot" /\ pc[s] # "off" => boot[i] = s
BY DEF OneInit, Inv, StageInv, BootInv, Abandoned

\* A step of initdb that leaves the servers alone.
LEMMA InitMoves ==
  ASSUME OneInit, Inv, NEW i \in Inits, NEW at \in InitPlaces, at \notin {"idle", "ok"},
         ini' = [ini EXCEPT ![i] = at], UNCHANGED <<pc, kind, boot, promised>>,
         ~promised, dir', FilesAt(at, files'), ini[i] \in WithServer <=> at \in WithServer,
         failed' \in [Inits -> BOOLEAN], at \in {"shut", "wait"} => ~failed'[i],
         \A s \in Servers : kind[s] = "boot" /\ pc[s] # "off" => boot[i] = s
  PROVE  Inv'
<1>1. \A j \in Inits : j = i /\ ini'[j] = at
  BY DEF OneInit, Inv, TypeOK
<1>2. TypeOK'
  BY DEF Inv, TypeOK
<1>3. StageInv'
  BY <1>1 DEF Inv, StageInv, Ended, FilesAt
<1>4. BootInv' /\ PortInv'
  BY DEF Inv, BootInv, PortInv
<1> QED BY <1>2, <1>3, <1>4 DEF Inv

\* Only an empty directory lets an initdb begin.
LEMMA PrepareInv == ASSUME OneInit, Inv, NEW i \in Inits, Prepare(i) PROVE Inv'
<1>1. /\ ini' = [ini EXCEPT ![i] = "conf"] /\ dir' /\ Ended(i) /\ (dir => Empty)
      /\ UNCHANGED <<files, pc, kind, boot, failed, promised>>
  BY DEF Prepare, To
<1>2. files = {} /\ ~promised
  BY <1>1 DEF Inv, StageInv, Empty
<1>3. boot[i] = NoOne /\ ini[i] \notin WithServer
  BY <1>1 DEF Inv, StageInv, Ended, WithServer
<1>4. \A s \in Servers : kind[s] = "boot" /\ pc[s] # "off" => boot[i] = s
  BY <1>2 DEF Inv, BootInv, Abandoned, OneInit
<1>5. FilesAt("conf", files') /\ failed' \in [Inits -> BOOLEAN] /\ "conf" \in InitPlaces /\ "conf" \notin WithServer
  BY <1>1, <1>2 DEF FilesAt, Inv, TypeOK, InitPlaces, WithServer
<1> QED BY <1>1, <1>2, <1>3, <1>4, <1>5, InitMoves

\* The steps up to the bootstrap server, and those of its client.
LEMMA WorkInv ==
  ASSUME OneInit, Inv, NEW i \in Inits,
         \/ WriteConf(i) \/ CreateBegin(i) \/ CreateEnd(i) \/ PortLine(i) \/ RunSql(i)
         \/ RunMarker(i) \/ ClientFails(i) \/ AskToStop(i) \/ GiveUp(i)
  PROVE  Inv'
<1>1. ~Ended(i)
  BY DEF WriteConf, CreateBegin, CreateEnd, PortLine, RunSql, RunMarker, ClientFails, AskToStop, GiveUp, Ended
<1>2. /\ ~promised /\ dir /\ FilesAt(ini[i], files)
      /\ ini[i] \in {"shut", "wait"} => ~failed[i]
      /\ \A s \in Servers : kind[s] = "boot" /\ pc[s] # "off" => boot[i] = s
      /\ failed \in [Inits -> BOOLEAN] /\ failed[i] \in BOOLEAN
  BY <1>1, OwnServer DEF Inv, TypeOK, StageInv
<1>3. CASE WriteConf(i) \/ CreateBegin(i) \/ CreateEnd(i)
  <2>1. PICK at \in {"create", "creating", "created"} :
          ini' = [ini EXCEPT ![i] = at] /\ FilesAt(at, files')
    <3>1. CASE WriteConf(i)
      BY <1>2, <3>1 DEF WriteConf, To, FilesAt
    <3>2. CASE CreateBegin(i)
      BY <1>2, <3>2 DEF CreateBegin, To, FilesAt
    <3>3. CASE CreateEnd(i)
      BY <1>2, <3>3 DEF CreateEnd, To, FilesAt
    <3> QED BY <1>3, <3>1, <3>2, <3>3
  <2>2. ini[i] \notin WithServer /\ UNCHANGED <<dir, pc, kind, boot, failed, promised>>
    BY <1>3 DEF WriteConf, CreateBegin, CreateEnd, WithServer
  <2> QED BY <1>2, <2>1, <2>2, InitMoves DEF InitPlaces, WithServer
<1>4. CASE PortLine(i) \/ RunSql(i) \/ ClientFails(i)
  <2>1. PICK at \in {"sql", "marker", "stopping"} :
          ini' = [ini EXCEPT ![i] = at] /\ FilesAt(at, files')
    <3>1. files' = files
      BY <1>4 DEF PortLine, RunSql, ClientFails, disk
    <3>2. CASE PortLine(i)
      <4> DEFINE at == IF pc[boot[i]] = "serving" THEN "sql" ELSE "stopping"
      <4>1. at \in {"sql", "stopping"} /\ ini' = [ini EXCEPT ![i] = at] /\ ini[i] = "port"
        BY <3>2 DEF PortLine, To
      <4> HIDE DEF at
      <4> QED BY <1>2, <3>1, <4>1 DEF FilesAt
    <3>3. CASE RunSql(i)
      BY <1>2, <3>1, <3>3 DEF RunSql, To, FilesAt
    <3>4. CASE ClientFails(i)
      BY <1>2, <3>1, <3>4 DEF ClientFails, To, FilesAt
    <3> QED BY <1>4, <3>2, <3>3, <3>4
  <2>2. ini[i] \in WithServer /\ UNCHANGED <<dir, pc, kind, boot, promised>>
    BY <1>4 DEF PortLine, RunSql, ClientFails, WithServer, disk
  <2>3. failed' \in [Inits -> BOOLEAN]
    BY <1>2, <1>4 DEF PortLine, RunSql, ClientFails
  <2> QED BY <1>2, <2>1, <2>2, <2>3, InitMoves DEF InitPlaces, WithServer
<1>5. CASE RunMarker(i)
  <2>1. /\ ini[i] = "marker" /\ files' = files \cup {"marker"}
        /\ UNCHANGED <<dir, pc, kind, boot, failed, promised>>
    BY <1>5 DEF RunMarker
  <2>2. PICK at \in {"stopping", "shut"} : ini' = [ini EXCEPT ![i] = at] /\ (at = "shut" => ~failed[i])
    BY <1>5 DEF RunMarker, To
  <2>3. FilesAt(at, files')
    BY <1>2, <2>1, <2>2 DEF FilesAt
  <2> QED BY <1>2, <2>1, <2>2, <2>3, InitMoves DEF InitPlaces, WithServer
<1>6. CASE AskToStop(i)
  <2>1. PICK at \in {"reap", "wait", "stopping"} :
          /\ ini' = [ini EXCEPT ![i] = at]
          /\ at = "wait" => ini[i] = "shut"
    <3>1. CASE ini[i] = "stopping"
      BY <1>6, <3>1 DEF AskToStop, To
    <3>2. CASE ini[i] = "shut" /\ \E s \in Servers : Answering(s)
      BY <1>6, <3>2 DEF AskToStop, To
    <3>3. CASE ini[i] = "shut" /\ ~\E s \in Servers : Answering(s)
      BY <1>6, <3>3 DEF AskToStop, To
    <3> QED BY <1>6, <3>1, <3>2, <3>3 DEF AskToStop
  <2>2. ini[i] \in {"shut", "stopping"} /\ UNCHANGED <<dir, files, pc, kind, boot, failed, promised>>
    BY <1>6 DEF AskToStop, disk
  <2>3. FilesAt(at, files')
    BY <1>2, <2>1, <2>2 DEF FilesAt
  <2> QED BY <1>2, <2>1, <2>2, <2>3, InitMoves DEF InitPlaces, WithServer
<1>7. CASE GiveUp(i)
  <2>1. /\ ini' = [ini EXCEPT ![i] = "rollback"] /\ ini[i] \notin WithServer
        /\ UNCHANGED <<dir, files, pc, kind, boot, failed, promised>>
    BY <1>7 DEF GiveUp, To, WithServer, disk
  <2>2. FilesAt("rollback", files')
    BY DEF FilesAt
  <2> QED BY <1>2, <2>1, <2>2, InitMoves DEF InitPlaces, WithServer
<1> QED BY <1>3, <1>4, <1>5, <1>6, <1>7

\* fork and exec of the bootstrap server: it is the only one.
LEMMA SpawnInv == ASSUME OneInit, Inv, NEW i \in Inits, Spawn(i) PROVE Inv'
<1>1. PICK s \in Servers : /\ boot' = [boot EXCEPT ![i] = s] /\ kind' = [kind EXCEPT ![s] = "boot"]
                           /\ pc' = [pc EXCEPT ![s] = "begun"]
  BY DEF Spawn, Goto
<1>2. ini[i] = "created" /\ ini' = [ini EXCEPT ![i] = "port"] /\ UNCHANGED <<dir, files, failed, promised>>
  BY DEF Spawn, To, disk
<1>3. ~Ended(i) /\ boot[i] = NoOne /\ FilesAt("port", files)
  BY <1>2 DEF Ended, Inv, StageInv, WithServer, FilesAt
<1>4. ~promised /\ dir /\ \A t \in Servers : kind[t] = "boot" => pc[t] = "off"
  BY <1>3, OwnServer, LifecycleAssumption
<1>5. \A j \in Inits : j = i /\ ini'[j] = "port" /\ boot'[j] = s
  BY <1>1, <1>2 DEF OneInit, Inv, TypeOK
<1>6. \A t \in Servers : /\ pc'[t] = IF t = s THEN "begun" ELSE pc[t]
                         /\ kind'[t] = IF t = s THEN "boot" ELSE kind[t]
  BY <1>1 DEF Inv, TypeOK
<1>7. TypeOK'
  BY <1>1, <1>2 DEF Inv, TypeOK, ServerPlaces, InitPlaces
<1>8. StageInv'
  BY <1>2, <1>3, <1>4, <1>5, LifecycleAssumption DEF StageInv, FilesAt, Ended, WithServer
<1>9. BootInv' /\ PortInv'
  BY <1>4, <1>5, <1>6 DEF Inv, BootInv, PortInv
<1> QED BY <1>7, <1>8, <1>9 DEF Inv

\* waitpid: the bootstrap server has ended, by itself or killed.
LEMMA ReapedInv == ASSUME OneInit, Inv, NEW i \in Inits, Reaped(i) PROVE Inv'
<1> DEFINE s == boot[i]
<1>1. /\ ini[i] \in {"wait", "reap"} /\ pc' = [pc EXCEPT ![s] = "off"] /\ kind' = [kind EXCEPT ![s] = "daemon"]
      /\ boot' = [boot EXCEPT ![i] = NoOne] /\ UNCHANGED <<dir, files>>
      /\ \/ ini[i] = "wait" /\ ini' = [ini EXCEPT ![i] = "ok"] /\ promised'
            /\ failed' = [failed EXCEPT ![i] = FALSE]
         \/ ini' = [ini EXCEPT ![i] = "rollback"] /\ promised' = promised /\ failed' = failed
  BY DEF Reaped, Finish, To, disk
<1>2. ~Ended(i) /\ s \in Servers /\ FilesAt(ini[i], files)
  BY <1>1 DEF Ended, Inv, TypeOK, StageInv, WithServer
<1>3. ~promised /\ dir /\ \A t \in Servers : kind[t] = "boot" /\ pc[t] # "off" => t = s
  BY <1>2, OwnServer
<1>4. /\ \A t \in Servers : /\ pc'[t] = IF t = s THEN "off" ELSE pc[t]
                            /\ kind'[t] = IF t = s THEN "daemon" ELSE kind[t]
      /\ \A j \in Inits : j = i /\ boot'[j] = NoOne /\ ini'[j] \in {"ok", "rollback"}
  BY <1>1, <1>2 DEF OneInit, Inv, TypeOK
<1>5. TypeOK'
  <2>1. failed' \in [Inits -> BOOLEAN]
    BY <1>1 DEF Inv, TypeOK
  <2> QED BY <1>1, <2>1 DEF Inv, TypeOK, ServerPlaces, InitPlaces
<1>6. promised' => "conf" \in files /\ \A j \in Inits : ini'[j] = "ok"
  BY <1>1, <1>2, <1>3, <1>4 DEF FilesAt, Inv, TypeOK
<1> HIDE DEF s
<1>7. StageInv'
  BY <1>1, <1>3, <1>4, <1>6 DEF StageInv, FilesAt, Ended, WithServer
<1>8. BootInv' /\ PortInv'
  BY <1>3, <1>4 DEF Inv, BootInv, PortInv, Listening
<1> QED BY <1>5, <1>7, <1>8 DEF Inv

\* A rollback, or the death of initdb, which leaves its server behind.
LEMMA OverInv == ASSUME OneInit, Inv, NEW i \in Inits, RollBack(i) \/ KillInit(i) PROVE Inv'
<1>1. /\ ini' = [ini EXCEPT ![i] = "idle"] /\ boot' = [boot EXCEPT ![i] = NoOne]
      /\ failed' = [failed EXCEPT ![i] = FALSE] /\ UNCHANGED <<kind, promised>> /\ ~Ended(i)
  BY DEF RollBack, KillInit, Finish, To, Ended
<1>2. ~promised /\ dir /\ \A s \in Servers : kind[s] = "boot" /\ pc[s] # "off" => boot[i] = s
  BY <1>1, OwnServer
<1>3. \A j \in Inits : j = i /\ ini'[j] = "idle" /\ boot'[j] = NoOne
  BY <1>1 DEF OneInit, Inv, TypeOK
<1>4. CASE RollBack(i)
  <2>1. files' = {} /\ pc' = pc /\ ini[i] = "rollback"
    BY <1>4 DEF RollBack
  <2>2. \A s \in Servers : kind[s] = "boot" => pc[s] = "off"
    BY <1>2, <2>1, LifecycleAssumption DEF Inv, StageInv, WithServer
  <2>3. TypeOK'
    BY <1>1, <2>1 DEF Inv, TypeOK, InitPlaces
  <2>4. StageInv' /\ BootInv' /\ PortInv'
    BY <1>1, <1>2, <1>3, <2>1, <2>2 DEF Inv, StageInv, FilesAt, Ended, WithServer, BootInv, PortInv
  <2> QED BY <2>3, <2>4 DEF Inv
<1>5. CASE KillInit(i)
  <2>1. UNCHANGED <<dir, files>>
    BY <1>5 DEF KillInit, disk
  <2>2. pc' = pc \/ (boot[i] # NoOne /\ pc[boot[i]] = "exited" /\ pc' = [pc EXCEPT ![boot[i]] = "off"])
    BY <1>5 DEF KillInit, Goto
  <2>3. \A s \in Servers : pc'[s] \in {pc[s], "off"}
    BY <2>2 DEF Inv, TypeOK
  <2>4. TypeOK'
    BY <1>1, <2>2 DEF Inv, TypeOK, InitPlaces, ServerPlaces
  <2>5. StageInv'
    BY <1>1, <1>2, <1>3, <2>1 DEF StageInv, FilesAt, Ended, WithServer
  <2>6. BootInv'
    <3> SUFFICES ASSUME NEW s \in Servers, kind[s] = "boot", pc'[s] # "off" PROVE Abandoned'
      BY <1>1 DEF BootInv
    <3>1. boot[i] = s
      BY <1>2, <2>3
    <3>2. ini[i] \in WithServer /\ FilesAt(ini[i], files)
      BY <3>1, LifecycleAssumption DEF Inv, StageInv
    <3>3. "conf" \in files
      BY <3>2 DEF WithServer, FilesAt
    <3> QED BY <1>1, <1>2, <1>3, <2>1, <3>3 DEF Abandoned, Ended
  <2>7. PortInv'
    BY <1>1, <2>3 DEF Inv, PortInv, Listening
  <2> QED BY <2>4, <2>5, <2>6, <2>7 DEF Inv
<1> QED BY <1>4, <1>5

-----------------------------------------------------------------------------
(* Theorems *)

\* Inv is inductive.
LEMMA NextInv == ASSUME OneInit, Inv, [Next]_vars PROVE Inv'
<1>1. ASSUME NEW s \in Servers, ServerStep(s) \/ Hang(s) \/ Kill(s) \/ Start(s) \/ StartStep(s) \/ Stop(s)
      PROVE  Inv'
  BY <1>1, ServerStepInv, StartInv
<1>2. ASSUME NEW i \in Inits, Prepare(i) \/ InitStep(i) \/ KillInit(i) PROVE Inv'
  BY <1>2, PrepareInv, WorkInv, SpawnInv, ReapedInv, OverInv DEF InitStep
<1>3. CASE UNCHANGED vars
  BY <1>3 DEF vars, Inv, TypeOK, StageInv, FilesAt, BootInv, PortInv, Abandoned, Ended
<1> QED BY <1>1, <1>2, <1>3 DEF Next

\* The inductive invariant: whose the bootstrap servers are, what files there
\* are at each step of initdb, and who may listen.
THEOREM LifecycleInvariant == OneInit => (Spec => []Inv)
<1> SUFFICES ASSUME OneInit PROVE Spec => []Inv
  OBVIOUS
<1>1. Init => Inv
  <2> SUFFICES ASSUME Init PROVE Inv
    OBVIOUS
  <2>1. TypeOK
    BY DEF Init, TypeOK, ServerPlaces, InitPlaces
  <2>2. /\ files = {} /\ ~promised /\ \A i \in Inits : ini[i] = "idle" /\ boot[i] = NoOne
        /\ \A s \in Servers : pc[s] = "off"
    BY DEF Init
  <2>3. StageInv /\ BootInv /\ PortInv
    BY <2>2 DEF StageInv, FilesAt, Ended, WithServer, BootInv, PortInv, Listening
  <2> QED BY <2>1, <2>3 DEF Inv
<1>2. Inv /\ [Next]_vars => Inv'
  BY NextInv
<1> QED BY <1>1, <1>2, PTL DEF Spec

\* Once initdb has reported success, two servers never work on the database
\* while either accepts commands: what the lock misses, the port catches.
THEOREM SoleServerHolds == OneInit => (Spec => []SoleServer)
<1> SUFFICES ASSUME OneInit PROVE Spec => []SoleServer
  OBVIOUS
<1>1. Inv => SoleServer
  <2> SUFFICES ASSUME Inv, promised
               PROVE  Cardinality({s \in Servers : pc[s] \in {"opening", "serving", "draining"}}) <= 1
    BY DEF SoleServer
  <2> DEFINE S == {s \in Servers : pc[s] \in {"opening", "serving", "draining"}}
  <2>1. \A i \in Inits : boot[i] = NoOne
    BY DEF Inv, StageInv, Ended, WithServer
  <2>2. \A s \in S : kind[s] = "daemon" /\ pc[s] \in Listening
    BY <2>1, LifecycleAssumption DEF Inv, TypeOK, BootInv, Abandoned, Listening
  <2>3. \A s, t \in S : s = t
    BY <2>2 DEF Inv, PortInv
  <2>4. CASE S = {}
    BY <2>4, FS_EmptySet
  <2>5. CASE S # {}
    <3>1. PICK s \in S : TRUE
      BY <2>5
    <3>2. S = {s}
      BY <2>3
    <3> HIDE DEF S
    <3>3. Cardinality(S) = 1
      BY <3>2, FS_Singleton
    <3> QED BY <3>3 DEF S
  <2> QED BY <2>4, <2>5
<1> QED BY <1>1, LifecycleInvariant, PTL

\* A failing initdb clears the directory only when no bootstrap server, its own or
\* one left behind, has the files open.
THEOREM RollBackHolds == OneInit => (Spec => []RollBackAlone)
<1> SUFFICES ASSUME OneInit PROVE Spec => []RollBackAlone
  OBVIOUS
<1>1. Inv => RollBackAlone
  <2> SUFFICES ASSUME Inv, NEW i \in Inits, ini[i] = "rollback", NEW s \in Servers, kind[s] = "boot"
               PROVE  pc[s] \notin EngineSteps
    BY DEF RollBackAlone
  <2>1. ~Ended(i) /\ boot[i] = NoOne
    BY DEF Ended, Inv, StageInv, WithServer
  <2>2. pc[s] = "off"
    BY <2>1, OwnServer, LifecycleAssumption
  <2> QED BY <2>2 DEF EngineSteps
<1> QED BY <1>1, LifecycleInvariant, PTL

\* A database whose initdb reported success keeps its files.
THEOREM DataKeptHolds == OneInit => (Spec => DataKept)
<1> SUFFICES ASSUME OneInit PROVE Spec => DataKept
  OBVIOUS
<1>1. ASSUME Inv, [Next]_vars, promised PROVE files \subseteq files'
  <2>1. \A i \in Inits : Ended(i)
    BY <1>1 DEF Inv, StageInv
  <2>2. ASSUME NEW i \in Inits, InitStep(i) PROVE FALSE
    BY <2>1, <2>2 DEF InitStep, Ended, WriteConf, CreateBegin, CreateEnd, Spawn, PortLine, RunSql, RunMarker,
                      ClientFails, AskToStop, Reaped, GiveUp, RollBack
  <2>3. ASSUME NEW i \in Inits, Prepare(i) \/ KillInit(i) PROVE files' = files
    BY <2>3 DEF Prepare, KillInit, disk
  <2>4. ASSUME NEW s \in Servers, ServerStep(s) PROVE files' = files
    BY <2>4 DEF ServerStep, OpenPidfile, Flock, BindPort, BindSocket, OpenEngine, Serve, OpenFails, Refuse,
                LeaveLoop, Drained, UnlinkSocket, UnlinkPidfile, CloseEngine, End, disk
  <2>5. ASSUME NEW s \in Servers, Hang(s) \/ Kill(s) \/ Start(s) \/ StartStep(s) \/ Stop(s) PROVE files' = files
    BY <2>5 DEF Hang, Kill, End, Start, StartStep, ParentReady, ParentFails, ParentLeaves, StartFails, Poll, Stop, disk
  <2> QED BY <1>1, <2>2, <2>3, <2>4, <2>5 DEF Next, vars
<1>2. Inv /\ [Next]_vars => [promised => files \subseteq files']_vars
  BY <1>1
<1> QED BY <1>2, LifecycleInvariant, PTL DEF Spec, DataKept

\* initdb reports success only for a complete directory, made by statements that
\* all succeeded.
THEOREM InitCompleteHolds == OneInit => (Spec => InitComplete)
<1> SUFFICES ASSUME OneInit PROVE Spec => InitComplete
  OBVIOUS
<1>1. ASSUME Inv, [Next]_vars, NEW i \in Inits, ini[i] # "ok", ini'[i] = "ok"
      PROVE  files' = {"conf", "db_table", "meta", "marker"} /\ ~failed[i]
  <2>1. ASSUME NEW j \in Inits, InitStep(j) \/ Prepare(j) \/ KillInit(j) PROVE Reaped(j) /\ j = i
    <3>1. j = i
      BY DEF OneInit
    <3>2. ini \in [Inits -> InitPlaces]
      BY <1>1 DEF Inv, TypeOK
    <3> QED BY <1>1, <2>1, <3>1, <3>2 DEF InitStep, WriteConf, CreateBegin, CreateEnd, Spawn, PortLine, RunSql,
              RunMarker, ClientFails, AskToStop, GiveUp, RollBack, Prepare, KillInit, Finish, To
  <2>2. ASSUME Reaped(i) PROVE files' = files /\ ini[i] = "wait"
    BY <1>1, <2>2 DEF Reaped, To, disk, Inv, TypeOK
  <2>3. ASSUME NEW s \in Servers, ServerStep(s) PROVE ini' = ini
    BY <2>3 DEF ServerStep, OpenPidfile, Flock, BindPort, BindSocket, OpenEngine, Serve, OpenFails, Refuse,
                LeaveLoop, Drained, UnlinkSocket, UnlinkPidfile, CloseEngine, End, inits
  <2>4. ASSUME NEW s \in Servers, Hang(s) \/ Kill(s) \/ Start(s) \/ StartStep(s) \/ Stop(s) PROVE ini' = ini
    BY <2>4 DEF Hang, Kill, End, Start, StartStep, ParentReady, ParentFails, ParentLeaves, StartFails, Poll, Stop, inits
  <2>5. Reaped(i)
    BY <1>1, <2>1, <2>3, <2>4 DEF Next, vars
  <2> QED BY <1>1, <2>2, <2>5 DEF Inv, StageInv, FilesAt
<1>2. Inv /\ [Next]_vars =>
        [\A i \in Inits : ini[i] # "ok" /\ ini'[i] = "ok" =>
           files' = {"conf", "db_table", "meta", "marker"} /\ ~failed[i]]_vars
  BY <1>1
<1> QED BY <1>2, LifecycleInvariant, PTL DEF Spec, InitComplete

=============================================================================
