--------------------------- MODULE DaemonLifecycle ---------------------------
(***************************************************************************)
(* The life of the rx port-forwarding daemon: rx-daemon processes that      *)
(* detach, write .rx/daemon.pid, bind the one daemon port and leave through *)
(* Daemonizer.__exit__, and the rx invocations that find, start, use and    *)
(* kill them (rx/daemon/{daemon,pidfile,server,interceptors,client,         *)
(* manager}.py, rx/client/commands/{daemon,workspace/port}.py).             *)
(*                                                                         *)
(* An rx invocation is a member c of Cmd.  It starts at most one daemon,    *)
(* so the daemon that c starts is process c: c is also that daemon's pid.   *)
(* Every step below is one access to state that processes share: the pid    *)
(* file of a workspace, the TCP port, a signal or an RPC.                   *)
(***************************************************************************)
EXTENDS Naturals, FiniteSets

CONSTANTS Cmd,        \* rx invocations, and the pids of the daemons they start
          Root,       \* workspaces (rxroots); all use the default daemon port
          Versions,   \* rx releases installed when an invocation begins
          Kinds,      \* the commands the invocations may be
          Tries,      \* connection attempts of start_daemon
          MaxFaults   \* bound: SIGKILLs and recycled pids in one behaviour

Sentinels == {"absent", "empty", "free", "other", "nobody", "unknown"}

ASSUME CmdAssumption == Cmd \cap Sentinels = {}
ASSUME KindsAssumption == Kinds \subseteq {"start", "stop", "restart", "port", "info"}
ASSUME BoundsAssumption == Tries \in Nat \ {0} /\ MaxFaults \in Nat

VARIABLES
  pidfile,   \* pidfile[r]: pid in .rx/daemon.pid of r, "empty" or "absent"
  port,      \* who holds the daemon port: a daemon, "other" or nobody ("free")
  proc,      \* proc[p]: where process p is
  sigint,    \* daemons with an undelivered SIGINT
  handler,   \* daemons that have installed the SIGINT handler
  victim,    \* victim[p]: the pid that Daemonizer.stop of p is killing
  kind, root, version,                \* inputs of each invocation
  cli,       \* cli[c]: local state of invocation c
  faults     \* faults so far

inputs == <<kind, root, version>>
os     == <<pidfile, port, proc, sigint, handler, victim>>
vars   == <<os, inputs, cli, faults>>

ProcState == {"none", "boot", "torn", "detached", "named", "bound", "armed",
              "serving", "leaving", "killing", "atexit", "dead", "foreign"}
PcState == {"new", "probe", "reread", "spawn", "poll", "connect", "ping", "pinged",
            "hangup", "hungup", "call", "request", "answered", "sigint", "done"}
Codes == {"none", "OK", "UNAVAILABLE", "FAILED_PRECONDITION"}
Results == {"running", "0", "-1", "AssertionError", "NotFoundError",
            "ProcessLookupError", "RetryError", "ValueError"}

\* code and from are the status of the last RPC and the pid it came from.
Cli == [pc : PcState, seen : Cmd \cup {"unknown"}, tries : 0..Tries,
        code : Codes, from : Cmd \cup {"nobody"}, result : Results]
Fresh == [pc |-> "new", seen |-> "unknown", tries |-> Tries,
          code |-> "none", from |-> "nobody", result |-> "running"]

TypeOK ==
  /\ pidfile \in [Root -> Cmd \cup {"absent", "empty"}]
  /\ port \in Cmd \cup {"free", "other"}
  /\ proc \in [Cmd -> ProcState]
  /\ sigint \in SUBSET Cmd
  /\ handler \in SUBSET Cmd
  /\ victim \in [Cmd -> Cmd \cup {"nobody"}]
  /\ kind \in [Cmd -> Kinds]
  /\ root \in [Cmd -> Root]
  /\ version \in [Cmd -> Versions]
  /\ cli \in [Cmd -> Cli]
  /\ faults \in 0..MaxFaults

Init ==
  /\ pidfile = [r \in Root |-> "absent"]
  /\ port \in {"free", "other"}
  /\ proc = [p \in Cmd |-> "none"]
  /\ sigint = {}
  /\ handler = {}
  /\ victim = [p \in Cmd |-> "nobody"]
  /\ kind \in [Cmd -> Kinds]
  /\ root \in [Cmd -> Root]
  /\ version \in [Cmd -> Versions]
  /\ cli = [c \in Cmd |-> Fresh]
  /\ faults = 0

(***************************************************************************)
(* Processes, signals and the pid file (external, and pidfile.py)           *)
(***************************************************************************)

Dead(p)  == proc[p] \in {"none", "dead"}
Alive(p) == ~Dead(p)

\* The kernel tears a process down: its port is released with it.
Dies(p) ==
  /\ proc' = [proc EXCEPT ![p] = "dead"]
  /\ port' = IF port = p THEN "free" ELSE port
  /\ sigint' = sigint \ {p}
  /\ handler' = handler \ {p}
  /\ victim' = [victim EXCEPT ![p] = "nobody"]

\* The pid file of the workspace of c (PidFile.__init__).  Mutant: one pid file
\* for all workspaces.
SharedPidFile(c) == CHOOSE r \in Root : TRUE
PidFileOf(c) == root[c]

\* PidFile.delete unlinks the name.  A daemon of the workspace that has the
\* file open and not yet flushed goes on writing to the unlinked file.
Delete(r) == pidfile' = [pidfile EXCEPT ![r] = "absent"]
Orphaned(r) ==
  [p \in Cmd |-> IF proc[p] = "torn" /\ PidFileOf(p) = r THEN "detached" ELSE proc[p]]

(***************************************************************************)
(* The daemon process                                                      *)
(***************************************************************************)

\* PidFile.write, first half: the file is opened for writing and truncated.
Truncate(p) ==
  /\ proc[p] = "boot"
  /\ proc' = [proc EXCEPT ![p] = "torn"]
  /\ pidfile' = [pidfile EXCEPT ![PidFileOf(p)] = "empty"]
  /\ UNCHANGED <<port, sigint, handler, victim, inputs, cli, faults>>

\* Mutant: the file is not flushed and closed.
WritePidUnflushed(p) ==
  /\ proc[p] \in {"torn", "detached"}
  /\ proc' = [proc EXCEPT ![p] = "named"]
  /\ UNCHANGED <<pidfile, port, sigint, handler, victim, inputs, cli, faults>>

\* PidFile.write, second half: the pid is flushed when the file is closed.
WritePid(p) ==
  /\ proc[p] \in {"torn", "detached"}
  /\ proc' = [proc EXCEPT ![p] = "named"]
  /\ pidfile' = IF proc[p] = "torn" THEN [pidfile EXCEPT ![PidFileOf(p)] = p]
                                    ELSE pidfile
  /\ UNCHANGED <<port, sigint, handler, victim, inputs, cli, faults>>

\* _start_server: add_insecure_port, with so_reuseport off.  Mutant: gRPC's
\* default, which lets several servers listen on the port.
CanBindReuse == port \in Cmd \cup {"free"}
CanBind == port = "free"

Bind(p) ==
  /\ proc[p] = "named"
  /\ p \notin sigint
  /\ IF CanBind THEN /\ port' = p
                     /\ proc' = [proc EXCEPT ![p] = "bound"]
                ELSE /\ port' = port
                     /\ proc' = [proc EXCEPT ![p] = "leaving"]
  /\ UNCHANGED <<pidfile, sigint, handler, victim, inputs, cli, faults>>

\* _start_server: signal.signal installs the SIGINT handler.
InstallHandler(p) ==
  /\ proc[p] = "bound"
  /\ p \notin sigint
  /\ proc' = [proc EXCEPT ![p] = "armed"]
  /\ handler' = handler \cup {p}
  /\ UNCHANGED <<pidfile, port, sigint, victim, inputs, cli, faults>>

\* _start_server: server.start.
Serve(p) ==
  /\ proc[p] = "armed"
  /\ p \notin sigint
  /\ proc' = [proc EXCEPT ![p] = "serving"]
  /\ UNCHANGED <<pidfile, port, sigint, handler, victim, inputs, cli, faults>>

\* Mutant: the handler closes the forwarded ports and forgets server.stop.
OnSigintClosePortsOnly(p) ==
  /\ p \in sigint
  /\ sigint' = sigint \ {p}
  /\ UNCHANGED <<pidfile, port, proc, handler, victim, inputs, cli, faults>>

\* Delivery of SIGINT.  With the handler installed the server stops and
\* wait_for_termination returns; where the handler runs before server.start, stop
\* finds a server that is not started and does nothing, and the daemon goes on
\* to serve.  Before the handler is installed, Python's own handler raises
\* KeyboardInterrupt, which unwinds through Daemonizer.__exit__, out of it, or
\* (in the last instructions of __enter__) past it.
OnSigint(p) ==
  /\ p \in sigint
  /\ sigint' = sigint \ {p}
  /\ \/ /\ p \in handler /\ proc[p] = "serving"
        /\ port' = "free"
        /\ proc' = [proc EXCEPT ![p] = "leaving"]
     \/ /\ p \in handler /\ proc[p] \in {"armed", "leaving", "killing", "atexit"}
        /\ UNCHANGED <<port, proc>>
     \/ /\ p \notin handler /\ proc[p] \in {"named", "bound"}
        /\ port' = port
        /\ proc' = [proc EXCEPT ![p] = "leaving"]
     \/ /\ p \notin handler /\ proc[p] \in {"named", "leaving", "killing", "atexit"}
        /\ port' = port
        /\ proc' = [proc EXCEPT ![p] = "atexit"]
  /\ UNCHANGED <<pidfile, handler, victim, inputs, cli, faults>>

\* Daemonizer.stop, called by __exit__, up to its first os.kill.  A missing or
\* empty pid file raises out of __exit__; a pid file that names this process
\* makes it SIGTERM itself, and atexit callbacks do not run then.
StopSelf(p) ==
  /\ proc[p] = "leaving"
  /\ p \notin sigint
  /\ LET pid == pidfile[PidFileOf(p)] IN
     \/ /\ pid \in {"absent", "empty"}
        /\ proc' = [proc EXCEPT ![p] = "atexit"]
        /\ UNCHANGED <<port, sigint, handler, victim>>
     \/ /\ pid = p
        /\ Dies(p)
     \/ /\ pid \in Cmd \ {p}
        /\ proc' = [proc EXCEPT ![p] = "killing"]
        /\ victim' = [victim EXCEPT ![p] = pid]
        /\ UNCHANGED <<port, sigint, handler>>
  /\ UNCHANGED <<pidfile, inputs, cli, faults>>

\* Daemonizer.stop, one round of its loop: SIGTERM, or ESRCH and the pid file
\* is deleted.
KillRound(p) ==
  /\ proc[p] = "killing"
  /\ p \notin sigint
  /\ IF Alive(victim[p])
     THEN Dies(victim[p]) /\ pidfile' = pidfile
     ELSE /\ Delete(PidFileOf(p))
          /\ proc' = [Orphaned(PidFileOf(p)) EXCEPT ![p] = "atexit"]
          /\ victim' = [victim EXCEPT ![p] = "nobody"]
          /\ UNCHANGED <<port, sigint, handler>>
  /\ UNCHANGED <<inputs, cli, faults>>

\* The atexit callback registered by daemonize, and the end of the process.
AtExit(p) ==
  /\ proc[p] = "atexit"
  /\ p \notin sigint
  /\ Delete(PidFileOf(p))
  /\ proc' = [Orphaned(PidFileOf(p)) EXCEPT ![p] = "dead"]
  /\ port' = IF port = p THEN "free" ELSE port
  /\ UNCHANGED <<sigint, handler, victim, inputs, cli, faults>>

DaemonStep(p) ==
  \/ Truncate(p) \/ WritePid(p) \/ Bind(p) \/ InstallHandler(p) \/ Serve(p)
  \/ OnSigint(p) \/ StopSelf(p) \/ KillRound(p) \/ AtExit(p)

(***************************************************************************)
(* RPCs: the interceptors of the daemon and the client's error handling     *)
(***************************************************************************)

\* PidCheck and VersionCheck of daemon d, for a request with metadata pid.
\* Mutants: no pid check; a check that lets a missing pid pass.
NoPidCheck(d, pid)  == TRUE
LaxPidCheck(d, pid) == pid \in {d, "unknown"}
PidCheck(d, pid)    == pid = d
VersionCheck(d, c)  == version[d] = version[c]

Intercept(d, c, pid) ==
  IF PidCheck(d, pid) /\ VersionCheck(d, c) THEN "OK" ELSE "FAILED_PRECONDITION"

\* An RPC to localhost:daemon_port.  A daemon that has bound the port and is
\* not (or no longer) serving leaves the call waiting; anything else on the
\* port is not gRPC and fails the call like a closed port does.
Rpc(c, pid, label) ==
  /\ port \in Cmd => proc[port] = "serving"
  /\ cli' = [cli EXCEPT ![c] = [@ EXCEPT
       !.pc   = label,
       !.code = IF port \in Cmd THEN Intercept(port, c, pid) ELSE "UNAVAILABLE",
       !.from = IF port \in Cmd THEN port ELSE "nobody"]]

Goto(c, label) == cli' = [cli EXCEPT ![c] = [@ EXCEPT !.pc = label]]
Finish(c, r)   == cli' = [cli EXCEPT ![c] = [Fresh EXCEPT !.pc = "done", !.result = r]]

\* handle_rpc_error of a refused call: SIGTERM the daemon that answered, then
\* raise RetryError, which has outcome r.
KillAnswerer(c, r) ==
  /\ cli[c].code = "FAILED_PRECONDITION"
  /\ IF Alive(cli[c].from)
     THEN Dies(cli[c].from) /\ pidfile' = pidfile /\ r
     ELSE UNCHANGED os /\ Finish(c, "ProcessLookupError")

(***************************************************************************)
(* rx invocations                                                          *)
(***************************************************************************)

NeedsDaemon(c) == kind[c] \in {"start", "port", "info"}
Stops(c)       == kind[c] \in {"stop", "restart"}

\* What an invocation does when no process has the pid of the pid file.
NotRunning(c) == IF kind[c] = "info" THEN Finish(c, "0") ELSE Goto(c, "spawn")

\* PidFile.pid, read by c, which goes on at label; a file that is not there is
\* handled by absent, and an empty one is int(''), a ValueError nobody catches.
ReadPid(c, label, absent) ==
  LET pid == pidfile[PidFileOf(c)] IN
  \/ pid \in Cmd /\ cli' = [cli EXCEPT ![c] = [@ EXCEPT !.seen = pid, !.pc = label]]
  \/ pid = "absent" /\ absent
  \/ pid = "empty" /\ Finish(c, "ValueError")

\* The invocation begins by reading the pid file (PidFile.is_running, or
\* StopCommand._run).
Begin(c) ==
  /\ cli[c].pc = "new"
  /\ \/ NeedsDaemon(c) /\ ReadPid(c, "probe", NotRunning(c))
     \/ Stops(c) /\ ReadPid(c, "sigint", Goto(c, "hangup"))
  /\ UNCHANGED <<os, inputs, faults>>

\* PidFile.is_running: os.kill(pid, 0).
Probe(c) ==
  /\ cli[c].pc = "probe"
  /\ \/ Dead(cli[c].seen) /\ NotRunning(c)
     \/ Alive(cli[c].seen) /\ kind[c] = "start" /\ Finish(c, "0")
     \/ Alive(cli[c].seen) /\ kind[c] = "info" /\ Goto(c, "reread")
     \/ Alive(cli[c].seen) /\ kind[c] = "port" /\ Goto(c, "call")
  /\ UNCHANGED <<os, inputs, faults>>

\* InfoCommand reads the pid file again to print the pid.
Reread(c) ==
  /\ cli[c].pc = "reread"
  /\ Finish(c, CASE pidfile[PidFileOf(c)] = "absent" -> "NotFoundError"
                 [] pidfile[PidFileOf(c)] = "empty"  -> "ValueError"
                 [] OTHER                       -> "0")
  /\ UNCHANGED <<os, inputs, faults>>

\* start_daemon: Popen of rx-daemon.
Spawn(c) ==
  /\ cli[c].pc = "spawn"
  /\ proc' = [proc EXCEPT ![c] = "boot"]
  /\ Goto(c, "poll")
  /\ UNCHANGED <<pidfile, port, sigint, handler, victim, inputs, faults>>

\* start_daemon: one more attempt, if there is one left.  Mutant: the attempts
\* are not counted.
AttemptsLeft(c) == cli[c].tries > 0

OutOfAttempts(c) == IF kind[c] = "port" THEN Goto(c, "hangup") ELSE Finish(c, "-1")

PollUncounted(c) ==
  /\ cli[c].pc = "poll"
  /\ IF AttemptsLeft(c) THEN Goto(c, "connect") ELSE OutOfAttempts(c)
  /\ UNCHANGED <<os, inputs, faults>>
Poll(c) ==
  /\ cli[c].pc = "poll"
  /\ IF AttemptsLeft(c)
     THEN cli' = [cli EXCEPT ![c] = [@ EXCEPT !.pc = "connect", !.tries = cli[c].tries - 1]]
     ELSE OutOfAttempts(c)
  /\ UNCHANGED <<os, inputs, faults>>

\* start_daemon: Client() reads the pid file; NotFoundError ends the attempt.
Connect(c) ==
  /\ cli[c].pc = "connect"
  /\ ReadPid(c, "ping", Goto(c, "poll"))
  /\ UNCHANGED <<os, inputs, faults>>

\* Client.is_running: a GetPorts call with the pid just read.
Ping(c) ==
  /\ cli[c].pc = "ping"
  /\ Rpc(c, cli[c].seen, "pinged")
  /\ UNCHANGED <<os, inputs, faults>>

\* start_daemon handles the answer.  Only maybe_start_daemon catches the
\* RetryError of a refused call.
Pinged(c) ==
  /\ cli[c].pc = "pinged"
  /\ \/ /\ cli[c].code = "OK"
        /\ IF kind[c] = "port" THEN Goto(c, "call") ELSE Finish(c, "0")
        /\ UNCHANGED os
     \/ cli[c].code = "UNAVAILABLE" /\ Goto(c, "poll") /\ UNCHANGED os
     \/ KillAnswerer(c, Finish(c, IF kind[c] = "port" THEN "-1" ELSE "RetryError"))
  /\ UNCHANGED <<inputs, faults>>

\* connect_and_kill: GetPorts with a pid that no daemon has.
HangUp(c) ==
  /\ cli[c].pc = "hangup"
  /\ Rpc(c, "unknown", "hungup")
  /\ UNCHANGED <<os, inputs, faults>>

\* What follows connect_and_kill in the command that called it.
AfterHangUp(c) ==
  IF kind[c] = "restart" THEN Goto(c, "spawn")
  ELSE Finish(c, IF kind[c] = "stop" THEN "0" ELSE "-1")

HungUp(c) ==
  /\ cli[c].pc = "hungup"
  /\ \/ cli[c].code = "OK" /\ Finish(c, "AssertionError") /\ UNCHANGED os
     \/ cli[c].code = "UNAVAILABLE" /\ AfterHangUp(c) /\ UNCHANGED os
     \/ KillAnswerer(c, AfterHangUp(c))
  /\ UNCHANGED <<inputs, faults>>

\* port.Command._run: get_daemon_client reads the pid file once more.
Call(c) ==
  /\ cli[c].pc = "call"
  /\ ReadPid(c, "request", Finish(c, "NotFoundError"))
  /\ UNCHANGED <<os, inputs, faults>>

\* _call_daemon: the OpenPort, ClosePort or GetPorts call itself.
Request(c) ==
  /\ cli[c].pc = "request"
  /\ Rpc(c, cli[c].seen, "answered")
  /\ UNCHANGED <<os, inputs, faults>>

\* port.Command._run handles the answer; RetryError is not caught.
Answered(c) ==
  /\ cli[c].pc = "answered"
  /\ \/ cli[c].code = "OK" /\ Finish(c, "0") /\ UNCHANGED os
     \/ cli[c].code = "UNAVAILABLE" /\ Finish(c, "-1") /\ UNCHANGED os
     \/ KillAnswerer(c, Finish(c, "RetryError"))
  /\ UNCHANGED <<inputs, faults>>

\* kill_by_pid: SIGINT to the pid of the pid file.  A process that is not a
\* daemon of ours dies of it.
Interrupt(c) ==
  /\ cli[c].pc = "sigint"
  /\ LET pid == cli[c].seen IN
     /\ Alive(pid)
     /\ IF proc[pid] = "foreign"
        THEN Dies(pid)
        ELSE /\ sigint' = sigint \cup {pid}
             /\ UNCHANGED <<port, proc, handler, victim>>
  /\ pidfile' = pidfile
  /\ IF kind[c] = "stop" THEN Finish(c, "0") ELSE Goto(c, "spawn")
  /\ UNCHANGED <<inputs, faults>>

\* kill_by_pid, no such process: the pid file is deleted, and StopCommand._run
\* goes on to connect_and_kill.  Mutant: it counts as stopped.
NobodyThereIsStopped(c) ==
  /\ cli[c].pc = "sigint"
  /\ Dead(cli[c].seen)
  /\ Delete(PidFileOf(c))
  /\ proc' = Orphaned(PidFileOf(c))
  /\ Finish(c, "0")
  /\ UNCHANGED <<port, sigint, handler, victim, inputs, faults>>
NobodyThere(c) ==
  /\ cli[c].pc = "sigint"
  /\ Dead(cli[c].seen)
  /\ Delete(PidFileOf(c))
  /\ proc' = Orphaned(PidFileOf(c))
  /\ Goto(c, "hangup")
  /\ UNCHANGED <<port, sigint, handler, victim, inputs, faults>>

CmdStep(c) ==
  \/ Probe(c) \/ Reread(c) \/ Spawn(c) \/ Poll(c) \/ Connect(c) \/ Ping(c)
  \/ Pinged(c) \/ HangUp(c) \/ HungUp(c) \/ Call(c) \/ Request(c) \/ Answered(c)
  \/ Interrupt(c) \/ NobodyThere(c)

(***************************************************************************)
(* Faults: a daemon is SIGKILLed; the pid of a dead daemon is given to an   *)
(* unrelated process of the same user.  It is not given to an rx daemon of  *)
(* another workspace: that one would take the pid for its own, and no check *)
(* of the code can tell.                                                    *)
(***************************************************************************)

Crash(p) ==
  /\ faults < MaxFaults
  /\ Alive(p)
  /\ Dies(p)
  /\ faults' = faults + 1
  /\ UNCHANGED <<pidfile, inputs, cli>>

Recycle(p) ==
  /\ faults < MaxFaults
  /\ proc[p] = "dead"
  /\ proc' = [proc EXCEPT ![p] = "foreign"]
  /\ faults' = faults + 1
  /\ UNCHANGED <<pidfile, port, sigint, handler, victim, inputs, cli>>

Done == (\A c \in Cmd : cli[c].pc = "done") /\ UNCHANGED vars

Next ==
  \/ \E c \in Cmd : Begin(c) \/ CmdStep(c) \/ DaemonStep(c) \/ Crash(c) \/ Recycle(c)
  \/ Done

\* A running process makes progress.  Nobody has to type a command, and no
\* fault has to happen.
Fairness == \A c \in Cmd : WF_vars(CmdStep(c)) /\ WF_vars(DaemonStep(c))

Spec == Init /\ [][Next]_vars /\ Fairness

(***************************************************************************)
(* Safety                                                                  *)
(***************************************************************************)

\* An answered call was answered by a daemon of the caller's workspace and
\* version: what the interceptors are for, although every workspace uses one
\* port and the pid file is rewritten and deleted by several processes
\* (interceptors.py, PidCheck and VersionCheck).
SameWorkspace ==
  \A c \in Cmd : cli[c].code = "OK" =>
     root[cli[c].from] = root[c] /\ version[cli[c].from] = version[c]

\* The pids that are signalled because a pid file named them (kill_by_pid and
\* Daemonizer.stop) were given to daemons of that workspace: stopping one
\* workspace never interrupts the daemon of another.
SignalsOwnWorkspace ==
  /\ \A c \in Cmd : cli[c].pc = "sigint" => root[cli[c].seen] = root[c]
  /\ \A p \in Cmd : proc[p] = "killing" => root[victim[p]] = root[p]

\* The assertion of connect_and_kill (manager.py, "assert False") never fires:
\* no daemon accepts a call that carries no pid.
NoAssertion == \A c \in Cmd : cli[c].result # "AssertionError"

(***************************************************************************)
(* Liveness                                                                *)
(***************************************************************************)

\* An rx invocation that has begun ends, whatever the daemons do meanwhile:
\* start_daemon's attempts are bounded and no RPC waits for ever.
CommandsFinish == \A c \in Cmd : cli[c].pc # "new" ~> cli[c].pc = "done"

\* A daemon that was sent SIGINT by "rx daemon stop" is gone some time later,
\* wherever in its life the signal caught it, but for one place: between
\* signal.signal and server.start the signal is swallowed (server.py,
\* _start_server and get_signal_handler).
Swallowed(p) == proc[p] = "armed" /\ p \notin sigint
InterruptedDaemonDies == \A p \in Cmd : p \in sigint ~> Dead(p) \/ Swallowed(p)

\* The race for the port settles: in the end at most one daemon is left, it
\* serves, and every daemon that lost the race or was told to stop is gone.
SettlesToOneDaemon ==
  <>[](\A p \in Cmd : \/ proc[p] \in {"none", "dead", "foreign"}
                      \/ proc[p] = "serving" /\ port = p)

\* "rx daemon stop" run on its own leaves no daemon behind, even where the pid
\* file does not name the daemon that serves: c is the last invocation, every
\* daemon has come to rest, and once c is done they are all gone some time
\* later (StopCommand._run with its fallback connect_and_kill).
Alone(c) ==
  /\ \A d \in Cmd \ {c} : cli[d].pc = "done"
  /\ \A p \in Cmd : Alive(p) => proc[p] = "serving"
StopLeavesNothing ==
  \A c \in Cmd :
    [](kind[c] = "stop" /\ cli[c].pc = "new" /\ Alone(c)
         => [](cli[c].pc = "done" => <>(\A p \in Cmd : Dead(p))))

\* Without a crash a pid file does not stay empty, so that the ValueError it
\* gives every reader is transient (PidFile.write).
PidFileHeals == \A r \in Root : pidfile[r] = "empty" ~> pidfile[r] # "empty"

(***************************************************************************)
(* What safety contributes to liveness: the program is always where the     *)
(* fair steps can do the rest.                                             *)
(***************************************************************************)

\* Of PidFileHeals: unless there was a fault, an empty pid file is one that a
\* daemon of the workspace has open and is about to fill (PidFile.write): no
\* signal that rx itself sends can leave it empty.
EmptyIsBeingWritten ==
  faults = 0 =>
    \A r \in Root : pidfile[r] = "empty" =>
      \E p \in Cmd : proc[p] = "torn" /\ PidFileOf(p) = r

\* Of InterruptedDaemonDies: a SIGINT that is on its way is on its way to a daemon
\* that has one of the two handlers (none has ended, is about to write its pid
\* file, or has become another process), and it goes on being so until the
\* daemon is leaving or dead, or is at the one place that swallows it.
SignalHandled ==
  \A p \in sigint :
    \/ p \in handler /\ proc[p] \in {"armed", "serving", "leaving", "killing", "atexit"}
    \/ p \notin handler /\ proc[p] \in {"named", "bound", "leaving", "killing", "atexit"}
SignalEnds ==
  \A p \in sigint : p \notin sigint' =>
    proc'[p] \in {"leaving", "killing", "atexit", "dead"} \/ proc[p] = "armed"
SignalTaken == []SignalHandled /\ [][SignalEnds]_vars

\* Of StopLeavesNothing: when "rx daemon stop" is done, every daemon that is left
\* has a SIGINT on its way or is already leaving, whether the pid file named it,
\* named a dead process or was not there.  No fault happens meanwhile, and no
\* fault before it has left the pid file empty: on that one StopCommand._run
\* raises ValueError.
Going(p) == p \in sigint \/ proc[p] \in {"leaving", "killing", "atexit"}
StopReaches ==
  \A c \in Cmd :
    [](/\ kind[c] = "stop" /\ cli[c].pc = "new" /\ Alone(c)
       /\ faults = MaxFaults /\ (faults = 0 \/ pidfile[PidFileOf(c)] # "empty")
     => [](cli[c].pc = "done" => \A p \in Cmd : Alive(p) => Going(p)))
=============================================================================
