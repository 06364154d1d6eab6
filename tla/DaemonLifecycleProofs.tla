----------------------- MODULE DaemonLifecycleProofs -----------------------
(***************************************************************************)
(* The safety properties of DaemonLifecycle, and what safety contributes to *)
(* its liveness properties, for any number of invocations, workspaces,      *)
(* versions, connection attempts and faults.                                *)
(***************************************************************************)
EXTENDS DaemonLifecycle, TLAPS

(***************************************************************************)
(* The inductive invariants                                                *)
(***************************************************************************)

\* A pid file only ever holds pids of daemons of its own workspace.
PidFilesOwn == \A r \in Root : pidfile[r] \in Cmd => root[pidfile[r]] = r

\* So does the pid that Daemonizer.stop took from it.
VictimsOwn ==
  \A p \in Cmd : /\ victim[p] \in Cmd => root[victim[p]] = root[p]
                 /\ proc[p] = "killing" => victim[p] \in Cmd

\* And the pid an invocation has read; the answer it holds is one that the
\* interceptors can give.
CliOwn(c) ==
  /\ cli[c].seen \in Cmd => root[cli[c].seen] = root[c]
  /\ cli[c].pc \in {"probe", "ping", "request", "sigint"} => cli[c].seen \in Cmd
  /\ cli[c].code \in {"OK", "FAILED_PRECONDITION"} => cli[c].from \in Cmd
  /\ cli[c].code = "OK" => /\ root[cli[c].from] = root[c]
                           /\ version[cli[c].from] = version[c]
  /\ cli[c].pc = "hungup" => cli[c].code # "OK"
  /\ cli[c].result # "AssertionError"

Provenance == PidFilesOwn /\ VictimsOwn /\ \A c \in Cmd : CliOwn(c)

\* A daemon that has bound the port holds it until it leaves, so that at most
\* one daemon serves (_start_server, with so_reuseport off).
PortInv == \A p \in Cmd : proc[p] \in {"bound", "armed", "serving"} => port = p

\* start_daemon runs at most once in an invocation: before it nothing has been
\* started under the pid that stands for this invocation's daemon.
StartsOnce(c) ==
  /\ \/ cli[c].pc \in {"new", "probe", "spawn", "sigint"}
     \/ Stops(c) /\ cli[c].pc \in {"hangup", "hungup"}
     => proc[c] = "none"
  /\ cli[c].pc = "sigint" => Stops(c)

\* p has written its pid, or what was p has since died.
Past(p) == proc[p] \notin {"none", "boot", "torn", "detached"}

\* Whoever can be sent a signal has written its pid: the pid was read from a
\* pid file or comes from a daemon that answered.
Held ==
  /\ \A r \in Root : pidfile[r] \in Cmd => Past(pidfile[r])
  /\ port \in Cmd => Past(port)
  /\ \A p \in Cmd : victim[p] \in Cmd => Past(victim[p])
  /\ \A c \in Cmd : /\ cli[c].seen \in Cmd => Past(cli[c].seen)
                    /\ cli[c].from \in Cmd => Past(cli[c].from)

LifeInv == PortInv /\ Held /\ EmptyIsBeingWritten /\ \A c \in Cmd : StartsOnce(c)

\* The handler is installed before the server starts and stays until the end.
HandlerInv ==
  \A p \in Cmd :
    /\ proc[p] \in {"armed", "serving"} => p \in handler
    /\ p \in handler => proc[p] \in {"armed", "serving", "leaving", "killing", "atexit", "dead", "foreign"}

\* Once "rx daemon stop" is left alone (StopReaches): c is the only invocation,
\* at most one daemon is left, and the answer that connect_and_kill waits for
\* comes from that daemon.
StopInv(c) ==
  /\ kind[c] = "stop" /\ faults = MaxFaults
  /\ cli[c].pc \in {"new", "sigint", "hangup", "hungup", "done"}
  /\ \A d \in Cmd \ {c} : cli[d].pc = "done"
  /\ \A p \in Cmd : Alive(p) => proc[p] \in {"serving", "leaving", "killing", "atexit"}
  /\ \A p, q \in Cmd : Alive(p) /\ Alive(q) => p = q
  /\ cli[c].pc = "new" => pidfile[PidFileOf(c)] # "empty"
  /\ cli[c].pc = "hungup" =>
       \/ cli[c].code = "FAILED_PRECONDITION" /\ \A p \in Cmd : Alive(p) => p = cli[c].from
       \/ cli[c].code = "UNAVAILABLE" /\ \A p \in Cmd : Alive(p) => Going(p)
  /\ cli[c].pc = "done" => \A p \in Cmd : Alive(p) => Going(p)

IInv == TypeOK /\ Provenance

\* The labels at which an invocation relies neither on the pid it has read nor
\* on the answer it holds.
Quiet == {"new", "reread", "spawn", "poll", "connect", "hangup", "call", "done"}

(***************************************************************************)
(* What the building blocks of the actions preserve                        *)
(***************************************************************************)

\* The typing and the provenance of one invocation's local state, primed.
CliGood == cli \in [Cmd -> Cli] /\ \A d \in Cmd : CliOwn(d)

\* Moving an invocation to a label that relies on nothing keeps CliGood.
LEMMA GotoKeeps ==
  ASSUME CliGood, UNCHANGED inputs, NEW c \in Cmd, NEW label \in Quiet, Goto(c, label)
  PROVE  CliGood'
<1>1. cli' \in [Cmd -> Cli]
  BY DEF CliGood, Goto, Quiet, Cli, PcState
<1>2. ASSUME NEW d \in Cmd PROVE CliOwn(d)'
  <2>1. CliOwn(d) /\ cli \in [Cmd -> Cli]
    BY DEF CliGood
  <2>2. CASE d = c
    BY <2>1, <2>2 DEF CliOwn, Goto, Quiet, Cli, inputs
  <2>3. CASE d # c
    BY <2>1, <2>3 DEF CliOwn, Goto, Cli, inputs
  <2> QED BY <2>2, <2>3
<1> QED BY <1>1, <1>2 DEF CliGood

\* So does ending it with anything but the assertion error.
LEMMA FinishKeeps ==
  ASSUME CliGood, UNCHANGED inputs, NEW c \in Cmd,
         NEW r \in Results \ {"AssertionError"}, Finish(c, r)
  PROVE  CliGood'
<1>0. Fresh \in Cli
  BY BoundsAssumption DEF Fresh, Cli, PcState, Codes, Results
<1>1. cli' \in [Cmd -> Cli]
  BY <1>0 DEF CliGood, Finish, Cli, PcState
<1>2. ASSUME NEW d \in Cmd PROVE CliOwn(d)'
  <2>1. CliOwn(d) /\ cli \in [Cmd -> Cli]
    BY DEF CliGood
  <2>2. CASE d = c
    <3>1. cli'[d] = [Fresh EXCEPT !.pc = "done", !.result = r]
      BY <2>1, <2>2 DEF Finish
    <3>2. /\ cli'[d].seen = "unknown" /\ cli'[d].pc = "done"
          /\ cli'[d].code = "none" /\ cli'[d].result = r
      BY <3>1 DEF Fresh
    <3> QED BY <3>2, CmdAssumption DEF CliOwn, Sentinels
  <2>3. CASE d # c
    BY <2>1, <2>3 DEF CliOwn, Finish, Cli, inputs
  <2> QED BY <2>2, <2>3
<1> QED BY <1>1, <1>2 DEF CliGood

\* Reading a pid from the pid file keeps CliGood: PidFilesOwn says whose it is.
LEMMA TakePidKeeps ==
  ASSUME CliGood, TypeOK, PidFilesOwn, UNCHANGED inputs, NEW c \in Cmd,
         NEW label \in {"probe", "ping", "request", "sigint"},
         pidfile[PidFileOf(c)] \in Cmd,
         cli' = [cli EXCEPT ![c] = [@ EXCEPT !.seen = pidfile[PidFileOf(c)], !.pc = label]]
  PROVE  CliGood'
<1>1. cli' \in [Cmd -> Cli]
  <2>1. label \in PcState
    BY DEF PcState
  <2>2. cli \in [Cmd -> Cli]
    BY DEF CliGood
  <2>3. [cli[c] EXCEPT !.seen = pidfile[PidFileOf(c)], !.pc = label] \in Cli
    BY <2>1, <2>2 DEF Cli
  <2> QED BY <2>2, <2>3
<1>2. root[pidfile[PidFileOf(c)]] = root[c]
  BY DEF TypeOK, PidFilesOwn, PidFileOf
<1>3. ASSUME NEW d \in Cmd PROVE CliOwn(d)'
  <2>1. CliOwn(d) /\ cli \in [Cmd -> Cli]
    BY DEF CliGood
  <2>2. CASE d = c
    BY <2>1, <2>2, <1>2 DEF CliOwn, Cli, inputs
  <2>3. CASE d # c
    BY <2>1, <2>3 DEF CliOwn, Cli, inputs
  <2> QED BY <2>2, <2>3
<1> QED BY <1>1, <1>3 DEF CliGood

\* An RPC that carries the pid read, or "unknown", keeps CliGood: PidCheck lets
\* only the daemon with that pid answer OK.
LEMMA RpcKeeps ==
  ASSUME CliGood, TypeOK, UNCHANGED inputs, NEW c \in Cmd, NEW pid, NEW label,
         \/ label \in {"pinged", "answered"} /\ pid = cli[c].seen /\ pid \in Cmd
         \/ label = "hungup" /\ pid = "unknown",
         Rpc(c, pid, label)
  PROVE  CliGood'
<1>1. cli' \in [Cmd -> Cli]
  <2>1. Intercept(port, c, pid) \in Codes /\ "UNAVAILABLE" \in Codes
    BY DEF Intercept, Codes
  <2>2. label \in PcState
    BY DEF PcState
  <2>3. cli[c] \in Cli /\ cli \in [Cmd -> Cli]
    BY DEF CliGood
  <2>4. cli'[c] \in Cli
    BY <2>1, <2>2, <2>3 DEF Rpc, Cli
  <2> QED BY <2>3, <2>4 DEF Rpc
<1>2. ASSUME NEW d \in Cmd PROVE CliOwn(d)'
  <2>1. CliOwn(d) /\ cli \in [Cmd -> Cli]
    BY DEF CliGood
  <2>2. CASE d # c
    BY <2>1, <2>2 DEF CliOwn, Rpc, Cli, inputs
  <2>3. CASE d = c /\ port \in Cmd
    <3>1. /\ cli'[d].seen = cli[d].seen /\ cli'[d].pc = label
          /\ cli'[d].code = Intercept(port, c, pid) /\ cli'[d].from = port
          /\ cli'[d].result = cli[d].result
      BY <2>1, <2>3 DEF Rpc, Cli
    <3>2. CASE pid = port /\ version[port] = version[c]
      BY <3>1, <3>2, <2>1, <2>3, CmdAssumption
         DEF CliOwn, Intercept, PidCheck, VersionCheck, inputs, Sentinels
    <3>3. CASE ~(pid = port /\ version[port] = version[c])
      BY <3>1, <3>3, <2>1, <2>3
         DEF CliOwn, Intercept, PidCheck, VersionCheck, inputs
    <3> QED BY <3>2, <3>3
  <2>4. CASE d = c /\ port \notin Cmd
    <3>1. /\ cli'[d].seen = cli[d].seen /\ cli'[d].pc = label
          /\ cli'[d].code = "UNAVAILABLE" /\ cli'[d].result = cli[d].result
      BY <2>1, <2>4 DEF Rpc, Cli
    <3> QED BY <3>1, <2>1, <2>4 DEF CliOwn, inputs
  <2> QED BY <2>2, <2>3, <2>4
<1> QED BY <1>1, <1>2 DEF CliGood

\* The part of IInv about processes, signals and the port.
ProcGood ==
  /\ port \in Cmd \cup {"free", "other"}
  /\ proc \in [Cmd -> ProcState]
  /\ sigint \in SUBSET Cmd
  /\ handler \in SUBSET Cmd
  /\ victim \in [Cmd -> Cmd \cup {"nobody"}]
  /\ VictimsOwn

\* The death of a process keeps ProcGood.
LEMMA DiesKeeps ==
  ASSUME ProcGood, UNCHANGED inputs, NEW p \in Cmd, Dies(p)
  PROVE  ProcGood'
<1>1. /\ port' \in Cmd \cup {"free", "other"}
      /\ proc' \in [Cmd -> ProcState]
      /\ sigint' \in SUBSET Cmd
      /\ handler' \in SUBSET Cmd
      /\ victim' \in [Cmd -> Cmd \cup {"nobody"}]
  BY DEF ProcGood, Dies, ProcState
<1>2. VictimsOwn'
  <2> SUFFICES ASSUME NEW q \in Cmd
               PROVE /\ victim'[q] \in Cmd => root'[victim'[q]] = root'[q]
                     /\ proc'[q] = "killing" => victim'[q] \in Cmd
    BY DEF VictimsOwn
  <2>1. CASE q = p
    BY <2>1, CmdAssumption DEF ProcGood, Dies, Sentinels
  <2>2. CASE q # p
    BY <2>2 DEF ProcGood, Dies, VictimsOwn, inputs
  <2> QED BY <2>1, <2>2
<1> QED BY <1>1, <1>2 DEF ProcGood

\* IInv, taken apart into what the steps below preserve one by one.
FilesGood == pidfile \in [Root -> Cmd \cup {"absent", "empty"}] /\ PidFilesOwn
InputsGood == /\ kind \in [Cmd -> Kinds] /\ root \in [Cmd -> Root]
              /\ version \in [Cmd -> Versions]

\* IInv is the conjunction of its parts.
LEMMA Parts == IInv <=> /\ FilesGood /\ ProcGood /\ CliGood /\ InputsGood
                        /\ faults \in 0..MaxFaults
BY DEF IInv, TypeOK, Provenance, FilesGood, ProcGood, CliGood, InputsGood

LEMMA PartsPrimed == IInv' <=> /\ FilesGood' /\ ProcGood' /\ CliGood' /\ InputsGood'
                               /\ faults' \in 0..MaxFaults
BY DEF IInv, TypeOK, Provenance, FilesGood, ProcGood, CliGood, InputsGood

(***************************************************************************)
(* The inductive invariant                                                 *)
(***************************************************************************)

\* Nothing has been read, written or answered in an initial state.
LEMMA InitIInv == Init => IInv
<1> SUFFICES ASSUME Init PROVE IInv
  OBVIOUS
<1>1. Fresh \in Cli
  BY BoundsAssumption DEF Fresh, Cli, PcState, Codes, Results
<1>2. TypeOK
  BY <1>1, BoundsAssumption DEF Init, TypeOK, ProcState
<1>3. PidFilesOwn /\ VictimsOwn
  BY CmdAssumption DEF Init, PidFilesOwn, VictimsOwn, Sentinels
<1>4. ASSUME NEW c \in Cmd PROVE CliOwn(c)
  BY CmdAssumption DEF Init, CliOwn, Fresh, Sentinels
<1> QED BY <1>2, <1>3, <1>4 DEF IInv, Provenance

\* A step of a daemon process.
LEMMA DaemonStepIInv ==
  ASSUME IInv, NEW p \in Cmd, DaemonStep(p)
  PROVE  IInv'
<1>1. FilesGood /\ ProcGood /\ CliGood /\ InputsGood /\ faults \in 0..MaxFaults
  BY Parts
<1>2. UNCHANGED <<inputs, cli, faults>>
  BY DEF DaemonStep, Truncate, WritePid, Bind, InstallHandler, Serve, OnSigint, StopSelf,
         KillRound, AtExit
<1>3. CliGood' /\ InputsGood' /\ faults' \in 0..MaxFaults
  BY <1>1, <1>2 DEF CliGood, CliOwn, InputsGood, inputs
<1>4. CASE Truncate(p)
  <2>1. FilesGood'
    BY <1>1, <1>4, CmdAssumption
       DEF FilesGood, PidFilesOwn, Truncate, PidFileOf, inputs, InputsGood, Sentinels
  <2>2. ProcGood'
    BY <1>1, <1>4 DEF ProcGood, VictimsOwn, Truncate, ProcState, inputs
  <2> QED BY <1>3, <2>1, <2>2, PartsPrimed
<1>5. CASE WritePid(p)
  <2>1. FilesGood'
    BY <1>1, <1>5 DEF FilesGood, PidFilesOwn, WritePid, PidFileOf, inputs, InputsGood
  <2>2. ProcGood'
    BY <1>1, <1>5 DEF ProcGood, VictimsOwn, WritePid, ProcState, inputs
  <2> QED BY <1>3, <2>1, <2>2, PartsPrimed
<1>6. CASE Bind(p)
  <2>1. FilesGood'
    BY <1>1, <1>6 DEF FilesGood, PidFilesOwn, Bind, inputs
  <2>2. ProcGood'
    BY <1>1, <1>6 DEF ProcGood, VictimsOwn, Bind, ProcState, inputs
  <2> QED BY <1>3, <2>1, <2>2, PartsPrimed
<1>7. CASE InstallHandler(p) \/ Serve(p)
  <2>1. FilesGood'
    BY <1>1, <1>7 DEF FilesGood, PidFilesOwn, InstallHandler, Serve, inputs
  <2>2. ProcGood'
    BY <1>1, <1>7 DEF ProcGood, VictimsOwn, InstallHandler, Serve, ProcState, inputs
  <2> QED BY <1>3, <2>1, <2>2, PartsPrimed
<1>8. CASE OnSigint(p)
  <2>1. FilesGood'
    BY <1>1, <1>8 DEF FilesGood, PidFilesOwn, OnSigint, inputs
  <2>2. ProcGood'
    BY <1>1, <1>8 DEF ProcGood, VictimsOwn, OnSigint, ProcState, inputs
  <2> QED BY <1>3, <2>1, <2>2, PartsPrimed
<1>9. CASE StopSelf(p)
  <2>1. FilesGood'
    BY <1>1, <1>9 DEF FilesGood, PidFilesOwn, StopSelf, inputs
  <2>2. CASE Dies(p)
    BY <1>1, <1>2, <1>3, <2>1, <2>2, DiesKeeps, PartsPrimed
  <2>3. CASE ~Dies(p)
    <3>1. pidfile[PidFileOf(p)] \in Cmd => root[pidfile[PidFileOf(p)]] = root[p]
      BY <1>1 DEF FilesGood, PidFilesOwn, PidFileOf, InputsGood
    <3>2. ProcGood'
      BY <1>1, <1>9, <2>3, <3>1 DEF ProcGood, VictimsOwn, StopSelf, ProcState, inputs
    <3> QED BY <1>3, <2>1, <3>2, PartsPrimed
  <2> QED BY <2>2, <2>3
<1>10. CASE KillRound(p)
  <2>1. CASE Alive(victim[p])
    <3>1. Dies(victim[p]) /\ pidfile' = pidfile
      BY <1>10, <2>1 DEF KillRound
    <3>2. victim[p] \in Cmd
      BY <1>1, <1>10 DEF ProcGood, VictimsOwn, KillRound
    <3>3. ProcGood'
      BY <1>1, <1>2, <3>1, <3>2, DiesKeeps
    <3>4. FilesGood'
      BY <1>1, <1>2, <3>1 DEF FilesGood, PidFilesOwn, inputs
    <3> QED BY <1>3, <3>3, <3>4, PartsPrimed
  <2>2. CASE ~Alive(victim[p])
    <3>1. FilesGood'
      BY <1>1, <1>10, <2>2, CmdAssumption
         DEF FilesGood, PidFilesOwn, KillRound, Delete, inputs, Sentinels
    <3>2. /\ victim' = [victim EXCEPT ![p] = "nobody"]
          /\ proc' = [Orphaned(PidFileOf(p)) EXCEPT ![p] = "atexit"]
          /\ UNCHANGED <<port, sigint, handler, root>>
      BY <1>10, <2>2 DEF KillRound, inputs
    <3>3. proc' \in [Cmd -> ProcState]
      BY <1>1, <3>2 DEF ProcGood, Orphaned, ProcState
    <3>4. victim' \in [Cmd -> Cmd \cup {"nobody"}]
      BY <1>1, <3>2 DEF ProcGood
    <3>5. VictimsOwn'
      <4> SUFFICES ASSUME NEW q \in Cmd
                   PROVE /\ victim'[q] \in Cmd => root'[victim'[q]] = root'[q]
                         /\ proc'[q] = "killing" => victim'[q] \in Cmd
        BY DEF VictimsOwn
      <4>1. CASE q = p
        BY <1>1, <3>2, <3>3, <4>1, CmdAssumption DEF ProcGood, Orphaned, Sentinels
      <4>2. CASE q # p
        BY <1>1, <3>2, <4>2 DEF ProcGood, VictimsOwn, Orphaned
      <4> QED BY <4>1, <4>2
    <3>6. ProcGood'
      BY <1>1, <3>2, <3>3, <3>4, <3>5 DEF ProcGood
    <3> QED BY <1>3, <3>1, <3>6, PartsPrimed
  <2> QED BY <2>1, <2>2
<1>11. CASE AtExit(p)
  <2>1. FilesGood'
    BY <1>1, <1>11, CmdAssumption
       DEF FilesGood, PidFilesOwn, AtExit, Delete, inputs, Sentinels
  <2>2. ProcGood'
    BY <1>1, <1>11 DEF ProcGood, VictimsOwn, AtExit, Orphaned, ProcState, inputs
  <2> QED BY <1>3, <2>1, <2>2, PartsPrimed
<1> QED
  BY <1>4, <1>5, <1>6, <1>7, <1>8, <1>9, <1>10, <1>11 DEF DaemonStep

\* A step of an invocation that touches nothing but its own state.
LEMMA LocalStepIInv ==
  ASSUME IInv, UNCHANGED <<os, inputs, faults>>, CliGood'
  PROVE  IInv'
<1>1. FilesGood /\ ProcGood /\ InputsGood /\ faults \in 0..MaxFaults
  BY Parts
<1>2. FilesGood' /\ ProcGood' /\ InputsGood' /\ faults' \in 0..MaxFaults
  BY <1>1 DEF FilesGood, PidFilesOwn, ProcGood, VictimsOwn, InputsGood, os, inputs
<1> QED BY <1>2, PartsPrimed

\* The SIGTERM of handle_rpc_error, whatever the caller does after it.
LEMMA KillAnswererKeeps ==
  ASSUME IInv, UNCHANGED <<inputs, faults>>, NEW c \in Cmd,
         cli[c].code = "FAILED_PRECONDITION",
         Dies(cli[c].from), pidfile' = pidfile, CliGood'
  PROVE  IInv'
<1>1. FilesGood /\ ProcGood /\ CliGood /\ InputsGood /\ faults \in 0..MaxFaults
  BY Parts
<1>2. cli[c].from \in Cmd
  BY <1>1 DEF CliGood, CliOwn
<1>3. ProcGood'
  BY <1>1, <1>2, DiesKeeps
<1>4. FilesGood' /\ InputsGood' /\ faults' \in 0..MaxFaults
  BY <1>1 DEF FilesGood, PidFilesOwn, InputsGood, inputs
<1> QED BY <1>3, <1>4, PartsPrimed

\* A step of an rx invocation.
LEMMA CmdStepIInv ==
  ASSUME IInv, NEW c \in Cmd, Begin(c) \/ CmdStep(c)
  PROVE  IInv'
<1>1. FilesGood /\ ProcGood /\ CliGood /\ InputsGood /\ TypeOK /\ PidFilesOwn
      /\ faults \in 0..MaxFaults
  BY Parts DEF IInv, Provenance
<1>2. UNCHANGED <<inputs, faults>>
  BY DEF Begin, CmdStep, Probe, Reread, Spawn, Poll, Connect, Ping, Pinged,
         HangUp, HungUp, Call, Request, Answered, Interrupt, NobodyThere
<1>3. ASSUME NEW label \in Quiet, Goto(c, label) PROVE CliGood'
  BY <1>1, <1>2, <1>3, GotoKeeps
<1>4. ASSUME NEW r \in Results \ {"AssertionError"}, Finish(c, r) PROVE CliGood'
  BY <1>1, <1>2, <1>4, FinishKeeps
<1>5. ASSUME NEW label \in {"probe", "ping", "request", "sigint"},
             pidfile[PidFileOf(c)] \in Cmd,
             cli' = [cli EXCEPT ![c] = [@ EXCEPT !.seen = pidfile[PidFileOf(c)],
                                                 !.pc = label]]
      PROVE  CliGood'
  BY <1>1, <1>2, <1>5, TakePidKeeps
<1>6. Finish(c, "ValueError") => CliGood'
  BY <1>4 DEF Results
<1>7. NotRunning(c) => CliGood'
  BY <1>3, <1>4 DEF NotRunning, Quiet, Results
<1>8. AfterHangUp(c) => CliGood'
  BY <1>3, <1>4 DEF AfterHangUp, Quiet, Results
<1>9. ASSUME NEW r \in Results \ {"AssertionError"}, KillAnswerer(c, Finish(c, r))
      PROVE  IInv'
  <2>1. CASE Alive(cli[c].from)
    BY <1>2, <1>4, <1>9, <2>1, KillAnswererKeeps DEF KillAnswerer
  <2>2. CASE ~Alive(cli[c].from)
    <3>1. UNCHANGED os /\ Finish(c, "ProcessLookupError")
      BY <1>9, <2>2 DEF KillAnswerer
    <3>2. CliGood'
      BY <3>1, <1>4 DEF Results
    <3> QED BY <1>2, <3>1, <3>2, LocalStepIInv
  <2> QED BY <2>1, <2>2
<1>10. CASE Begin(c)
  <2>1. UNCHANGED os
    BY <1>10 DEF Begin
  <2>2. CliGood'
    BY <1>3, <1>5, <1>6, <1>7, <1>10 DEF Begin, ReadPid, Quiet
  <2> QED BY <1>2, <2>1, <2>2, LocalStepIInv
<1>11. CASE Probe(c)
  <2>1. UNCHANGED os
    BY <1>11 DEF Probe
  <2>2. CliGood'
    BY <1>3, <1>4, <1>7, <1>11 DEF Probe, Quiet, Results
  <2> QED BY <1>2, <2>1, <2>2, LocalStepIInv
<1>12. CASE Reread(c)
  <2>1. UNCHANGED os
    BY <1>12 DEF Reread
  <2>2. CliGood'
    BY <1>4, <1>12 DEF Reread, Results
  <2> QED BY <1>2, <2>1, <2>2, LocalStepIInv
<1>13. CASE Spawn(c)
  <2>1. CliGood'
    BY <1>3, <1>13 DEF Spawn, Quiet
  <2>2. ProcGood'
    BY <1>1, <1>2, <1>13 DEF ProcGood, VictimsOwn, Spawn, ProcState, inputs
  <2>3. FilesGood' /\ InputsGood' /\ faults' \in 0..MaxFaults
    BY <1>1, <1>2, <1>13 DEF FilesGood, PidFilesOwn, InputsGood, Spawn, inputs
  <2> QED BY <2>1, <2>2, <2>3, PartsPrimed
<1>14. CASE Poll(c)
  <2>1. UNCHANGED os
    BY <1>14 DEF Poll
  <2>2. CASE AttemptsLeft(c)
    <3>1. cli' = [cli EXCEPT ![c] = [@ EXCEPT !.pc = "connect", !.tries = cli[c].tries - 1]]
      BY <1>14, <2>2 DEF Poll
    <3>2. cli \in [Cmd -> Cli] /\ cli[c] \in Cli /\ cli[c].tries - 1 \in 0..Tries
      BY <1>1, <2>2, BoundsAssumption DEF CliGood, Cli, AttemptsLeft
    <3>3. cli'[c] \in Cli
      <4> DEFINE n == cli[c].tries - 1
      <4>1. cli'[c] = [cli[c] EXCEPT !.pc = "connect", !.tries = n]
        BY <3>1, <3>2 DEF Cli
      <4>2. n \in 0..Tries
        BY <3>2
      <4> HIDE DEF n
      <4> QED BY <3>2, <4>1, <4>2 DEF Cli, PcState
    <3>4. cli' \in [Cmd -> Cli]
      BY <3>1, <3>2, <3>3
    <3>5. ASSUME NEW d \in Cmd PROVE CliOwn(d)'
      <4>1. CliOwn(d)
        BY <1>1 DEF CliGood
      <4>2. CASE d = c
        BY <1>2, <3>1, <3>2, <4>1, <4>2 DEF CliOwn, Cli, inputs
      <4>3. CASE d # c
        BY <1>2, <3>1, <3>2, <4>1, <4>3 DEF CliOwn, Cli, inputs
      <4> QED BY <4>2, <4>3
    <3> QED BY <1>2, <2>1, <3>4, <3>5, LocalStepIInv DEF CliGood
  <2>3. CASE ~AttemptsLeft(c)
    <3>1. CliGood'
      BY <1>3, <1>4, <1>14, <2>3 DEF Poll, OutOfAttempts, Quiet, Results
    <3> QED BY <1>2, <2>1, <3>1, LocalStepIInv
  <2> QED BY <2>2, <2>3
<1>15. CASE Connect(c)
  <2>1. UNCHANGED os
    BY <1>15 DEF Connect
  <2>2. CliGood'
    BY <1>3, <1>5, <1>6, <1>15 DEF Connect, ReadPid, Quiet
  <2> QED BY <1>2, <2>1, <2>2, LocalStepIInv
<1>16. CASE Ping(c)
  <2>1. UNCHANGED os /\ Rpc(c, cli[c].seen, "pinged")
    BY <1>16 DEF Ping
  <2>2. cli[c].seen \in Cmd
    BY <1>1, <1>16 DEF CliGood, CliOwn, Ping
  <2>3. CliGood'
    BY <1>1, <1>2, <2>1, <2>2, RpcKeeps
  <2> QED BY <1>2, <2>1, <2>3, LocalStepIInv
<1>17. CASE Pinged(c)
  <2>1. CASE UNCHANGED os /\ CliGood'
    BY <1>2, <2>1, LocalStepIInv
  <2>2. CASE KillAnswerer(c, Finish(c, IF kind[c] = "port" THEN "-1" ELSE "RetryError"))
    BY <1>9, <2>2 DEF Results
  <2> QED BY <1>3, <1>4, <1>17, <2>1, <2>2 DEF Pinged, Quiet, Results
<1>18. CASE HangUp(c)
  <2>1. UNCHANGED os /\ Rpc(c, "unknown", "hungup")
    BY <1>18 DEF HangUp
  <2>2. CliGood'
    BY <1>1, <1>2, <2>1, RpcKeeps
  <2> QED BY <1>2, <2>1, <2>2, LocalStepIInv
<1>19. CASE HungUp(c)
  <2>1. cli[c].code # "OK"
    BY <1>1, <1>19 DEF CliGood, CliOwn, HungUp
  <2>2. CASE UNCHANGED os /\ AfterHangUp(c)
    BY <1>2, <1>8, <2>2, LocalStepIInv
  <2>3. CASE KillAnswerer(c, AfterHangUp(c)) /\ Alive(cli[c].from)
    BY <1>2, <1>8, <2>3, KillAnswererKeeps DEF KillAnswerer
  <2>4. CASE KillAnswerer(c, AfterHangUp(c)) /\ ~Alive(cli[c].from)
    <3>1. UNCHANGED os /\ Finish(c, "ProcessLookupError")
      BY <2>4 DEF KillAnswerer
    <3>2. CliGood'
      BY <3>1, <1>4 DEF Results
    <3> QED BY <1>2, <3>1, <3>2, LocalStepIInv
  <2> QED BY <1>19, <2>1, <2>2, <2>3, <2>4 DEF HungUp
<1>20. CASE Call(c)
  <2>1. UNCHANGED os
    BY <1>20 DEF Call
  <2>2. CliGood'
    BY <1>4, <1>5, <1>6, <1>20 DEF Call, ReadPid, Results
  <2> QED BY <1>2, <2>1, <2>2, LocalStepIInv
<1>21. CASE Request(c)
  <2>1. UNCHANGED os /\ Rpc(c, cli[c].seen, "answered")
    BY <1>21 DEF Request
  <2>2. cli[c].seen \in Cmd
    BY <1>1, <1>21 DEF CliGood, CliOwn, Request
  <2>3. CliGood'
    BY <1>1, <1>2, <2>1, <2>2, RpcKeeps
  <2> QED BY <1>2, <2>1, <2>3, LocalStepIInv
<1>22. CASE Answered(c)
  <2>1. CASE UNCHANGED os /\ CliGood'
    BY <1>2, <2>1, LocalStepIInv
  <2>2. CASE KillAnswerer(c, Finish(c, "RetryError"))
    BY <1>9, <2>2 DEF Results
  <2> QED BY <1>4, <1>22, <2>1, <2>2 DEF Answered, Results
<1>23. CASE Interrupt(c)
  <2>1. cli[c].seen \in Cmd
    BY <1>1, <1>23 DEF CliGood, CliOwn, Interrupt
  <2>2. CliGood'
    BY <1>3, <1>4, <1>23 DEF Interrupt, Quiet, Results
  <2>3. FilesGood' /\ InputsGood' /\ faults' \in 0..MaxFaults
    BY <1>1, <1>2, <1>23 DEF FilesGood, PidFilesOwn, InputsGood, Interrupt, inputs
  <2>4. CASE Dies(cli[c].seen)
    BY <1>1, <1>2, <2>1, <2>2, <2>3, <2>4, DiesKeeps, PartsPrimed
  <2>5. CASE ~Dies(cli[c].seen)
    <3>1. sigint' = sigint \cup {cli[c].seen} /\ UNCHANGED <<port, proc, handler, victim>>
      BY <1>23, <2>5 DEF Interrupt
    <3>2. ProcGood'
      BY <1>1, <1>2, <2>1, <3>1 DEF ProcGood, VictimsOwn, inputs
    <3> QED BY <2>2, <2>3, <3>2, PartsPrimed
  <2> QED BY <2>4, <2>5
<1>24. CASE NobodyThere(c)
  <2>1. CliGood'
    BY <1>3, <1>24 DEF NobodyThere, Quiet
  <2>2. FilesGood' /\ InputsGood' /\ faults' \in 0..MaxFaults
    BY <1>1, <1>2, <1>24, CmdAssumption
       DEF FilesGood, PidFilesOwn, InputsGood, NobodyThere, Delete, inputs, Sentinels
  <2>3. ProcGood'
    BY <1>1, <1>2, <1>24
       DEF ProcGood, VictimsOwn, NobodyThere, Orphaned, ProcState, inputs
  <2> QED BY <2>1, <2>2, <2>3, PartsPrimed
<1> QED
  BY <1>10, <1>11, <1>12, <1>13, <1>14, <1>15, <1>16, <1>17, <1>18, <1>19,
     <1>20, <1>21, <1>22, <1>23, <1>24 DEF CmdStep

\* A fault.
LEMMA FaultIInv ==
  ASSUME IInv, NEW p \in Cmd, Crash(p) \/ Recycle(p)
  PROVE  IInv'
<1>1. FilesGood /\ ProcGood /\ CliGood /\ InputsGood /\ faults \in 0..MaxFaults
  BY Parts
<1>2. UNCHANGED <<pidfile, inputs, cli>> /\ faults' \in 0..MaxFaults
  BY <1>1, BoundsAssumption DEF Crash, Recycle
<1>3. FilesGood' /\ CliGood' /\ InputsGood'
  BY <1>1, <1>2 DEF FilesGood, PidFilesOwn, CliGood, CliOwn, InputsGood, inputs
<1>4. CASE Crash(p)
  <2>1. ProcGood'
    BY <1>1, <1>2, <1>4, DiesKeeps DEF Crash
  <2> QED BY <1>2, <1>3, <2>1, PartsPrimed
<1>5. CASE Recycle(p)
  <2>1. ProcGood'
    BY <1>1, <1>2, <1>5 DEF ProcGood, VictimsOwn, Recycle, ProcState, inputs
  <2> QED BY <1>2, <1>3, <2>1, PartsPrimed
<1> QED BY <1>4, <1>5

\* IInv is inductive.
LEMMA NextIInv == IInv /\ [Next]_vars => IInv'
<1> SUFFICES ASSUME IInv, [Next]_vars PROVE IInv'
  OBVIOUS
<1>1. CASE UNCHANGED vars
  <2>1. UNCHANGED <<os, inputs, faults>> /\ cli' = cli
    BY <1>1 DEF vars
  <2>2. CliGood'
    BY <2>1, Parts DEF CliGood, CliOwn, inputs
  <2> QED BY <2>1, <2>2, LocalStepIInv
<1>2. CASE Next
  BY <1>1, <1>2, CmdStepIInv, DaemonStepIInv, FaultIInv DEF Next, Done
<1> QED BY <1>1, <1>2

\* Every reachable state satisfies the inductive invariant.
LEMMA Inductive == Spec => []IInv
<1> QED BY InitIInv, NextIInv, PTL DEF Spec

(***************************************************************************)
(* The theorems                                                            *)
(***************************************************************************)

\* Type correctness, and with it that start_daemon never makes more attempts
\* than it has.
THEOREM TypeCorrect == Spec => []TypeOK
<1>1. IInv => TypeOK
  BY DEF IInv
<1> QED BY <1>1, Inductive, PTL

\* Provenance: pid files, the pids read from them and the pids being killed
\* stay within one workspace.
THEOREM ProvenanceHolds == Spec => []Provenance
<1>1. IInv => Provenance
  BY DEF IInv
<1> QED BY <1>1, Inductive, PTL

\* A call that is answered was answered by a daemon of the caller's workspace
\* and version, however many daemons race for the port and the pid files.
THEOREM AnsweredBySameWorkspace == Spec => []SameWorkspace
<1>1. IInv => SameWorkspace
  BY DEF IInv, Provenance, CliOwn, SameWorkspace
<1> QED BY <1>1, Inductive, PTL

\* Neither "rx daemon stop" nor an exiting daemon signals, through a pid file,
\* a process started for another workspace.
THEOREM SignalsStayInWorkspace == Spec => []SignalsOwnWorkspace
<1>1. IInv => SignalsOwnWorkspace
  BY DEF IInv, Provenance, CliOwn, VictimsOwn, SignalsOwnWorkspace
<1> QED BY <1>1, Inductive, PTL

\* The assertion in connect_and_kill cannot fail.
THEOREM AssertionNeverFails == Spec => []NoAssertion
<1>1. IInv => NoAssertion
  BY DEF IInv, Provenance, CliOwn, NoAssertion
<1> QED BY <1>1, Inductive, PTL

(***************************************************************************)
(* The port and the empty pid file                                         *)
(***************************************************************************)

\* What an invocation has not done yet, as the guard of StartsOnce has it.
Before(c) == \/ cli[c].pc \in {"new", "probe", "spawn", "sigint"}
             \/ Stops(c) /\ cli[c].pc \in {"hangup", "hungup"}

\* What a step of an invocation does to the local states: it takes a pid from
\* the pid file, an answer from whoever holds the port, and no label leads back
\* to one before start_daemon.
CliEffect(c) ==
  /\ \A d \in Cmd \ {c} : cli'[d] = cli[d]
  /\ cli'[c].seen \in {cli[c].seen, "unknown", pidfile[PidFileOf(c)]}
  /\ cli'[c].from \in {cli[c].from, "nobody", port}
  /\ Before(c)' => Before(c)
  /\ cli'[c].pc = "sigint" => Stops(c)

\* Goto, Finish, reading a pid and an RPC have that effect.
LEMMA GotoEffect ==
  ASSUME IInv, UNCHANGED inputs, NEW c \in Cmd, NEW label \in PcState \ {"sigint"},
         Goto(c, label),
         \/ label \in {"spawn", "hangup"} /\ Stops(c) /\ Before(c)
         \/ label = "spawn" /\ Before(c)
         \/ label = "hangup" /\ ~Stops(c)
         \/ label \notin {"new", "probe", "spawn", "hangup", "hungup"}
  PROVE  CliEffect(c)
<1>1. cli \in [Cmd -> Cli]
  BY DEF IInv, TypeOK
<1>2. cli' = [cli EXCEPT ![c] = [cli[c] EXCEPT !.pc = label]]
  BY DEF Goto
<1>3. /\ \A d \in Cmd \ {c} : cli'[d] = cli[d]
      /\ cli'[c].seen = cli[c].seen /\ cli'[c].from = cli[c].from /\ cli'[c].pc = label
  BY <1>1, <1>2 DEF Cli
<1> QED BY <1>3 DEF CliEffect, Before, Stops, inputs

LEMMA FinishEffect ==
  ASSUME IInv, NEW c \in Cmd, NEW r, Finish(c, r)
  PROVE  CliEffect(c) /\ cli'[c].pc = "done"
<1>1. cli \in [Cmd -> Cli]
  BY DEF IInv, TypeOK
<1>2. cli' = [cli EXCEPT ![c] = [Fresh EXCEPT !.pc = "done", !.result = r]]
  BY DEF Finish
<1>3. /\ \A d \in Cmd \ {c} : cli'[d] = cli[d]
      /\ cli'[c].seen = "unknown" /\ cli'[c].from = "nobody" /\ cli'[c].pc = "done"
  BY <1>1, <1>2 DEF Fresh
<1> QED BY <1>3 DEF CliEffect, Before

LEMMA ReadPidEffect ==
  ASSUME IInv, UNCHANGED inputs, NEW c \in Cmd,
         NEW label \in {"probe", "ping", "request", "sigint"}, NEW ACTION absent,
         label = "probe" => Before(c), label = "sigint" => Stops(c) /\ Before(c),
         absent => CliEffect(c), ReadPid(c, label, absent)
  PROVE  CliEffect(c)
<1>1. cli \in [Cmd -> Cli]
  BY DEF IInv, TypeOK
<1>2. CASE cli' = [cli EXCEPT ![c] = [@ EXCEPT !.seen = pidfile[PidFileOf(c)], !.pc = label]]
  <2>1. /\ \A d \in Cmd \ {c} : cli'[d] = cli[d]
        /\ cli'[c].seen = pidfile[PidFileOf(c)] /\ cli'[c].from = cli[c].from
        /\ cli'[c].pc = label
    BY <1>1, <1>2 DEF Cli
  <2> QED BY <2>1 DEF CliEffect, Before, Stops, inputs
<1>3. CASE Finish(c, "ValueError")
  BY <1>3, FinishEffect
<1> QED BY <1>2, <1>3 DEF ReadPid

LEMMA RpcEffect ==
  ASSUME IInv, UNCHANGED inputs, NEW c \in Cmd, NEW pid,
         NEW label \in {"pinged", "answered", "hungup"},
         label = "hungup" => cli[c].pc = "hangup", Rpc(c, pid, label)
  PROVE  CliEffect(c)
<1>1. cli \in [Cmd -> Cli]
  BY DEF IInv, TypeOK
<1>2. /\ \A d \in Cmd \ {c} : cli'[d] = cli[d]
      /\ cli'[c].seen = cli[c].seen /\ cli'[c].pc = label
      /\ cli'[c].from = IF port \in Cmd THEN port ELSE "nobody"
  BY <1>1 DEF Rpc, Cli
<1> QED BY <1>2 DEF CliEffect, Before, Stops, inputs

\* A step of an invocation has that effect.
LEMMA CmdEffect ==
  ASSUME IInv, \A d \in Cmd : StartsOnce(d), NEW c \in Cmd, Begin(c) \/ CmdStep(c)
  PROVE  CliEffect(c)
<1>2. UNCHANGED <<inputs, faults>>
  BY DEF Begin, CmdStep, Probe, Reread, Spawn, Poll, Connect, Ping, Pinged,
         HangUp, HungUp, Call, Request, Answered, Interrupt, NobodyThere
<1>3. ASSUME NEW r, Finish(c, r) PROVE CliEffect(c)
  BY <1>3, FinishEffect
<1>4. ASSUME NEW label \in {"reread", "poll", "connect", "call"}, Goto(c, label)
      PROVE  CliEffect(c)
  <2>1. label \in PcState \ {"sigint"}
    BY DEF PcState
  <2> QED BY <1>2, <1>4, <2>1, GotoEffect
<1>5. ASSUME Before(c), Goto(c, "spawn") PROVE CliEffect(c)
  BY <1>2, <1>5, GotoEffect DEF PcState
<1>6. ASSUME (Stops(c) => Before(c)), Goto(c, "hangup") PROVE CliEffect(c)
  BY <1>2, <1>6, GotoEffect DEF PcState
<1>7. ASSUME Before(c), NotRunning(c) PROVE CliEffect(c)
  BY <1>3, <1>5, <1>7 DEF NotRunning
<1>8. ASSUME NEW ACTION r, r => CliEffect(c), KillAnswerer(c, r) PROVE CliEffect(c)
  BY <1>3, <1>8 DEF KillAnswerer
<1>10. CASE Begin(c)
  <2>1. Before(c)
    BY <1>10 DEF Begin, Before
  <2>2. CASE NeedsDaemon(c) /\ ReadPid(c, "probe", NotRunning(c))
    BY <1>2, <1>7, <2>1, <2>2, ReadPidEffect
  <2>3. CASE Stops(c) /\ ReadPid(c, "sigint", Goto(c, "hangup"))
    BY <1>2, <1>6, <2>1, <2>3, ReadPidEffect
  <2> QED BY <1>10, <2>2, <2>3 DEF Begin
<1>11. CASE Probe(c)
  BY <1>3, <1>4, <1>7, <1>11 DEF Probe, Before
<1>12. CASE Reread(c)
  BY <1>3, <1>12 DEF Reread
<1>13. CASE Spawn(c)
  BY <1>4, <1>13 DEF Spawn
<1>14. CASE Poll(c)
  <2>1. CASE AttemptsLeft(c)
    <3>1. cli \in [Cmd -> Cli]
      BY DEF IInv, TypeOK
    <3>2. cli' = [cli EXCEPT ![c] = [@ EXCEPT !.pc = "connect", !.tries = cli[c].tries - 1]]
      BY <1>14, <2>1 DEF Poll
    <3>3. /\ \A d \in Cmd \ {c} : cli'[d] = cli[d]
          /\ cli'[c].seen = cli[c].seen /\ cli'[c].from = cli[c].from
          /\ cli'[c].pc = "connect"
      BY <3>1, <3>2 DEF Cli
    <3> QED BY <3>3 DEF CliEffect, Before
  <2>2. CASE ~AttemptsLeft(c)
    BY <1>3, <1>6, <1>14, <2>2 DEF Poll, OutOfAttempts, Stops
  <2> QED BY <2>1, <2>2
<1>15. CASE Connect(c)
  BY <1>2, <1>4, <1>15, ReadPidEffect DEF Connect
<1>16. CASE Ping(c)
  BY <1>2, <1>16, RpcEffect DEF Ping
<1>17. CASE Pinged(c)
  BY <1>3, <1>4, <1>8, <1>17 DEF Pinged
<1>18. CASE HangUp(c)
  BY <1>2, <1>18, RpcEffect DEF HangUp
<1>19. CASE HungUp(c)
  <2>1. AfterHangUp(c) => CliEffect(c)
    BY <1>3, <1>5, <1>19 DEF AfterHangUp, HungUp, Before, Stops
  <2> QED BY <1>3, <1>8, <1>19, <2>1 DEF HungUp
<1>20. CASE Call(c)
  BY <1>2, <1>3, <1>20, ReadPidEffect DEF Call
<1>21. CASE Request(c)
  BY <1>2, <1>21, RpcEffect DEF Request
<1>22. CASE Answered(c)
  BY <1>3, <1>8, <1>22 DEF Answered
<1>23. CASE Interrupt(c)
  BY <1>3, <1>5, <1>23 DEF Interrupt, Before
<1>24. CASE NobodyThere(c)
  <2>1. Stops(c) /\ Before(c)
    BY <1>24 DEF NobodyThere, StartsOnce, Before
  <2> QED BY <1>6, <1>24, <2>1 DEF NobodyThere
<1> QED
  BY <1>10, <1>11, <1>12, <1>13, <1>14, <1>15, <1>16, <1>17, <1>18, <1>19,
     <1>20, <1>21, <1>22, <1>23, <1>24 DEF CmdStep

\* What every step does to the processes, the port and the pid files, as far as
\* LifeInv depends on it.
OsEffect ==
  /\ PortInv'
  /\ \A q \in Cmd : Past(q) => Past(q)'
  /\ \A q \in Cmd : proc[q] = "none" => proc'[q] = "none" \/ ~Before(q)'
  /\ port' \in Cmd => port' = port \/ proc'[port'] = "bound"
  /\ \A q \in Cmd : \/ victim'[q] \in {victim[q], "nobody"}
                    \/ \E r \in Root : victim'[q] = pidfile[r]
  /\ \A r \in Root : pidfile'[r] \in Cmd => \/ pidfile'[r] = pidfile[r]
                                            \/ proc'[pidfile'[r]] = "named"
  /\ \/ faults' # 0
     \/ /\ faults' = faults
        /\ \A r \in Root : pidfile'[r] = "empty" =>
             \/ /\ pidfile[r] = "empty"
                /\ \A q \in Cmd : proc[q] = "torn" /\ root[q] = r => proc'[q] = "torn"
             \/ \E q \in Cmd : proc'[q] = "torn" /\ root[q] = r

\* That and the effect on the local states keep LifeInv.
LEMMA EffectsKeep ==
  ASSUME IInv, LifeInv, UNCHANGED inputs, OsEffect,
         cli' = cli \/ \E c \in Cmd : CliEffect(c)
  PROVE  LifeInv'
<1> DEFINE Later(q) == proc'[q] \notin {"none", "boot", "torn", "detached"}
<1>1. /\ pidfile \in [Root -> Cmd \cup {"absent", "empty"}] /\ root \in [Cmd -> Root]
  BY CmdAssumption DEF IInv, TypeOK
<1>2. \A q \in Cmd : Past(q) => Later(q)
  BY DEF OsEffect, Past
<1>3. \A r \in Root : pidfile'[r] \in Cmd => Later(pidfile'[r])
  BY <1>2 DEF OsEffect, LifeInv, Held, Past
<1>4. port' \in Cmd => Later(port')
  BY <1>2 DEF OsEffect, LifeInv, Held, Past
<1>5. \A p \in Cmd : victim'[p] \in Cmd => Later(victim'[p])
  <2> SUFFICES ASSUME NEW p \in Cmd, victim'[p] \in Cmd PROVE Later(victim'[p])
    OBVIOUS
  <2>1. victim'[p] # "nobody"
    BY CmdAssumption DEF Sentinels
  <2>2. Past(victim'[p])
    BY <2>1 DEF OsEffect, LifeInv, Held
  <2> QED BY <1>2, <2>2
<1>6. ASSUME NEW d \in Cmd
      PROVE  /\ cli'[d].seen \in Cmd => Later(cli'[d].seen)
             /\ cli'[d].from \in Cmd => Later(cli'[d].from)
             /\ StartsOnce(d)'
  <2>1. /\ cli[d].seen \in Cmd => Past(cli[d].seen)
        /\ cli[d].from \in Cmd => Past(cli[d].from)
        /\ Before(d) => proc[d] = "none"
        /\ cli[d].pc = "sigint" => Stops(d)
    BY DEF LifeInv, Held, StartsOnce, Before
  <2>2. proc[d] = "none" => proc'[d] = "none" \/ ~Before(d)'
    BY DEF OsEffect
  <2>3. CASE cli'[d] = cli[d]
    <3>1. Before(d)' => Before(d)
      BY <2>3 DEF Before, Stops, inputs
    <3>2. StartsOnce(d)'
      BY <2>1, <2>2, <2>3, <3>1 DEF StartsOnce, Before, Stops, inputs
    <3> QED BY <1>2, <2>1, <2>3, <3>2
  <2>4. CASE CliEffect(d)
    <3>1. PidFileOf(d) \in Root
      BY <1>1 DEF PidFileOf
    <3>2. cli'[d].seen \in Cmd => Past(cli'[d].seen)
      <4>1. cli'[d].seen \in {cli[d].seen, "unknown", pidfile[PidFileOf(d)]}
        BY <2>4 DEF CliEffect
      <4>2. "unknown" \notin Cmd
        BY CmdAssumption DEF Sentinels
      <4>3. \A r \in Root : pidfile[r] \in Cmd => Past(pidfile[r])
        BY DEF LifeInv, Held
      <4> QED BY <2>1, <3>1, <4>1, <4>2, <4>3
    <3>3. cli'[d].from \in Cmd => Past(cli'[d].from)
      <4>1. cli'[d].from \in {cli[d].from, "nobody", port}
        BY <2>4 DEF CliEffect
      <4>2. "nobody" \notin Cmd
        BY CmdAssumption DEF Sentinels
      <4>3. port \in Cmd => Past(port)
        BY DEF LifeInv, Held
      <4> QED BY <2>1, <4>1, <4>2, <4>3
    <3>4. StartsOnce(d)'
      BY <2>1, <2>2, <2>4 DEF CliEffect, StartsOnce, Before, Stops, inputs
    <3> QED BY <1>2, <3>2, <3>3, <3>4
  <2> QED BY <2>3, <2>4 DEF CliEffect
<1>7. EmptyIsBeingWritten'
  <2> SUFFICES ASSUME faults' = 0, NEW r \in Root, pidfile'[r] = "empty"
               PROVE  \E p \in Cmd : proc'[p] = "torn" /\ root'[p] = r
    BY DEF EmptyIsBeingWritten, PidFileOf
  <2>1. root' = root /\ faults = 0
    BY DEF inputs, OsEffect
  <2>2. CASE /\ pidfile[r] = "empty"
             /\ \A q \in Cmd : proc[q] = "torn" /\ root[q] = r => proc'[q] = "torn"
    <3>1. PICK p \in Cmd : proc[p] = "torn" /\ root[p] = r
      BY <2>1, <2>2 DEF LifeInv, EmptyIsBeingWritten, PidFileOf
    <3> QED BY <2>1, <2>2, <3>1
  <2>3. CASE \E q \in Cmd : proc'[q] = "torn" /\ root[q] = r
    BY <2>1, <2>3
  <2> QED BY <2>2, <2>3 DEF OsEffect
<1>8. PortInv'
  BY DEF OsEffect
<1> QED BY <1>3, <1>4, <1>5, <1>6, <1>7, <1>8 DEF LifeInv, Held, Past

\* The death of a process that has written its pid.
LEMMA DiesEffect ==
  ASSUME IInv, LifeInv, NEW p \in Cmd, Alive(p), Dies(p), pidfile' = pidfile,
         \/ Past(p) /\ faults' = faults
         \/ faults' # 0
  PROVE  OsEffect
<1>1. proc \in [Cmd -> ProcState] /\ victim \in [Cmd -> Cmd \cup {"nobody"}]
  BY DEF IInv, TypeOK
<1>2. /\ proc' = [proc EXCEPT ![p] = "dead"]
      /\ port' = IF port = p THEN "free" ELSE port
      /\ victim' = [victim EXCEPT ![p] = "nobody"]
  BY DEF Dies
<1>3. PortInv'
  BY <1>1, <1>2 DEF LifeInv, PortInv
<1>4. \A q \in Cmd : Past(q) => Past(q)'
  BY <1>1, <1>2 DEF Past
<1>5. \A q \in Cmd : proc[q] = "none" => proc'[q] = "none"
  BY <1>1, <1>2 DEF Alive, Dead
<1>6. "free" \notin Cmd
  BY CmdAssumption DEF Sentinels
<1>7. Past(p) => \A q \in Cmd : proc[q] = "torn" => proc'[q] = "torn"
  BY <1>1, <1>2 DEF Past
<1>8. \A q \in Cmd : victim'[q] \in {victim[q], "nobody"}
  BY <1>1, <1>2
<1> QED BY <1>2, <1>3, <1>4, <1>5, <1>6, <1>7, <1>8 DEF OsEffect

\* A step of a daemon process.
LEMMA DaemonEffect ==
  ASSUME IInv, LifeInv, NEW p \in Cmd, DaemonStep(p)
  PROVE  OsEffect
<1>1. /\ proc \in [Cmd -> ProcState] /\ victim \in [Cmd -> Cmd \cup {"nobody"}]
      /\ pidfile \in [Root -> Cmd \cup {"absent", "empty"}] /\ root \in [Cmd -> Root]
      /\ PortInv
  BY DEF IInv, TypeOK, LifeInv
<1>2. "free" \notin Cmd /\ "absent" \notin Cmd /\ "empty" \notin Cmd
  BY CmdAssumption DEF Sentinels
<1>3. faults' = faults
  BY DEF DaemonStep, Truncate, WritePid, Bind, InstallHandler, Serve, OnSigint, StopSelf, KillRound, AtExit
<1>4. CASE Truncate(p)
  BY <1>1, <1>2, <1>3, <1>4 DEF Truncate, OsEffect, PortInv, Past, PidFileOf
<1>5. CASE WritePid(p)
  BY <1>1, <1>2, <1>3, <1>5 DEF WritePid, OsEffect, PortInv, Past, PidFileOf
<1>6. CASE Bind(p)
  BY <1>1, <1>2, <1>3, <1>6 DEF Bind, CanBind, OsEffect, PortInv, Past
<1>7. CASE InstallHandler(p) \/ Serve(p)
  BY <1>1, <1>2, <1>3, <1>7 DEF InstallHandler, Serve, OsEffect, PortInv, Past
<1>8. CASE OnSigint(p)
  BY <1>1, <1>2, <1>3, <1>8 DEF OnSigint, OsEffect, PortInv, Past
<1>9. CASE StopSelf(p)
  <2>1. CASE Dies(p)
    BY <1>3, <1>9, <2>1, DiesEffect DEF StopSelf, Alive, Dead, Past
  <2>2. CASE ~Dies(p)
    BY <1>1, <1>2, <1>3, <1>9, <2>2 DEF StopSelf, OsEffect, PortInv, Past, PidFileOf
  <2> QED BY <2>1, <2>2
<1>10. CASE KillRound(p)
  <2>1. CASE Alive(victim[p])
    <3>1. Dies(victim[p]) /\ pidfile' = pidfile
      BY <1>10, <2>1 DEF KillRound
    <3>2. victim[p] \in Cmd
      BY <1>10 DEF IInv, Provenance, VictimsOwn, KillRound
    <3>3. Past(victim[p])
      BY <3>2 DEF LifeInv, Held
    <3> QED BY <1>3, <2>1, <3>1, <3>2, <3>3, DiesEffect
  <2>2. CASE ~Alive(victim[p])
    <3>1. /\ pidfile' = [pidfile EXCEPT ![root[p]] = "absent"]
          /\ victim' = [victim EXCEPT ![p] = "nobody"]
          /\ port' = port /\ proc[p] = "killing"
          /\ proc' = [[q \in Cmd |-> IF proc[q] = "torn" /\ root[q] = root[p]
                                     THEN "detached" ELSE proc[q]] EXCEPT ![p] = "atexit"]
      BY <1>10, <2>2 DEF KillRound, Delete, Orphaned, PidFileOf
    <3> QED BY <1>1, <1>2, <1>3, <3>1 DEF OsEffect, PortInv, Past
  <2> QED BY <2>1, <2>2
<1>11. CASE AtExit(p)
  <2>1. /\ pidfile' = [pidfile EXCEPT ![root[p]] = "absent"]
        /\ victim' = victim /\ proc[p] = "atexit"
        /\ port' = IF port = p THEN "free" ELSE port
        /\ proc' = [[q \in Cmd |-> IF proc[q] = "torn" /\ root[q] = root[p]
                                   THEN "detached" ELSE proc[q]] EXCEPT ![p] = "dead"]
    BY <1>11 DEF AtExit, Delete, Orphaned, PidFileOf
  <2> QED BY <1>1, <1>2, <1>3, <2>1 DEF OsEffect, PortInv, Past
<1> QED
  BY <1>4, <1>5, <1>6, <1>7, <1>8, <1>9, <1>10, <1>11 DEF DaemonStep

\* A step of an invocation.
LEMMA CmdOsEffect ==
  ASSUME IInv, LifeInv, NEW c \in Cmd, Begin(c) \/ CmdStep(c)
  PROVE  OsEffect
<1>1. /\ proc \in [Cmd -> ProcState] /\ victim \in [Cmd -> Cmd \cup {"nobody"}]
      /\ pidfile \in [Root -> Cmd \cup {"absent", "empty"}] /\ root \in [Cmd -> Root]
      /\ PortInv /\ cli \in [Cmd -> Cli]
  BY DEF IInv, TypeOK, LifeInv
<1>2. "free" \notin Cmd /\ "absent" \notin Cmd /\ "empty" \notin Cmd
  BY CmdAssumption DEF Sentinels
<1>3. faults' = faults /\ UNCHANGED inputs
  BY DEF Begin, CmdStep, Probe, Reread, Spawn, Poll, Connect, Ping, Pinged,
         HangUp, HungUp, Call, Request, Answered, Interrupt, NobodyThere
<1>4. CASE UNCHANGED os
  BY <1>1, <1>3, <1>4 DEF os, OsEffect, PortInv, Past
<1>5. ASSUME NEW ACTION r, KillAnswerer(c, r) PROVE OsEffect
  <2>1. CASE Alive(cli[c].from)
    <3>1. Dies(cli[c].from) /\ pidfile' = pidfile /\ cli[c].code = "FAILED_PRECONDITION"
      BY <1>5, <2>1 DEF KillAnswerer
    <3>2. cli[c].from \in Cmd
      BY <3>1 DEF IInv, Provenance, CliOwn
    <3>3. Past(cli[c].from)
      BY <3>2 DEF LifeInv, Held
    <3> QED BY <1>3, <2>1, <3>1, <3>2, <3>3, DiesEffect
  <2> QED BY <1>4, <1>5, <2>1 DEF KillAnswerer
<1>6. CASE Spawn(c)
  <2>1. proc[c] = "none"
    BY <1>6 DEF Spawn, LifeInv, StartsOnce
  <2>2. ~Before(c)'
    BY <1>1, <1>6 DEF Spawn, Goto, Before, Cli
  <2> QED BY <1>1, <1>3, <1>6, <2>1, <2>2 DEF Spawn, OsEffect, PortInv, Past
<1>7. CASE Interrupt(c)
  <2>1. cli[c].seen \in Cmd
    BY <1>7 DEF Interrupt, IInv, Provenance, CliOwn
  <2>2. CASE Dies(cli[c].seen)
    BY <1>3, <1>7, <2>1, <2>2, DiesEffect DEF Interrupt, LifeInv, Held
  <2>3. CASE ~Dies(cli[c].seen)
    BY <1>1, <1>3, <1>7, <2>3 DEF Interrupt, OsEffect, PortInv, Past
  <2> QED BY <2>2, <2>3
<1>8. CASE NobodyThere(c)
  <2>1. /\ pidfile' = [pidfile EXCEPT ![root[c]] = "absent"]
        /\ victim' = victim /\ port' = port
        /\ proc' = [q \in Cmd |-> IF proc[q] = "torn" /\ root[q] = root[c]
                                  THEN "detached" ELSE proc[q]]
    BY <1>8 DEF NobodyThere, Delete, Orphaned, PidFileOf
  <2> QED BY <1>1, <1>2, <1>3, <2>1 DEF OsEffect, PortInv, Past
<1>9. CASE Pinged(c) \/ HungUp(c) \/ Answered(c)
  BY <1>4, <1>5, <1>9 DEF Pinged, HungUp, Answered
<1> QED
  BY <1>4, <1>6, <1>7, <1>8, <1>9 DEF Begin, CmdStep, Probe, Reread, Poll, Connect,
     Ping, HangUp, Call, Request

\* LifeInv holds in every reachable state.
LEMMA LifeInductive == Spec => [](IInv /\ LifeInv)
<1>1. Init => LifeInv
  <2> SUFFICES ASSUME Init PROVE LifeInv
    OBVIOUS
  <2>1. \A c \in Cmd : cli[c].seen = "unknown" /\ cli[c].from = "nobody" /\ cli[c].pc = "new"
    BY DEF Init, Fresh
  <2> QED BY <2>1, CmdAssumption
          DEF Init, LifeInv, PortInv, Held, EmptyIsBeingWritten, StartsOnce, Sentinels
<1>2. IInv /\ LifeInv /\ [Next]_vars => LifeInv'
  <2> SUFFICES ASSUME IInv, LifeInv, [Next]_vars PROVE LifeInv'
    OBVIOUS
  <2>1. ASSUME NEW c \in Cmd, Begin(c) \/ CmdStep(c) PROVE LifeInv'
    <3>1. UNCHANGED inputs
      BY <2>1 DEF Begin, CmdStep, Probe, Reread, Spawn, Poll, Connect, Ping, Pinged,
                  HangUp, HungUp, Call, Request, Answered, Interrupt, NobodyThere
    <3>2. OsEffect /\ CliEffect(c)
      BY <2>1, CmdOsEffect, CmdEffect DEF LifeInv
    <3> QED BY <3>1, <3>2, EffectsKeep
  <2>2. ASSUME NEW p \in Cmd, DaemonStep(p) PROVE LifeInv'
    <3>1. UNCHANGED inputs /\ cli' = cli
      BY <2>2 DEF DaemonStep, Truncate, WritePid, Bind, InstallHandler, Serve, OnSigint, StopSelf,
                  KillRound, AtExit
    <3> QED BY <2>2, <3>1, DaemonEffect, EffectsKeep
  <2>3. ASSUME NEW p \in Cmd, Crash(p) PROVE LifeInv'
    <3>1. faults' # 0
      BY <2>3, BoundsAssumption DEF Crash, IInv, TypeOK
    <3>2. OsEffect
      BY <2>3, <3>1, DiesEffect DEF Crash
    <3> QED BY <2>3, <3>2, EffectsKeep DEF Crash
  <2>4. ASSUME NEW p \in Cmd, Recycle(p) PROVE LifeInv'
    <3>1. faults' # 0
      BY <2>4, BoundsAssumption DEF Recycle, IInv, TypeOK
    <3>2. OsEffect
      BY <2>4, <3>1 DEF Recycle, OsEffect, LifeInv, PortInv, Past, IInv, TypeOK
    <3> QED BY <2>4, <3>2, EffectsKeep DEF Recycle
  <2>5. CASE UNCHANGED vars
    <3>1. OsEffect
      BY <2>5 DEF vars, os, OsEffect, LifeInv, PortInv, Past
    <3> QED BY <2>5, <3>1, EffectsKeep DEF vars
  <2> QED BY <2>1, <2>2, <2>3, <2>4, <2>5 DEF Next, Done
<1> QED BY <1>1, <1>2, Inductive, PTL DEF Spec

\* At most one daemon serves, and it is the one that holds the port.
THEOREM OneDaemonServes ==
  Spec => [](\A p, q \in Cmd : proc[p] = "serving" /\ proc[q] = "serving" => p = q /\ port = p)
<1>1. LifeInv => \A p, q \in Cmd : proc[p] = "serving" /\ proc[q] = "serving" => p = q /\ port = p
  BY DEF LifeInv, PortInv
<1> QED BY <1>1, LifeInductive, PTL

\* The safety half of PidFileHeals: without a fault, a pid file is only empty
\* while a daemon of the workspace is between truncating and filling it.
THEOREM EmptyPidFileIsBeingWritten == Spec => []EmptyIsBeingWritten
<1>1. LifeInv => EmptyIsBeingWritten
  BY DEF LifeInv
<1> QED BY <1>1, LifeInductive, PTL

\* start_daemon runs at most once in an invocation, so that one pid per
\* invocation is enough (the reading of Cmd as the pids of daemons).
THEOREM StartsAtMostOnce == Spec => [][\A c \in Cmd : Spawn(c) => proc[c] = "none"]_vars
<1>1. LifeInv => \A c \in Cmd : Spawn(c) => proc[c] = "none"
  BY DEF LifeInv, StartsOnce, Spawn
<1> QED BY <1>1, LifeInductive, PTL

\* The death of a process takes its signal and its handler with it.
LEMMA DiesTakesSignal ==
  ASSUME TypeOK, SignalHandled, HandlerInv, NEW p \in Cmd, Dies(p)
  PROVE  SignalHandled' /\ HandlerInv'
BY DEF TypeOK, SignalHandled, HandlerInv, Dies

\* Unlinking a pid file only moves processes that have not written their pid yet.
LEMMA OrphansTakeSignal ==
  ASSUME TypeOK, SignalHandled, HandlerInv, NEW r, proc' = Orphaned(r),
         UNCHANGED <<sigint, handler>>
  PROVE  SignalHandled' /\ HandlerInv'
BY DEF TypeOK, SignalHandled, HandlerInv, Orphaned

LEMMA SignalStep ==
  ASSUME IInv, LifeInv, SignalHandled, HandlerInv, [Next]_vars
  PROVE  SignalHandled' /\ HandlerInv'
<1>1. TypeOK
  BY DEF IInv
<1>2. CASE UNCHANGED <<proc, sigint, handler>>
  BY <1>2 DEF SignalHandled, HandlerInv
<1>3. ASSUME NEW p \in Cmd, DaemonStep(p) PROVE SignalHandled' /\ HandlerInv'
  <2> USE <1>1 DEF TypeOK, SignalHandled, HandlerInv
  <2>1. CASE Truncate(p) \/ WritePid(p)
    BY <2>1 DEF Truncate, WritePid
  <2>2. CASE Bind(p)
    BY <2>2 DEF Bind
  <2>3. CASE InstallHandler(p) \/ Serve(p)
    BY <2>3 DEF InstallHandler, Serve
  <2>4. CASE OnSigint(p)
    BY <2>4 DEF OnSigint
  <2>5. CASE StopSelf(p)
    <3>1. CASE Dies(p)
      BY <1>1, <3>1, DiesTakesSignal
    <3>2. CASE ~Dies(p)
      BY <2>5, <3>2 DEF StopSelf
    <3> QED BY <3>1, <3>2
  <2>6. CASE KillRound(p)
    <3>1. CASE Alive(victim[p])
      <4>1. victim[p] \in Cmd /\ Dies(victim[p])
        BY <2>6, <3>1 DEF KillRound, IInv, Provenance, VictimsOwn
      <4> QED BY <1>1, <4>1, DiesTakesSignal
    <3>2. CASE ~Alive(victim[p])
      <4>1. /\ proc[p] = "killing" /\ UNCHANGED <<sigint, handler>>
            /\ proc' = [Orphaned(PidFileOf(p)) EXCEPT ![p] = "atexit"]
        BY <2>6, <3>2 DEF KillRound
      <4> QED BY <4>1 DEF Orphaned
    <3> QED BY <3>1, <3>2
  <2>7. CASE AtExit(p)
    BY <2>7 DEF AtExit, Orphaned
  <2> QED BY <1>3, <2>1, <2>2, <2>3, <2>4, <2>5, <2>6, <2>7 DEF DaemonStep
<1>4. ASSUME NEW c \in Cmd, Begin(c) \/ CmdStep(c) PROVE SignalHandled' /\ HandlerInv'
  <2>1. CASE UNCHANGED os
    BY <1>2, <2>1 DEF os
  <2>2. ASSUME NEW ACTION r, KillAnswerer(c, r) PROVE SignalHandled' /\ HandlerInv'
    <3>1. CASE Alive(cli[c].from)
      <4>1. cli[c].from \in Cmd /\ Dies(cli[c].from)
        BY <2>2, <3>1 DEF KillAnswerer, IInv, Provenance, CliOwn
      <4> QED BY <1>1, <4>1, DiesTakesSignal
    <3> QED BY <2>1, <2>2, <3>1 DEF KillAnswerer
  <2>3. CASE Spawn(c)
    <3>1. proc[c] = "none"
      BY <2>3 DEF Spawn, LifeInv, StartsOnce
    <3> QED BY <1>1, <2>3, <3>1 DEF Spawn, TypeOK, SignalHandled, HandlerInv
  <2>4. CASE Interrupt(c)
    <3>1. cli[c].seen \in Cmd /\ Alive(cli[c].seen) /\ Past(cli[c].seen)
      BY <2>4 DEF Interrupt, IInv, Provenance, CliOwn, LifeInv, Held
    <3>2. CASE Dies(cli[c].seen)
      BY <1>1, <3>1, <3>2, DiesTakesSignal
    <3>3. CASE ~Dies(cli[c].seen)
      <4>1. /\ proc[cli[c].seen] # "foreign" /\ UNCHANGED <<proc, handler>>
            /\ sigint' = sigint \cup {cli[c].seen}
        BY <2>4, <3>3 DEF Interrupt
      <4> QED BY <1>1, <3>1, <4>1
              DEF TypeOK, SignalHandled, HandlerInv, Alive, Dead, Past, ProcState
    <3> QED BY <3>2, <3>3
  <2>5. CASE NobodyThere(c)
    BY <1>1, <2>5, OrphansTakeSignal DEF NobodyThere
  <2>6. CASE Pinged(c) \/ HungUp(c) \/ Answered(c)
    BY <2>1, <2>2, <2>6 DEF Pinged, HungUp, Answered
  <2> QED
    BY <1>4, <2>1, <2>3, <2>4, <2>5, <2>6 DEF Begin, CmdStep, Probe, Reread, Poll, Connect,
       Ping, HangUp, Call, Request
<1>5. ASSUME NEW p \in Cmd, Crash(p) \/ Recycle(p) PROVE SignalHandled' /\ HandlerInv'
  <2>1. CASE Crash(p)
    BY <1>1, <2>1, DiesTakesSignal DEF Crash
  <2>2. CASE Recycle(p)
    BY <1>1, <2>2 DEF Recycle, TypeOK, SignalHandled, HandlerInv
  <2> QED BY <1>5, <2>1, <2>2
<1> QED BY <1>2, <1>3, <1>4, <1>5 DEF Next, Done, vars, os

\* A signal is gone only from a daemon that is on its way out or dead, or that
\* has its handler and no server yet.
LEMMA SignalLeaves ==
  ASSUME IInv, LifeInv, SignalHandled, HandlerInv, [Next]_vars
  PROVE  SignalEnds
<1> SUFFICES ASSUME NEW p \in sigint, p \notin sigint'
             PROVE  proc'[p] \in {"leaving", "killing", "atexit", "dead"} \/ proc[p] = "armed"
  BY DEF SignalEnds
<1>1. TypeOK /\ p \in Cmd
  BY DEF IInv, TypeOK
<1>2. ASSUME NEW q \in Cmd, Dies(q) PROVE proc'[p] = "dead"
  BY <1>1, <1>2 DEF Dies, TypeOK
<1>3. ASSUME NEW q \in Cmd, DaemonStep(q)
      PROVE  proc'[p] \in {"leaving", "killing", "atexit", "dead"} \/ proc[p] = "armed"
  <2>1. CASE OnSigint(q)
    BY <1>1, <2>1 DEF OnSigint, SignalHandled, HandlerInv, TypeOK
  <2>2. CASE StopSelf(q)
    BY <1>2, <2>2 DEF StopSelf
  <2>3. CASE KillRound(q)
    <3>1. Alive(victim[q]) => victim[q] \in Cmd
      BY <2>3 DEF KillRound, IInv, Provenance, VictimsOwn
    <3> QED BY <1>2, <2>3, <3>1 DEF KillRound
  <2> QED BY <1>3, <2>1, <2>2, <2>3
          DEF DaemonStep, Truncate, WritePid, Bind, InstallHandler, Serve, AtExit
<1>4. ASSUME NEW c \in Cmd, Begin(c) \/ CmdStep(c)
      PROVE  proc'[p] \in {"leaving", "killing", "atexit", "dead"} \/ proc[p] = "armed"
  <2>1. ASSUME NEW ACTION r, KillAnswerer(c, r)
        PROVE  proc'[p] \in {"leaving", "killing", "atexit", "dead"}
    <3>1. Alive(cli[c].from) => cli[c].from \in Cmd
      BY <2>1 DEF KillAnswerer, IInv, Provenance, CliOwn
    <3> QED BY <1>2, <2>1, <3>1 DEF KillAnswerer, os
  <2>2. CASE Interrupt(c)
    <3>1. cli[c].seen \in Cmd
      BY <2>2 DEF Interrupt, IInv, Provenance, CliOwn
    <3> QED BY <1>2, <2>2, <3>1 DEF Interrupt
  <2>3. CASE Pinged(c) \/ HungUp(c) \/ Answered(c)
    BY <2>1, <2>3 DEF Pinged, HungUp, Answered, os
  <2> QED
    BY <1>4, <2>2, <2>3 DEF Begin, CmdStep, Probe, Reread, Spawn, Poll, Connect,
       Ping, HangUp, Call, Request, NobodyThere, os
<1>5. ASSUME NEW q \in Cmd, Crash(q) \/ Recycle(q) PROVE proc'[p] = "dead"
  BY <1>2, <1>5 DEF Crash, Recycle
<1> QED BY <1>3, <1>4, <1>5 DEF Next, Done, vars, os

\* A SIGINT is always on its way to a daemon that has a handler for it, and it is
\* gone only when the daemon leaves or is dead, except between signal.signal and
\* server.start, where it is swallowed (_start_server, get_signal_handler,
\* Daemonizer.__exit__).
THEOREM SignalsAreTaken == Spec => SignalTaken
<1>1. Init => SignalHandled /\ HandlerInv
  BY DEF Init, SignalHandled, HandlerInv
<1>2. IInv /\ LifeInv /\ SignalHandled /\ HandlerInv /\ [Next]_vars
      => SignalHandled' /\ HandlerInv'
  BY SignalStep
<1>3. IInv /\ LifeInv /\ SignalHandled /\ HandlerInv /\ [Next]_vars => [SignalEnds]_vars
  BY SignalLeaves
<1> QED BY <1>1, <1>2, <1>3, LifeInductive, PTL DEF Spec, SignalTaken

(***************************************************************************)
(* "rx daemon stop" on its own                                             *)
(***************************************************************************)

\* Daemons only leave, once no invocation can start one: nobody new is alive,
\* and who was on the way out still is.
LeaveEffect ==
  \A p \in Cmd : Alive(p)' =>
    /\ Alive(p)
    /\ proc'[p] \in {"serving", "leaving", "killing", "atexit"}
    /\ Going(p) => Going(p)'

\* The death of any process is such a step.
LEMMA DiesLeaves ==
  ASSUME IInv, NEW c \in Cmd, StopInv(c), NEW p \in Cmd, Dies(p)
  PROVE  LeaveEffect /\ ~Alive(p)'
<1>1. proc \in [Cmd -> ProcState]
  BY DEF IInv, TypeOK
<1>2. proc' = [proc EXCEPT ![p] = "dead"] /\ sigint' = sigint \ {p}
  BY DEF Dies
<1>3. ~Alive(p)'
  BY <1>1, <1>2 DEF Alive, Dead
<1>4. ASSUME NEW q \in Cmd, Alive(q)'
      PROVE  /\ Alive(q) /\ proc'[q] \in {"serving", "leaving", "killing", "atexit"}
             /\ Going(q) => Going(q)'
  <2>1. q # p /\ proc'[q] = proc[q]
    BY <1>1, <1>2, <1>3, <1>4
  <2>2. Alive(q)
    BY <1>4, <2>1 DEF Alive, Dead
  <2> QED BY <1>2, <2>1, <2>2 DEF StopInv, Going
<1> QED BY <1>3, <1>4 DEF LeaveEffect

\* So is a step that changes at most the state of one process, to one of those
\* it leaves in, and drops at most the signal it takes.
LEMMA DaemonLeaves ==
  ASSUME IInv, NEW c \in Cmd, StopInv(c), NEW p \in Cmd, DaemonStep(p)
  PROVE  LeaveEffect
<1>1. /\ proc \in [Cmd -> ProcState] /\ sigint \in SUBSET Cmd
      /\ \A q \in Cmd : Alive(q) => proc[q] \in {"serving", "leaving", "killing", "atexit"}
  BY DEF IInv, TypeOK, StopInv
<1>2. \A q \in Cmd : proc[q] \notin {"boot", "torn", "detached", "named", "bound", "armed"}
  BY <1>1 DEF Alive, Dead
<1>3. Orphaned(PidFileOf(p)) = proc
  BY <1>1, <1>2 DEF Orphaned
<1>4. CASE OnSigint(p)
  BY <1>1, <1>2, <1>4 DEF OnSigint, LeaveEffect, Alive, Dead, Going
<1>5. CASE StopSelf(p)
  <2>1. CASE Dies(p)
    BY <2>1, DiesLeaves
  <2>2. CASE ~Dies(p)
    BY <1>1, <1>5, <2>2 DEF StopSelf, LeaveEffect, Alive, Dead, Going
  <2> QED BY <2>1, <2>2
<1>6. CASE KillRound(p)
  <2>1. CASE Alive(victim[p])
    <3>1. victim[p] \in Cmd
      BY <1>6 DEF IInv, Provenance, VictimsOwn, KillRound
    <3> QED BY <1>6, <2>1, <3>1, DiesLeaves DEF KillRound
  <2>2. CASE ~Alive(victim[p])
    BY <1>1, <1>3, <1>6, <2>2 DEF KillRound, LeaveEffect, Alive, Dead, Going
  <2> QED BY <2>1, <2>2
<1>7. CASE AtExit(p)
  BY <1>1, <1>3, <1>7 DEF AtExit, LeaveEffect, Alive, Dead, Going
<1> QED
  BY <1>2, <1>4, <1>5, <1>6, <1>7 DEF DaemonStep, Truncate, WritePid, Bind, InstallHandler, Serve

\* The invocation that stops: what it has ended with when it is done.
LEMMA StopCmdStep ==
  ASSUME IInv, LifeInv, NEW c \in Cmd, StopInv(c), Begin(c) \/ CmdStep(c)
  PROVE  StopInv(c)'
<1>1. /\ proc \in [Cmd -> ProcState] /\ cli \in [Cmd -> Cli] /\ sigint \in SUBSET Cmd
      /\ \A q \in Cmd : Alive(q) => proc[q] \in {"serving", "leaving", "killing", "atexit"}
      /\ \A p, q \in Cmd : Alive(p) /\ Alive(q) => p = q
      /\ kind[c] = "stop"
  BY DEF IInv, TypeOK, StopInv
<1>2. UNCHANGED <<inputs, faults>>
  BY DEF Begin, CmdStep, Probe, Reread, Spawn, Poll, Connect, Ping, Pinged,
         HangUp, HungUp, Call, Request, Answered, Interrupt, NobodyThere
<1>3. \A d \in Cmd \ {c} : cli'[d] = cli[d]
  BY CmdEffect DEF LifeInv, CliEffect
<1>4. \A r : Finish(c, r) => cli'[c].pc = "done"
  BY FinishEffect
<1>5. ASSUME LeaveEffect, cli'[c].pc = "hangup" PROVE StopInv(c)'
  BY <1>1, <1>2, <1>3, <1>5 DEF StopInv, LeaveEffect, inputs
<1>6. ASSUME LeaveEffect, cli'[c].pc = "done", \A p \in Cmd : Alive(p)' => Going(p)'
      PROVE  StopInv(c)'
  BY <1>1, <1>2, <1>3, <1>6 DEF StopInv, LeaveEffect, inputs
<1>7. UNCHANGED os => LeaveEffect /\ (\A p \in Cmd : Alive(p)' <=> Alive(p))
                      /\ (\A p \in Cmd : Going(p)' <=> Going(p))
  BY <1>1 DEF os, LeaveEffect, Alive, Dead, Going
<1>8. CASE Begin(c)
  <2>1. /\ UNCHANGED os /\ pidfile[PidFileOf(c)] # "empty"
        /\ ReadPid(c, "sigint", Goto(c, "hangup"))
    BY <1>1, <1>8 DEF Begin, StopInv, NeedsDaemon
  <2>2. cli'[c].pc \in {"sigint", "hangup"}
    <3>1. CASE Goto(c, "hangup")
      BY <1>1, <3>1 DEF Goto, Cli
    <3>2. CASE cli' = [cli EXCEPT ![c] = [@ EXCEPT !.seen = pidfile[PidFileOf(c)],
                                                   !.pc = "sigint"]]
      BY <1>1, <3>2 DEF Cli
    <3> QED BY <2>1, <3>1, <3>2 DEF ReadPid
  <2> QED BY <1>1, <1>2, <1>3, <1>7, <2>1, <2>2 DEF StopInv, LeaveEffect, inputs
<1>9. CASE HangUp(c)
  <2>1. UNCHANGED os /\ Rpc(c, "unknown", "hungup")
    BY <1>9 DEF HangUp
  <2>2. CASE port \in Cmd
    <3>1. /\ proc[port] = "serving" /\ cli'[c].pc = "hungup" /\ cli'[c].from = port
          /\ cli'[c].code = Intercept(port, c, "unknown")
      BY <1>1, <2>1, <2>2 DEF Rpc, Cli
    <3>2. cli'[c].code = "FAILED_PRECONDITION"
      BY <2>2, <3>1, CmdAssumption DEF Intercept, PidCheck, Sentinels
    <3>3. Alive(port)
      BY <3>1 DEF Alive, Dead
    <3> QED BY <1>1, <1>2, <1>3, <1>7, <2>1, <2>2, <3>1, <3>2, <3>3
            DEF StopInv, LeaveEffect, inputs
  <2>3. CASE port \notin Cmd
    <3>1. cli'[c].pc = "hungup" /\ cli'[c].code = "UNAVAILABLE"
      BY <1>1, <2>1, <2>3 DEF Rpc, Cli
    <3>2. \A p \in Cmd : Alive(p) => Going(p)
      BY <1>1, <2>3 DEF LifeInv, PortInv, Going
    <3> QED BY <1>1, <1>2, <1>3, <1>7, <2>1, <3>1, <3>2
            DEF StopInv, LeaveEffect, inputs
  <2> QED BY <2>2, <2>3
<1>10. CASE HungUp(c)
  <2>1. cli[c].code # "OK" /\ cli[c].pc = "hungup"
    BY <1>10 DEF HungUp, IInv, Provenance, CliOwn
  <2>2. AfterHangUp(c) => cli'[c].pc = "done"
    BY <1>1, <1>4 DEF AfterHangUp
  <2>3. CASE cli[c].code = "UNAVAILABLE"
    <3>1. UNCHANGED os /\ AfterHangUp(c)
      BY <1>10, <2>3 DEF HungUp, KillAnswerer
    <3>2. \A p \in Cmd : Alive(p) => Going(p)
      BY <2>1, <2>3 DEF StopInv
    <3> QED BY <1>6, <1>7, <2>2, <3>1, <3>2
  <2>4. CASE cli[c].code = "FAILED_PRECONDITION"
    <3>1. KillAnswerer(c, AfterHangUp(c))
      BY <1>10, <2>4 DEF HungUp
    <3>2. cli[c].from \in Cmd /\ \A p \in Cmd : Alive(p) => p = cli[c].from
      BY <2>1, <2>4 DEF StopInv, IInv, Provenance, CliOwn
    <3>3. CASE Alive(cli[c].from)
      <4>1. Dies(cli[c].from) /\ AfterHangUp(c)
        BY <3>1, <3>3 DEF KillAnswerer
      <4>2. PICK f \in Cmd : f = cli[c].from
        BY <3>2
      <4>3. LeaveEffect /\ ~Alive(f)'
        BY <4>1, <4>2, DiesLeaves
      <4>4. \A p \in Cmd : ~Alive(p)'
        BY <3>2, <4>2, <4>3 DEF LeaveEffect
      <4> QED BY <1>6, <2>2, <4>1, <4>3, <4>4
    <3>4. CASE ~Alive(cli[c].from)
      <4>1. UNCHANGED os /\ Finish(c, "ProcessLookupError")
        BY <3>1, <3>4 DEF KillAnswerer
      <4> QED BY <1>4, <1>6, <1>7, <3>2, <3>4, <4>1
    <3> QED BY <3>3, <3>4
  <2> QED BY <1>10, <2>1, <2>3, <2>4 DEF HungUp, KillAnswerer
<1>11. CASE Interrupt(c)
  <2>1. cli[c].seen \in Cmd /\ Alive(cli[c].seen)
    BY <1>11 DEF Interrupt, IInv, Provenance, CliOwn
  <2>2. proc[cli[c].seen] # "foreign"
    BY <1>1, <2>1
  <2>3. /\ sigint' = sigint \cup {cli[c].seen} /\ proc' = proc
        /\ Finish(c, "0")
    BY <1>1, <1>11, <2>2 DEF Interrupt
  <2>4. LeaveEffect
    BY <1>1, <2>3 DEF LeaveEffect, Alive, Dead, Going
  <2>5. \A p \in Cmd : Alive(p)' => Going(p)'
    BY <1>1, <2>1, <2>3 DEF Alive, Dead, Going
  <2> QED BY <1>4, <1>6, <2>3, <2>4, <2>5
<1>12. CASE NobodyThere(c)
  <2>1. Orphaned(PidFileOf(c)) = proc
    BY <1>1 DEF Orphaned, Alive, Dead
  <2>2. proc' = proc /\ sigint' = sigint /\ cli'[c].pc = "hangup"
    BY <1>1, <1>12, <2>1 DEF NobodyThere, Goto, Cli
  <2>3. LeaveEffect
    BY <1>1, <2>2 DEF LeaveEffect, Alive, Dead, Going
  <2> QED BY <1>5, <2>2, <2>3
<1>13. cli[c].pc \in {"new", "sigint", "hangup", "hungup", "done"}
  BY DEF StopInv
<1> QED
  BY <1>8, <1>9, <1>10, <1>11, <1>12, <1>13 DEF CmdStep, Probe, Reread, Spawn, Poll,
     Connect, Ping, Pinged, Call, Request, Answered

\* From the moment "rx daemon stop" is left alone, StopInv holds.
LEMMA StopStep ==
  ASSUME NEW c \in Cmd, IInv, LifeInv, StopInv(c), [Next]_vars
  PROVE  StopInv(c)'
<1>1. CASE UNCHANGED vars
  BY <1>1 DEF vars, os, inputs, StopInv, Alive, Dead, Going, PidFileOf
<1>2. ASSUME NEW d \in Cmd, Begin(d) \/ CmdStep(d) PROVE StopInv(c)'
  <2>1. cli[d].pc # "done"
    BY <1>2 DEF Begin, CmdStep, Probe, Reread, Spawn, Poll, Connect, Ping, Pinged,
                HangUp, HungUp, Call, Request, Answered, Interrupt, NobodyThere
  <2>2. d = c
    BY <2>1 DEF StopInv
  <2> QED BY <1>2, <2>2, StopCmdStep
<1>3. ASSUME NEW p \in Cmd, DaemonStep(p) PROVE StopInv(c)'
  <2>1. LeaveEffect
    BY <1>3, DaemonLeaves
  <2>2. UNCHANGED <<inputs, cli, faults>>
    BY <1>3 DEF DaemonStep, Truncate, WritePid, Bind, InstallHandler, Serve, OnSigint, StopSelf,
                KillRound, AtExit
  <2>3. cli[c].pc = "new" => pidfile'[PidFileOf(c)] # "empty"
    <3>1. proc[p] \notin {"boot", "torn", "detached"} /\ pidfile \in [Root -> Cmd \cup {"absent", "empty"}]
      BY DEF StopInv, Alive, Dead, IInv, TypeOK
    <3>2. \A r \in Root : pidfile'[r] \in {pidfile[r], "absent"}
      BY <1>3, <3>1 DEF DaemonStep, Truncate, WritePid, Bind, InstallHandler, Serve, OnSigint, StopSelf,
                        KillRound, AtExit, Delete
    <3>3. PidFileOf(c) \in Root
      BY DEF PidFileOf, IInv, TypeOK
    <3> QED BY <3>2, <3>3 DEF StopInv
  <2>4. PidFileOf(c)' = PidFileOf(c)
    BY <2>2 DEF PidFileOf, inputs
  <2> QED BY <2>1, <2>2, <2>3, <2>4 DEF StopInv, LeaveEffect, inputs
<1>4. ASSUME NEW p \in Cmd, Crash(p) \/ Recycle(p) PROVE FALSE
  BY <1>4, BoundsAssumption DEF Crash, Recycle, StopInv
<1> QED BY <1>1, <1>2, <1>3, <1>4 DEF Next, Done

\* "rx daemon stop" on its own misses no daemon: when it is done, every daemon
\* that is alive has a SIGINT on its way or is already leaving.
THEOREM StopReachesEveryDaemon == Spec => StopReaches
<1> SUFFICES ASSUME NEW c \in Cmd
             PROVE  Spec => [](/\ kind[c] = "stop" /\ cli[c].pc = "new" /\ Alone(c)
                               /\ faults = MaxFaults /\ (faults = 0 \/ pidfile[PidFileOf(c)] # "empty")
                             => [](cli[c].pc = "done"
                                     => \A p \in Cmd : Alive(p) => Going(p)))
  BY DEF StopReaches
<1>1. IInv /\ LifeInv /\ kind[c] = "stop" /\ cli[c].pc = "new" /\ Alone(c)
      /\ faults = MaxFaults /\ (faults = 0 \/ pidfile[PidFileOf(c)] # "empty")
      => StopInv(c)
  <2> SUFFICES ASSUME IInv, LifeInv, kind[c] = "stop", cli[c].pc = "new", Alone(c),
                      faults = MaxFaults, faults = 0 \/ pidfile[PidFileOf(c)] # "empty"
               PROVE  StopInv(c)
    OBVIOUS
  <2>1. \A p \in Cmd : proc[p] # "torn"
    BY DEF Alone, Alive, Dead
  <2>2. pidfile[PidFileOf(c)] # "empty"
    BY <2>1 DEF LifeInv, EmptyIsBeingWritten, IInv, TypeOK, PidFileOf
  <2> QED BY <2>2 DEF LifeInv, PortInv, Alone, StopInv
<1>2. IInv /\ LifeInv /\ StopInv(c) /\ [Next]_vars => StopInv(c)'
  BY StopStep
<1>3. StopInv(c) => (cli[c].pc = "done" => \A p \in Cmd : Alive(p) => Going(p))
  BY DEF StopInv
<1> QED BY <1>1, <1>2, <1>3, LifeInductive, PTL DEF Spec
=============================================================================
