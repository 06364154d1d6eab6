# A TLA+ model of rx

`rx` runs a command on a cloud machine as if it ran in the local directory.
`rx init` gives a directory a workspace on a worker; `rx <command>` copies the
directory there, runs the command and copies the workspace back; a daemon on
the local machine forwards ports to the worker; a login in the browser gives
every invocation its token. Paths below are relative to `src/`.

The project models the parts of the client whose correctness depends on the
order in which processes, threads, signals and failures meet. Each of the eight
specifications has small instances for TLC, and theorems that hold for every
number of processes, calls, ports, frames, keys and files.

## 1. The system

| part | source | state | operations | talks to |
|---|---|---|---|---|
| daemon process | `rx/daemon/{daemon,pidfile,server}.py` | `.rx/daemon.pid`, the daemon port, SIGINT handler | detach, write pid file, bind, serve, stop on SIGINT | invocations, by signals, pid file and RPC |
| daemon client and manager | `rx/daemon/{interceptors,client,manager}.py` | the pid last read | start and poll, ping, refuse, kill | daemon |
| daemon and port commands | `rx/client/commands/daemon.py`, `.../workspace/port.py` | none | start, stop, restart, info, open-port, close-port, ports | manager, pid file |
| port service | `rx/daemon/port_forwarding/{service,port_forwarder}.py` | `_ports`, listening sockets, accept threads | OpenPort, ClosePort, GetPorts, close_ports | forwarded connections |
| forwarded connection | `rx/daemon/port_forwarding/client_socket.py`, `forward_to_port` of `rx/client/worker_client.py` | two queues, two events, one socket, three threads and a request generator | handle, local_to_remote, remote_to_local | local client, worker |
| rx run | `rx/client/commands/runner.py`, `rx/client/{worker_client,output_handler,trex_client}.py`, `rx/worker/rsync.py` | local directory, workspace, worker address | to_remote, Exec, from_remote, Kill, GetInfo, Unfreeze | worker, scheduler (trex), user |
| executor, stdin | `rx/worker/executor.py` | the terminal's modes, stdin buffer, condition variable, three threads | run, write, `__enter__`, `__exit__`, loop, `__next__` | worker, user |
| login | `rx/client/{login,browser}.py`, `rx/client/configuration/config_base.py` | `access-token`, `.refresh-token`, local HTTP server | login, refresh, validate, delete | browser, OAuth server, other rx processes |
| configuration | `rx/client/configuration/` | the local and the remote config of `.rx` | read, change and rewrite in place | every command |
| rx init | `rx/client/commands/init.py`, `init` of the two clients | none of its own | allocate, save, upload, start container, install, open ports | scheduler, worker, daemon |
| environment files | `rx/trex/toolchain/toolchain.py` | `.rx/remotes/*`, the link `default` | save_config | rx init, user |
| administration, subscription | `rx/client/commands/{stop,subscribe}.py`, `.../workspace/`, `rx/client/payment.py` | none of its own | stop, commit, info, set-acls, subscribe, unsubscribe | scheduler |
| users, menus | `rx/client/{user,menu}.py` | a user file | prompts | |
| toolchain detection | the rest of `rx/trex/toolchain/` | none | pure functions of a directory | |
| proto, progress bars | `rx/proto/`, `rx/shared/` | none | | |

What is hard, and what makes each part correct:

* **Daemon.** Nothing is locked: several invocations may start, stop and call a
  daemon while others die; every workspace uses one port unless told otherwise;
  a pid may be stale or recycled. A command must talk only to a daemon of its
  own workspace and release, must signal only such daemons, must end, and the
  race for the port must leave one daemon.
* **Connection.** Four threads share two queues and a socket and end each other
  through two events. Bytes must come out in order and once, nobody may use the
  socket after it was closed, nothing may be cut off, and the handler must end.
* **Port service.** Ten gRPC threads and a signal handler share a dictionary
  without a lock. A listening socket must never become unreachable.
* **rx run.** Two rsyncs with `--delete` in opposite directions, per file, may
  fail or be interrupted anywhere, overlap with those of another invocation, and
  race the user's editor; the workspace may be stowed and move.
* **Login.** Two files without a lock, written in place by every rx process; a
  server thread that must end; clocks; crashes between the two writes.
* **Executor.** Three threads share a buffer, a condition variable, a flag and the
  terminal's modes, and Ctrl-C may fall anywhere. Keys must arrive once and in
  order, no wake-up may be lost, and the terminal must be what it was.
* **Workspaces.** `rx init` and a run that restores a stowed workspace rewrite one
  file in place while other processes read it; a workspace is allocated before
  the file names it; any later step may fail or be the last. The file must never
  pair a workspace with another's machine, and never lose one.
* **Environment files.** What is saved, printed and pasted must read back as what
  it was; a link is replaced in four steps; a kill leaves files empty.

`PROJECT.json` lists the hazards with their source lines and the properties
that cover them.

## 2. Modules and plan

| module | models | theorems in |
|---|---|---|
| `DaemonLifecycle` | daemon processes and the invocations that start, use and stop them | `DaemonLifecycleProofs` |
| `Pipe` | abstract: two byte pipes, what a forwarded connection promises | |
| `Connection` | one forwarded connection, thread by thread | `ConnectionProofs` |
| `PortService` | `_ports`, forwarders, RPC threads, the SIGINT handler | `PortServiceProofs` |
| `RemoteRun` | `rx <command>` with rsync, worker, scheduler and user | `RemoteRunProofs` |
| `Login` | the token files, the login server and the processes that use them | `LoginProofs` |
| `Executor` | `StdinIterator` and `Executor.run`, thread by thread | `ExecutorProofs` |
| `Workspace` | rx init, run, stop, subscribe and unsubscribe around the remote config, the scheduler and a forwarded port | `WorkspaceProofs` |
| `Remotes` | the local config, the environment files and the default link; the lines of commit and stop | `RemotesProofs` |

`MCDaemonLifecycle`, `MCPortService`, `MCRemoteRun`, `MCLogin` and `MCRemotes` add what
only TLC needs: symmetry sets, and in `MCDaemonLifecycle` the specification in which
a stop runs last.

`Workspace` composes what `RemoteRun` and `PortService` have in common: the run that
restores a workspace and the forwarder that keeps an address appear in it with
the detail that the config needs, and with one process, one file and one port.

The order was: the daemon's life first, since every port command rests on it;
then the connection with its abstract pipe, the port service, rx run, login;
then the executor, the workspaces and the environment files. What is left:

1. The port service seen as an abstract table of ports, and the safety half of
   `WaitEnds`.
2. Ctrl-C in `Workspace` and `Remotes`, and a recycled pid that becomes a daemon.
3. The search for `.rx` in the parent directories, and toolchain detection, as
   operators against reference definitions.

## 3. How state and actions correspond to the code

A step is one access to state that others share (a file, a socket, a queue, an
event, a signal, an RPC, one file of an rsync); statements between two such
accesses belong to one of them. A local program counter (`pc`, `cli[c].pc`,
`proc[p]`, `l`, `r`, `g`, `h`) says where a process or thread is. `PROJECT.json`
maps definitions to lines. Operators that a comment calls "Mutant" are variants
of the definition below them with a plausible mistake; no specification uses
them.

### DaemonLifecycle

An invocation starts at most one daemon, so a member of `Cmd` is an invocation
and also the pid of its daemon. `pidfile[r]` is the pid file of workspace `r`:
`PidFile.write` truncates (`Truncate`) and flushes later (`WritePid`); a file
unlinked in between gets the pid on no name (`Orphaned`). `Bind`, `InstallHandler`,
`Serve`, `OnSigint`, `StopSelf`, `KillRound`, `AtExit` follow a daemon from
`_start_server` to its death, with SIGINT delivered wherever it is: before the
handler is installed it is a `KeyboardInterrupt` through or past
`Daemonizer.__exit__`; between `signal.signal` and `server.start` it stops a server
that has not started, and the daemon then serves (`Swallowed`).
Invocations follow `start_daemon`, `maybe_start_daemon`, `connect_and_kill`,
`StopCommand`, `kill_by_pid`, `RestartCommand`, `InfoCommand` and the port
commands, from their first read of the pid file (`Begin`) to their result.
`Crash` is a SIGKILL, `Recycle` gives a dead daemon's pid to another process, which
is never an rx daemon: a pid that is recycled for the daemon of another workspace,
the one case that `PidCheck` could not tell, is not modelled.

Abstractions: the sleeps between attempts are left out, so an attempt may come
at any time; an RPC to a port that is bound and not served waits; whatever else
listens on the port fails an RPC as a closed port does; `exists()` before
reading the pid file is part of the read; recycled pids belong to the same user,
so signals reach them; gRPC's own back-off is left out.

### Pipe and Connection

`Pipe` says what a user of a forwarded port expects: bytes of the one side arrive
at the other in order, without gaps or repetition, and none after the close.
`Connection` has thread L (`local_to_remote`), thread R (`remote_to_local`), the
request generator G (`_pull_from_req_queue`, pulled by gRPC's sending thread) and
the handler H (`Connection.handle`, `__exit__`, `forward_to_port`). R's loop
condition `qsize() > 0 or not is_set()` is two steps. A frame is a number; R
writes its bytes, `Bytes(k, n)`, to `down`, so that repetition and reordering can
be seen. `SendSizes` is the set of lengths that `send()` may take of a frame:
`{FrameLen}` for the properties that hold and for the proofs, smaller ones in
`ConnectionSend`. The local client and the worker are external: the client may
write, half-close or vanish at any time; the worker may answer, end or fail.
`send` blocks for as long as the client does not read: `RSends` may happen at any
time and need not. A busy wait is a disabled step.

### PortService

One action per access to `_ports` or a socket: OpenPort is `Open` (check), `Bind` or
`BindFails`, `Insert`. ClosePort is `Close`, `CloseStop`. GetPorts is `GetPorts`,
`GetPortsEnd`. The SIGINT handler is `Sigint`, `CloseNext` per entry, `CloseDone`, or
`CloseAbort` where the dictionary has grown under its iteration. On Linux, closing
a socket another thread is blocked on in `accept` leaves that thread there and the
port bound: the forwarder is "lingering". `Stop` lets each stopped forwarder linger
or end. `old` is a history variable.

### RemoteRun

Contents of files are "absent", "first", an edit of the user or the output of an
invocation. An rsync takes a file list, then copies or deletes one file per step
(`PushFile`, `PullFile`); a listed file that vanished gives exit code 24; it may
fail after any file. `Exec`, `ExecId`, `Exit` are the Exec stream; `Interrupt` is
Ctrl-C wherever the invocation is; `Ask`, `Unfreeze`, `Save` are `maybe_unfreeze`.
External: the user (`Edit`; with `Quiet` only between invocations), the remote
program (`Program` changes some files once, and the worker reports all changed
files, removed ones too, in `output_files`), the scheduler (`Freeze` stows an idle
workspace; Unfreeze of a workspace that runs answers where it is; the stream may
break after the workspace was restored). `dirty`,
`fresh` and `calm` are history variables.

### Login

A token is a record of the login it comes from (`grant`), its time and whether it
has a refresh token; `Tick` expires the tokens of earlier times. A file is
absent, empty (truncated and not flushed), garbled (two writers overlapped, or a
part of a token) or a token. `Begin`, `Load` read the access token; `StartServer` ... `ShutDown` are the
browser login with its server thread; `GetAccessToken` ... `WriteRefresh` write the
two files; `Validate`, `Refresh`, `Reload`, `Post` refresh; `Find...`, `Unlink...` are
`_delete_auth_files` with its check before each unlink. `Fault` is a kill or a Ctrl-C
anywhere; Ctrl-C inside a `with open` closes the file, which leaves nothing, a part
or all of the token in it (`CutShort`). For a garbled file every error that YAML, the key look-up or PyJWT may
raise is an outcome. `--nodo_auth` is left out.

### Executor

One action per statement of `__init__`, `__enter__`, `__exit__` that touches the
terminal or `_running`, of `loop` and `got_stdin` (`Test`, `Select`, `Read`, `Put`) and of
`__next__` (`Check`, `Get`). Keys are numbered; a request is the stretch of keys it
carries, so that loss, repetition and overtaking can be seen in `sent`. The two
critical sections of `_stdin_avail` are atomic: the one variable of theirs that is
written outside the lock only ever becomes False. `Sigint` is Ctrl-C in the main
thread, once and anywhere; the call may end at any time (`CallEnds`). `tty.setcbreak`
flushes what was typed before it (`Setcbreak`); a read that ends inside a multibyte
character may kill the loop thread ("undecoded", `Read`). A read on a
terminal that `__exit__` has half restored may find nothing (the thread dies) or
block. What the program prints is abstracted: `Write` only takes time.

### Workspace

`file` is the remote config: absent, empty (opened and not flushed), garbled (two
writers overlapped) or a pair of workspace and address. `WritableRemote` is three
steps, `Load`, `Open` and `Write`; init sets both keys, unfreeze the address only, of
whatever it reads. An init goes `BeginInit`, `CreateUser`, `Allocate`, the three
steps, `MakeClient` (which reads the config again, while the channel goes to the
address that was answered), `StartContainer`, `InstallDeps`, `GetInfo`, `OpenPorts`. A run
goes `BeginRun`, `MakeClient`, `Exec` and, where the rsync failed, `Ask`, `Unfreeze` and the
three steps. `fwd` is what the daemon's forwarder of one of the image's ports read
when it was opened; a port that is already forwarded is an error, and an image
without ports, or a daemon that does not start, leaves it as it is. Every RPC may
fail, also after the scheduler has allocated or restored the workspace.
External: the scheduler (`Freeze`, and what it answers), the payment, kills.
`calm` (processes nothing has overlapped) and `mixed` (an init has overlapped a run)
are history variables. Prompts are a yes or a no; the time of `_wait_for_payment` is
a number of polls; set-acls and info, which change nothing here, are left out, and so
is Ctrl-C, which differs from a kill in that it flushes what was written. Two torn
writes of the config are garbled; that they may happen to parse is left out.

### Remotes

An environment is its repository and whether it has environment variables, the
one field whose name is spelt differently in JSON. `MessageToDict` and
`env_dict_to_pb` are what the two conversions do to these. A file name is a
repository and a day. `CreateLocalConfig`, `Store` are `create_local_config`;
`GetTargetEnv`, `Answer` are `Client.init`, whose other steps are in `Workspace`;
`Compare`, `Open`, `Write`, `ExistsDefault`, `IsSymlink`, `Unlink`, `SymlinkTo` are `save_config`,
statement by statement. `rxroot` says whether a process was given a relative --rxroot,
in which case `Target`, the text of the link, leads nowhere (`Astray`): it is followed
from `.rx/remotes`. `PrintImage` is `rx ws commit` or `rx stop`, which may have no image
to print. As in `Workspace` Ctrl-C is left out. External: the user
pastes the printed lines over the default or deletes a file, days pass, processes
are killed, the server keeps what was asked for and fills in the rest.

## 4. Runs

| run | instance | states | shows |
|---|---|---|---|
| `DaemonSafety` | 2 invocations of 5 kinds, 2 workspaces, 2 releases, 2 attempts, 1 fault | 2.3 M | `SameWorkspace`, `SignalsOwnWorkspace`, `NoAssertion` |
| `DaemonLiveness` | 2 invocations of 4 kinds race, then a stop; 1 workspace, no faults | 215 k | `CommandsFinish`, `InterruptedDaemonDies`, `SettlesToOneDaemon`, `PidFileHeals`, `StopLeavesNothing` |
| `Connection` | 3 frames each way, 2 bytes a frame | 60 k | `ImplementsPipe`, `JoinedBeforeClose`, `DeliveredBeforeClose`, `EndsUnlessStranded` |
| `PortService` | 3 calls, 2 ports | 770 k | `NoLeak`, `ClosedOnExit`, `ListsForwarders`, `RefusedIfOpened` |
| `RunSync` | 2 invocations, 2 files, 1 edit, 1 stowing | 3.6 M | `NoLostEdit`, `RunsInSync`, `OutputsComeBack`, `RestoredIsFound` |
| `Login` | 2 processes, 3 times, 2 faults | 152 k | `RefreshTokenKept`, `LoginIsSaved`, `TryAgainStartsOver`, `CodeEndsLogin` |
| `Executor` | 3 keys, 2 responses, Ctrl-C | 49 k | `TerminalRestored`, `StdinInOrder`, `TypedIsSent`, `LeavesInputAlone` |
| `Workspace` | 2 processes of 5 kinds, 2 stowings, 1 kill, 2 polls | 104 k | `RestoredIsNamed`, `PairsMatch`, `EmptyOnlyWhileWritten`, `InitIsUsable`, `NoOrphan`, `WaitEnds` |
| `Remotes` | 2 processes, 1 repository, 2 days, 2 edits, 1 kill | 6.1 M | `SavedIsGot`, `DefaultStays`, `LocalKept`, `DefaultAsksForIt`, `LinkIsSafe`, `CommitLinesWork` |

The runs check no type invariant: that of each module is proved (section 5).

The properties in words:

* `SameWorkspace`: a call that is answered was answered by a daemon of the caller's
  workspace and release, although all workspaces share a port and pid files are
  rewritten and deleted by others. `SignalsOwnWorkspace`: the pids that a pid file
  gets signalled were pids of daemons of that workspace. `NoAssertion`: the
  `assert False` of `connect_and_kill` is unreachable.
* `CommandsFinish`, `InterruptedDaemonDies`, `SettlesToOneDaemon`, `PidFileHeals`:
  invocations end; a SIGINT kills a daemon wherever it arrives, but for the place
  between `signal.signal` and `server.start` where it is swallowed; when all is
  quiet at most one daemon is left, and it serves; an empty pid file does not
  stay. `StopLeavesNothing`: `rx daemon stop`, run when all is quiet, leaves no
  daemon, also where a race left a pid file that is missing or wrong.
* `ImplementsPipe`: the connection refines `Pipe`. `JoinedBeforeClose`,
  `DeliveredBeforeClose`: the socket is closed after both threads ended and, where
  the call ended normally and the client reads, after all was sent.
  `EndsUnlessStranded`: once the client is done, or the call is over, the handler
  ends, except where it is `Stranded` (below) and where the client keeps it for ever:
  by not reading, so that `send` blocks (`SendBlocked`), or, after the worker has ended
  the call, by not closing (`WaitsForClient`).
* `NoLeak`: a listening forwarder is in `_ports`, or its OpenPort is about to put it
  there. `ClosedOnExit`: `close_ports` tells all that it found to stop, or, where
  `RuntimeError` cuts it short, all that it had reached (one that was told so may
  linger, and take one more connection). `ListsForwarders`:
  GetPorts lists every open port. `RefusedIfOpened`: "Already forwarding port" is
  answered only for a port whose forwarder listens, or did until it was closed.
* `NoLostEdit`: an edit made between invocations is never overwritten unread.
  `RunsInSync`: an invocation that no other overlaps runs its
  program on the local files and leaves the program's files. `OutputsComeBack`: also
  with overlaps, what a program wrote or removed is so in the local directory when its
  invocation returns, if rsync did not fail and no other invocation has changed the
  file, or removed it by a copy back with an older list. `RestoredIsFound`: when an
  invocation on its own has unfrozen the workspace, the config names its machine.
* `RefreshTokenKept`: the refresh token file never gets the answer to a refresh.
  `LoginIsSaved`, `TryAgainStartsOver`: a process that ran on its own has saved its
  tokens, or removed both files when it says to try again, whatever earlier crashes
  left. `CodeEndsLogin`: once the code arrived, login and server thread end.
* `StdinInOrder`: the worker gets the request and then, from the first key that
  `tty.setcbreak` has not flushed, every key once and in order. `TypedIsSent`: a key
  typed in cbreak mode is sent unless the main thread leaves first or a read could
  not be decoded.
  `TerminalRestored`: the terminal is what it was, unless Ctrl-C fell into `__enter__`
  or `__exit__`. `LeavesInputAlone`: afterwards no key is taken from the shell, unless
  `select` had already returned.
* `NoOrphan`: however an init on its own ends, the config names the workspace that was
  allocated for it. The exceptions (`LosesIt`) are an answer that was lost, a config
  that could not be read, and a kill before the new one was written. `InitIsUsable`:
  where it returns 0, or fails at a port, a run works with that config. `PairsMatch`: the
  config, and what a port is forwarded to, pair a workspace with its own machine,
  unless an init overlaps a run. `RestoredIsNamed`: of runs that restore at once, the
  newest answer is in the config, unless a run with an older one has saved too.
  `EmptyOnlyWhileWritten`: the config is empty only while it is written. `WaitEnds`:
  the wait for payment ends.
* `SavedIsGot`: what init saves reads back as what it got. `DefaultAsksForIt`,
  `LinkIsSafe`: after an init on its own the default can be read and asks for what
  the workspace has; a default that leads somewhere is not moved, and never moved to
  a file that is not written; both except a relative --rxroot, with which a new link
  leads nowhere. `DefaultStays`: inits that overlap may fail on the link or remove each
  other's, and once one of them has saved and returned 0 there is a default all the
  same. `LocalKept`: an init that fails leaves the local config as it was: it is empty
  only while it is written, or after a kill. `CommitLinesWork`: lines of commit,
  pasted, ask for the committed image.

### Disagreements between the code and what it says

| run | property | what happens |
|---|---|---|
| `ConnectionSend` | `SentOnce` | after a partial `send()` the first bytes are sent again |
| `RunInterrupt` | `InterruptKills` | Ctrl-C before the first response leaves the program running |
| `StopLines` | `StopLinesWork` | the lines that `rx stop` prints "to initialize a new workspace with this state" spell `environmentVariables`, which rx init ignores |

Other behaviours that the models contain and that surprise, without a run of their
own:

* `maybe_start_daemon`, which "returns if the daemon is running when this returns",
  says True for a daemon that starts, leaves or lost the port, or for any process
  with its pid (`Probe`).
* A daemon that stops through `Daemonizer.__exit__` SIGTERMs itself and leaves its
  pid file (`StopSelf`). `kill_by_pid` may delete the file of a daemon that has just
  started (`NobodyThere`). Reading the pid file between truncate and flush is a
  `ValueError` (`ReadPid`).
* The handler waits for ever for a response queue whose reader died of a send
  error (`Stranded`). It also does after a race: R finds the queue empty, H puts the
  last response and sets the event, R finds the event set and ends (`RQsize`, `RIsSet`),
  and the response is never sent. Requests that are queued when the client half-closes are not
  sent (`GEnd`). After the worker's last frame the handler waits for the client to
  close (`HJoin`); a protocol in which the server speaks first waits for the first
  request. A client that half-closes and does not read keeps the handler in `send`
  (`RSends`).
* A SIGINT between `signal.signal` and `server.start` is lost (`Serve`).
* A port that was closed cannot be opened again while the daemon lives: ClosePort
  leaves the stopped forwarder in `_ports` (`CloseStop`).
* A forwarder may accept one connection after ClosePort answered (`Accept` of a
  lingering one). GetPorts reports the local port only, never the mapping.
* With `Quiet = FALSE`, `NoLostEdit` fails: the copy back overwrites edits made while
  the program ran. The copy out of one run deletes outputs of another before they
  are copied back. A failed copy back is reported as success (`PullEnd`). A file that
  vanishes during the copy out makes rx call the worker unreachable (`PushEnd`, `Ask`).
* The login URL may name port 0 (`CreateLoginUrl` before the server thread has set
  `_port`). A process that reads an access token file that is being written dies of
  `TypeError` (`Load`). Two logins at once may leave the access token of one and the
  refresh token of the other, although "these start out the same" (`WriteAccess`,
  `WriteRefresh`).
* `StdinIterator.__exit__` notifies nobody, so the gRPC thread that waits for a key
  waits on (`Get`). What is typed before `tty.setcbreak` is never sent (`Setcbreak`).
  Ctrl-C inside `__enter__` or `__exit__` leaves the terminal as it is.
* A process killed while it rewrites the remote config leaves it empty; the next
  `rx init` allocates a workspace and dies of `TypeError` before it has saved it (`Load`).
  A run that restores the workspace while an init replaces it writes the old
  machine's address next to the new workspace (`Changed`). An init whose image has a
  port that the daemon already forwards ends in a `PortError` after everything else
  worked; one whose image has no ports returns 0, and the forwarder of the earlier
  workspace stays (`OpenPorts`); and a forwarder keeps its old address after an unfreeze. "Would you like to
  stop that one and start a new one?" is asked, and no call stops the earlier
  workspace: the config just forgets it.
* An environment file emptied by a kill is read as no wish at all and never
  repaired, since it exists (`ExistsDefault`). With a relative --rxroot the default link
  dangles (`Target`). Two inits that overlap may fail on the
  link (`Unlink`, `SymlinkTo`). `rx ws info` spells its lines as `rx stop` does.

### Bounds

Two invocations are enough for every race over one pid file, port, directory or
token file that the properties speak of; a third, in `DaemonLiveness`, is needed so that
two can leave a wrong pid file for a stop to find. Two workspaces and two releases
make wrong answerers possible. `Tries` is 5 in the code: 1 gives the "gave up"
branch, 2 a retry after a failed attempt, and no branch depends on more. Three
frames let one frame be in a queue, one in a thread's hands and one not yet sent;
two bytes make a torn frame visible. Three calls give an open, a racing open and a
close or a GetPorts; ports 1 and 2 give mappings to another port. Two files let an
rsync fail between files. Every count is a `CONSTANT`, and the theorems do not bound
it. Three keys let one be read, one wait and one be typed. Two
days give a default that points elsewhere than where init saves, and one it
overwrites; a second repository adds names, not cases. Two stowings let an answer be
older than another. `MaxFaults`, `MaxTime`, `MaxFreezes`, `MaxConn`, `MaxReq`, `MaxResp`, `Edits`, `MaxEdits`,
`Days`, `MaxKeys`, `MaxResponses` and `Polls` keep the state space finite. In
`DaemonLiveness` the two that race are interchangeable, so one order of each pair of
kinds is enough (`Rank`).

Symmetry is used where invocations, calls, files, workspaces and releases are
interchangeable and no liveness is checked.

`CHECK_DEADLOCK FALSE` stands where a behaviour may end: clients and callers stop
coming (`Connection`, `PortService`), every invocation is done (`RemoteRun`, `Login`,
`Executor`, `Workspace`, `Remotes`), a
login waits for a browser that never answers, a handler is stranded. The daemon
runs check for deadlock: a state in which nothing moves must have every
invocation done.

### Fairness

* `DaemonLifecycle`: weak fairness for each invocation that has begun and each
  daemon process: the operating system runs them and delivers signals. None for
  `Begin` (nobody has to type), `Crash` and `Recycle`.
* `Connection`: weak fairness for each thread, and for the worker to end its call
  once the requests have ended. None for the client, and none for `RSends`, which a
  client that does not read blocks.
* `Login`: weak fairness for each process and its server thread. None for the
  browser, the clock and faults; the wait for the code is not left by fairness.
* `Executor`: weak fairness for each of the three threads. None for responses, the end
  of the call, Ctrl-C and the user.
* `Workspace`: weak fairness for each process that has begun: its calls are answered
  or fail. None for beginning, the scheduler, the payment and kills.
* `PortService`, `RemoteRun` and `Remotes` check safety only and assume none.

## 5. Theorems

All are proved for any finite or infinite sets of processes, calls, ports and files,
and any natural bounds. Assumptions on constants (`CmdAssumption`, `KindsAssumption`,
`BoundsAssumption`, `ServiceAssumption`, `RunAssumption`, `ExecutorAssumption`,
`WorkspaceAssumption`, `RemotesAssumption` and those of `Connection` and `Login`) say that sentinels such as "absent" or "none" are not processes and that
bounds are natural numbers.

| theorem | statement | argument |
|---|---|---|
| `TypeCorrect` | `TypeOK` of `DaemonLifecycle` | by action |
| `ProvenanceHolds` | `Provenance` | inductive with `TypeOK` |
| `AnsweredBySameWorkspace`, `SignalsStayInWorkspace`, `AssertionNeverFails` | the three safety properties of the daemon | from `Provenance` |
| `OneDaemonServes`, `StartsAtMostOnce` | at most one daemon serves, and it holds the port; an invocation starts at most one daemon | `LifeInv`: `PortInv`, `StartsOnce` |
| `EmptyPidFileIsBeingWritten` | `EmptyIsBeingWritten`, half of `PidFileHeals` | `LifeInv`: `Held` |
| `SignalsAreTaken` | `SignalTaken`, half of `InterruptedDaemonDies` | `HandlerInv`, `Held` |
| `StopReachesEveryDaemon` | `StopReaches`, half of `StopLeavesNothing` | `StopInv` |
| `ConnectionTypeCorrect`, `NoUseAfterClose`, `Delivered` | types, `JoinedBeforeClose`, `DeliveredBeforeClose` | one invariant on the threads, and one on where each frame is |
| `NobodyWaitsInVain` | `WaitsAreMet`, half of `EndsUnlessStranded` | `ThreadInv` |
| `RefinesPipe` | `ImplementsPipe` | initial states, then step by step |
| `ServiceTypeCorrect`, `ForwardersAreFiled`, `ClosePortsStopsAll`, `ForwardersAreListed`, `RefusedPortsWereOpened` | types, `NoLeak`, `ClosedOnExit`, `ListsForwarders`, `RefusedIfOpened` | `LeakInv`, and `ListensUnlessClosed` |
| `RunTypeCorrect` | `TypeOK` of `RemoteRun` | with `HostInv` |
| `QuietEditsSurvive` | `NoLostEdit`, if `Quiet` | `EditInv` |
| `OutputsReturn` | `OutputsComeBack` | `OutputInv` |
| `RestoredAddressHolds` | `RestoredIsFound` | `CalmInv` |
| `AloneStaysInSync` | `RunsInSync`, if `Quiet` | `CalmInv`, `SyncInv` |
| `LoginTypeCorrect`, `RefreshTokenSurvives`, `LoginsAreSaved`, `TryAgainMeansIt` | types and the three safety properties of `Login` | `LoginInv` |
| `ServerDoesNotOutliveLogin` | `NoServerLeft`, half of `CodeEndsLogin` | `NotStarted` |
| `ExecutorTypeCorrect`, `KeysInOrder`, `TerminalIsRestored`, `InputLeftAlone` | types, `StdinInOrder`, `TerminalRestored`, `LeavesInputAlone` | `Chain`, `Progress` |
| `KeysAreCarried` | `Carried`, half of `TypedIsSent` | `EnterInv` |
| `WorkspaceTypeCorrect` | `TypeOK` of `Workspace` | with `MovesBounded` |
| `ConfigPairsMatch` | `PairsMatch` | `PairInv` |
| `InitLeavesItUsable`, `NothingIsOrphaned` | `InitIsUsable`, `NoOrphan` | `Alone`, `SoFar`, `Unborn` |
| `RestoringNamesIt` | `RestoredIsNamed` | `Answered`, with `PairInv` |
| `EmptyIsTransient` | `EmptyOnlyWhileWritten` | with `WritesDoc` |
| `RemotesTypeCorrect`, `CommittedIsAskedFor` | types, `CommitLinesWork` | `PrintedIs` |
| `SavedReadsBack`, `LinkMovesSafely`, `DefaultAsks` | `SavedIsGot`, `LinkIsSafe`, `DefaultAsksForIt` | `Alone`, `SoFar`, `EmptyIfKilled` |
| `DefaultIsKept`, `LocalIsKept` | `DefaultStays`, `LocalKept` | inductive, with `Progress` |

The inductive invariants open the `Proofs` modules. What a theorem states is in the
module of the model, with the properties that the runs check.

A liveness property has a safety half: what must hold at every moment for
the fair steps to lead to the goal. Fairness is outside the prover, the safety half
is not, and it is where these properties could go wrong: `Carried` says that no
wake-up is lost, `SignalTaken` that no signal is sent to a process that ignores it,
`EmptyIsBeingWritten` that somebody is about to fill an empty pid file, `StopReaches`
that a stop overlooks no daemon, `WaitsAreMet` that no thread waits for one that has
ended without telling, `NoServerLeft` that no server thread is left behind
by a login that ended. TLC has checked each of them, and each inductive
invariant, on instances of the size of section 4 before it was proved.

Why the invariants are needed:

* `Provenance`. `SameWorkspace` speaks of answers; an answer is right because the pid
  it was asked with came from the workspace's pid file, and that holds because
  every pid ever written there is one of its daemons. So the invariant follows a
  pid from `pidfile` to `seen`, `victim` and `from`.
* `LifeInv`. A daemon killed between truncating and writing its pid file would leave
  it empty. Whoever is signalled was found through a pid file or an answer, and so
  has written its pid already (`Held`), unless the same pid starts again, which
  `StartsOnce` excludes. `HandlerInv` adds which of the two handlers a daemon has.
  `StopInv` follows a stop that runs alone: the daemons that are not leaving are at
  most one, because it holds the port (`PortInv`), and the stop asks that port.
* `Connection`. That nothing is cut off needs the place of every frame: sent to the
  socket, in R's hands, in the queue, in that order and together all that was
  answered; and that R stops only when the event is set and the queue was empty
  before, although it looked at the two in two steps.
* `LeakInv` adds `OneHolder` (the kernel gives a port to one socket), `Filed` (an entry's
  key is its forwarder's local port) and `Stopping` (what the handler has yet to
  stop is where it will look, since an entry is replaced only after its forwarder
  has let go of the port).
* `EditInv`: a file the user changed is in the part of every running copy out that is
  yet to be read, and the file list knows whether it exists. `OutputInv` says the same
  of outputs and the copy back. `HostInv` bounds how often the workspace moved.
  `CalmInv`: while nothing overlaps an invocation, no other is active, no other program
  runs and the workspace stays where it is. `SyncInv`: then what it has copied is the
  same on both sides, file by file, at each step of both rsyncs.
* `LoginInv`: what is on its way to the refresh token file has a refresh token; a
  process alone knows what the files hold at each step.
* `Chain`: what was sent, what waits in the buffer and what the loop thread holds are
  one stretch of keys; `Progress` says how far the terminal has been changed or
  restored at each statement.
* `PairInv`: an init is about to save its own workspace at its own address; as long
  as no init overlapped a run, all runs that are about to save restored one
  workspace, the one the config names. Two runs may then tear or overwrite the
  file in any order, and the pair stays right.
* `Alone` and `SoFar`, in `Workspace` and in `Remotes`: a process that nothing overlaps
  knows at each step what it has left on disk and at the server. `Unborn`: nothing
  names the workspace of an init that has not asked for one. `Answered`: what a run is
  about to save is what it was answered, and no answer is newer than the workspace.
  `DefaultStays` and `LocalKept` speak of every interleaving; they need only that a
  process has no result before it ends (`Progress`). `EmptyIfKilled`: a
  file is empty only after a kill or while a process rewrites it.

The proofs about `Connection` that speak of bytes assume whole-frame sends
(`SendSizes = {FrameLen}`); `ConnectionSend` shows that they need it.

Only model-checked: what needs fairness (`CommandsFinish`, `InterruptedDaemonDies`,
`SettlesToOneDaemon`, `PidFileHeals`, `StopLeavesNothing`, `EndsUnlessStranded`,
`CodeEndsLogin`, `TypedIsSent`, `WaitEnds`), which is outside what the prover handles.
Every other property of a passing run is the statement of a theorem.

## 6. Not modelled

`rx ws info` and `rx ws set-acls` are single RPCs that change nothing the other parts
use. Of users and menus, the wording of prompts and the validation of a name are
left out. The search for `.rx` in the parent directories is a pure function of the
file system, and so is toolchain detection, which only `rx init --dry-run` reaches.
Message definitions, progress bars, formatting, logging and flag parsing carry no
state that a property speaks of. `--nodo_auth`, `--git` and `--dry-run` are left out.

## 7. Running it

    tlc -config DaemonSafety.cfg MCDaemonLifecycle
    tlapm DaemonLifecycleProofs.tla

`PROJECT.json` names the module and the configuration of each run, the theorems, the
source lines of each definition, and for each property a variant of the code
under which it fails.
