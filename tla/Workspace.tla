----------------------------- MODULE Workspace -----------------------------
(***************************************************************************)
(* Workspaces and the remote config that names one: rx init and reinit      *)
(* (rx/client/commands/init.py, init of trex_client.py and of               *)
(* worker_client.py), restoring a stowed workspace in rx run (runner.py,    *)
(* unfreeze), rx stop, subscribe and unsubscribe, and the file itself       *)
(* (configuration/{config_base,remote}.py).  The processes of a directory   *)
(* share .rx/.../remote, which WritableRemote reads, changes and rewrites   *)
(* in place, and hold no lock.                                              *)
(*                                                                         *)
(* The scheduler, the workers, the user and the payment are external.  The  *)
(* workspace that init c allocates is called c; its address is where it     *)
(* runs after gen moves.  What exec does is in RemoteRun, logging in is in  *)
(* Login, the saved environment is in Remotes.                              *)
(***************************************************************************)
EXTENDS Naturals

CONSTANTS Cmd,         \* rx processes
          Kinds,       \* the commands they may be
          Polls,       \* times _wait_for_payment asks before the timeout
          MaxFreezes,  \* bound: times the scheduler stows a workspace
          MaxFaults    \* bound: processes that are killed

ASSUME WorkspaceAssumption ==
  /\ "old" \notin Cmd /\ Kinds \subseteq {"init", "run", "stop", "subscribe", "unsubscribe"}
  /\ Polls \in Nat /\ MaxFreezes \in Nat /\ MaxFaults \in Nat

Id == Cmd \cup {"old"}
Addr == [of : Id, gen : 0..MaxFreezes]
Doc == [is : {"absent", "empty", "garbled", "doc"}, ws : Id, addr : Addr]

VARIABLES
  file,               \* the remote config
  state, gen,         \* of each workspace, at the scheduler
  freezes, faults,
  user, paid,         \* .rx/.../user/config.yaml exists; the subscription is active
  fwd,                \* the port forwarder of the daemon: what it read when it was opened
  kind, pc, result,   \* process c: its command, where it is, how it ended
  at,                 \* the address its channel goes to
  mem,                \* the config it has read or is about to write
  got,                \* the address the scheduler answered
  polls,              \* times it may still ask for the payment
  calm, mixed         \* history: processes no other has overlapped; an init has
                      \* overlapped a run

server == <<state, gen, freezes, faults, paid>>
local  == <<at, mem, got, polls>>
hist   == <<calm, mixed>>
vars   == <<file, server, user, fwd, kind, pc, result, local, hist>>

PcState == {"new", "user", "alloc", "load", "open", "write", "client", "setup", "deps", "info",
            "ports", "exec", "ask", "unfreeze", "wait", "done"}
Errors  == {"error", "ConfigNotFoundError", "TypeError", "YAMLError", "PortError",
            "RuntimeError", "TimeoutError", "WorkspaceRelocationError"}
Results == Errors \cup {"none", "0", "declined", "subscribe", "restored", "unreachable", "killed"}

Nowhere == [of |-> "old", gen |-> 0]
Nothing(k) == [is |-> k, ws |-> "old", addr |-> Nowhere]
Where(w) == [of |-> w, gen |-> gen[w]]
Named(w, a) == [is |-> "doc", ws |-> w, addr |-> a]

TypeOK ==
  /\ file \in Doc /\ mem \in [Cmd -> Doc] /\ fwd \in Doc
  /\ state \in [Id -> {"none", "allocated", "started", "running", "frozen", "stopped"}]
  /\ gen \in [Id -> 0..MaxFreezes] /\ freezes \in 0..MaxFreezes /\ faults \in 0..MaxFaults
  /\ user \in BOOLEAN /\ paid \in BOOLEAN /\ mixed \in BOOLEAN
  /\ kind \in [Cmd -> Kinds] /\ pc \in [Cmd -> PcState] /\ result \in [Cmd -> Results]
  /\ at \in [Cmd -> Addr] /\ got \in [Cmd -> Addr] /\ polls \in [Cmd -> 0..Polls]
  /\ calm \in SUBSET Cmd

\* A directory without rx, or one that an rx init has set up.
Init ==
  /\ \/ file = Nothing("absent") /\ user = FALSE /\ state = [w \in Id |-> "none"]
     \/ /\ file = Named("old", Nowhere) /\ user = TRUE
        /\ state = [w \in Id |-> IF w = "old" THEN "running" ELSE "none"]
  /\ gen = [w \in Id |-> 0] /\ freezes = 0 /\ faults = 0
  /\ paid \in BOOLEAN /\ fwd \in {Nothing("absent"), file}
  /\ kind \in [Cmd -> Kinds] /\ pc = [c \in Cmd |-> "new"] /\ result = [c \in Cmd |-> "none"]
  /\ at = [c \in Cmd |-> Nowhere] /\ mem = [c \in Cmd |-> Nothing("absent")]
  /\ got = [c \in Cmd |-> Nowhere] /\ polls = [c \in Cmd |-> Polls]
  /\ calm = {} /\ mixed = FALSE

Active(c) == pc[c] \notin {"new", "done"}
Goto(c, label) == pc' = [pc EXCEPT ![c] = label] /\ UNCHANGED result
Return(c, r) == pc' = [pc EXCEPT ![c] = "done"] /\ result' = [result EXCEPT ![c] = r]

\* Remote(): the file is missing, is the YAML document None, or is not YAML.
NoConfig(c) ==
  \/ file.is = "absent" /\ Return(c, "ConfigNotFoundError")
  \/ file.is = "empty" /\ Return(c, "TypeError")
  \/ file.is = "garbled" /\ Return(c, "YAMLError")

(***************************************************************************)
(* The scheduler, the user and faults (external)                           *)
(***************************************************************************)

\* The worker at address a has workspace w.
Serves(a, w) == a = Where(w) /\ state[w] \in {"allocated", "started", "running"}

Freeze(w) ==
  /\ state[w] = "running" /\ freezes < MaxFreezes
  /\ state' = [state EXCEPT ![w] = "frozen"]
  /\ freezes' = freezes + 1
  /\ UNCHANGED <<file, gen, faults, paid, user, fwd, kind, pc, result, local, hist>>

Pay ==
  /\ \E c \in Cmd : pc[c] = "wait"
  /\ ~paid /\ paid' = TRUE
  /\ UNCHANGED <<file, state, gen, freezes, faults, user, fwd, kind, pc, result, local, hist>>

\* Nothing was flushed to a file that is open.
Kill(c) ==
  /\ Active(c) /\ faults < MaxFaults
  /\ faults' = faults + 1
  /\ Return(c, "killed")
  /\ UNCHANGED <<file, state, gen, freezes, paid, user, fwd, kind, local, hist>>

(***************************************************************************)
(* rx init                                                                 *)
(***************************************************************************)

\* History: process c begins, on its own or while others are at work.
Overlaps(c) ==
  /\ calm' = IF \A d \in Cmd : ~Active(d) THEN calm \cup {c} ELSE {d \in calm : ~Active(d)}
  /\ mixed' = (mixed \/ \E d \in Cmd : Active(d) /\ {kind[c], kind[d]} = {"init", "run"})

\* _show_init_message and create_local_config: the user may say no.
BeginInit(c) ==
  /\ kind[c] = "init" /\ pc[c] = "new"
  /\ Goto(c, "user") \/ Return(c, "declined")
  /\ Overlaps(c)
  /\ UNCHANGED <<file, server, user, fwd, kind, local>>

\* create_user_or_log_in, with SetUsername for a new user, then the user config.
CreateUser(c) ==
  /\ pc[c] = "user"
  /\ \/ user' = TRUE /\ (Goto(c, "alloc") \/ \E r \in {"declined", "RuntimeError"} : Return(c, r))
     \/ user' = user /\ \E r \in {"declined", "error"} : Return(c, r)
  /\ UNCHANGED <<file, server, fwd, kind, local, hist>>

\* SetupService.Init: a workspace is allocated, or the answer is an error; a call
\* that breaks off may have allocated one whose name nobody hears.
Allocate(c) ==
  /\ pc[c] = "alloc"
  /\ \/ /\ state' = [state EXCEPT ![c] = "allocated"]
        /\ got' = [got EXCEPT ![c] = Where(c)]
        /\ at' = [at EXCEPT ![c] = Where(c)]
        /\ Goto(c, "load")
     \/ /\ Return(c, "error")
        /\ state' \in {state, [state EXCEPT ![c] = "allocated"]}
        /\ UNCHANGED <<got, at>>
     \/ ~paid /\ Return(c, "subscribe") /\ UNCHANGED <<state, got, at>>
  /\ UNCHANGED <<file, gen, freezes, faults, paid, user, fwd, kind, mem, polls, hist>>

\* WritableRemote() reads the file.  init sets workspace_id and worker_addr (and
\* the rsync module), unfreeze worker_addr only (of a file that it has read
\* before, and that nobody removes).
\* Mutants: unfreeze keeps the worker_addr that is there, init the workspace_id.
ChangedNothing(c) == IF kind[c] = "init" THEN Named(c, got[c]) ELSE file
ChangedAddr(c) == [file EXCEPT !.addr = got[c], !.is = "doc"]
Changed(c) == IF kind[c] = "init" THEN Named(c, got[c]) ELSE [file EXCEPT !.addr = got[c]]
Load(c) ==
  /\ pc[c] = "load"
  /\ \/ /\ file.is = "doc" \/ (kind[c] = "init" /\ file.is = "absent")
        /\ mem' = [mem EXCEPT ![c] = Changed(c)]
        /\ Goto(c, "open")
     \/ file.is # "absent" /\ NoConfig(c) /\ UNCHANGED mem
  /\ UNCHANGED <<file, server, user, fwd, kind, at, got, polls, hist>>

\* __exit__: open(mode='wt') truncates the file,
Open(c) ==
  /\ pc[c] = "open"
  /\ file' = Nothing("empty")
  /\ Goto(c, "write")
  /\ UNCHANGED <<server, user, fwd, kind, local, hist>>

\* and closing it flushes the text.  Over what another process has flushed since
\* both opened it, a shorter text leaves the end of a longer one; that is less than
\* a line (only addresses differ in length), so that it does not parse, or it does
\* as a key that nobody reads.
\* Mutant: init goes on without having written.
AfterWrite(c) == IF kind[c] = "init" THEN Goto(c, "client") ELSE Return(c, "restored")
WriteNothing(c) ==
  /\ pc[c] = "write"
  /\ AfterWrite(c)
  /\ UNCHANGED <<file, server, user, fwd, kind, local, hist>>
Write(c) ==
  /\ pc[c] = "write"
  /\ file' = mem[c] \/ (file.is # "empty" /\ file' = Nothing("garbled"))
  /\ AfterWrite(c)
  /\ UNCHANGED <<server, user, fwd, kind, local, hist>>

\* worker_client.Client() reads the config again; init keeps the channel to the
\* address it was answered.
MakeClient(c) ==
  /\ pc[c] = "client"
  /\ \/ /\ file.is = "doc"
        /\ mem' = [mem EXCEPT ![c] = file]
        /\ Goto(c, IF kind[c] = "init" THEN "setup" ELSE "exec")
     \/ NoConfig(c) /\ UNCHANGED mem
  /\ UNCHANGED <<file, server, user, fwd, kind, at, got, polls, hist>>

\* worker_client.init: rsync is set up, the sources are copied and the container
\* is started for the workspace that the config names; then the dependencies are
\* installed.  Errors are WorkerErrors, or exceptions that init does not catch.
Setup(c, from, to, before, after) ==
  /\ pc[c] = from
  /\ LET w == mem[c].ws IN
     \/ /\ Serves(at[c], w) /\ mem[c].addr = at[c] /\ state[w] \in before
        /\ state' = [state EXCEPT ![w] = after]
        /\ Goto(c, to)
     \/ Return(c, "error") /\ UNCHANGED state
     \/ from = "deps" /\ ~Serves(at[c], w) /\ UNCHANGED state
        /\ Return(c, "WorkspaceRelocationError")
  /\ UNCHANGED <<file, gen, freezes, faults, paid, user, fwd, kind, local, hist>>
StartContainer(c) == Setup(c, "setup", "deps", {"allocated", "started", "running"}, "started")
\* Mutant: init does not wait for the dependencies.
InstallDepsLater(c) ==
  /\ pc[c] = "deps" /\ Goto(c, "info")
  /\ UNCHANGED <<file, server, user, fwd, kind, local, hist>>
InstallDeps(c) == Setup(c, "deps", "info", {"started", "running"}, "running")

\* get_info of the workspace that was allocated.
\* Mutant: an init that fails resets the config.
GetInfoResets(c) ==
  /\ pc[c] = "info"
  /\ \/ Goto(c, "ports") /\ UNCHANGED file
     \/ Return(c, "error") /\ file' = Nothing("absent")
  /\ UNCHANGED <<server, user, fwd, kind, local, hist>>
GetInfo(c) ==
  /\ pc[c] = "info"
  /\ Goto(c, "ports") \/ Return(c, "error")
  /\ UNCHANGED <<file, server, user, fwd, kind, local, hist>>

\* _open_ports: the image has no ports, or the daemon cannot be started, whatever is
\* forwarded already; or the daemon reads the config and forwards the ports.  A port
\* that it forwards already is a PortError that nobody catches; fwd is the forwarder
\* of one port, and another port may fail before it or after it.
OpenPorts(c) ==
  /\ pc[c] = "ports"
  /\ \/ UNCHANGED fwd /\ \E r \in {"0", "PortError"} : Return(c, r)
     \/ /\ fwd.is = "absent" /\ file.is = "doc" /\ fwd' = file
        /\ \E r \in {"0", "PortError"} : Return(c, r)
     \/ fwd.is = "absent" /\ file.is # "doc" /\ UNCHANGED fwd /\ Return(c, "error")
  /\ UNCHANGED <<file, server, user, kind, local, hist>>

(***************************************************************************)
(* rx run, stop, subscribe and unsubscribe                                 *)
(***************************************************************************)

\* The channel goes to the address that the config names now.
BeginRun(c) ==
  /\ kind[c] = "run" /\ pc[c] = "new"
  /\ \/ /\ file.is = "doc"
        /\ at' = [at EXCEPT ![c] = file.addr]
        /\ Goto(c, "client")
     \/ NoConfig(c) /\ UNCHANGED at
  /\ Overlaps(c)
  /\ UNCHANGED <<file, server, user, fwd, kind, mem, got, polls>>

\* exec (see RemoteRun): the program runs, or the rsync fails.
Exec(c) ==
  /\ pc[c] = "exec"
  /\ \/ Serves(at[c], mem[c].ws) /\ Return(c, "0")
     \/ Return(c, "error")
     \/ Goto(c, "ask")
  /\ UNCHANGED <<file, server, user, fwd, kind, local, hist>>

\* maybe_unfreeze reads the config for each of its two calls.
Ask(c) ==
  /\ pc[c] = "ask"
  /\ \/ file.is = "doc" /\ state[file.ws] = "frozen" /\ Goto(c, "unfreeze")
     \/ file.is = "doc" /\ state[file.ws] # "frozen" /\ Return(c, "unreachable")
     \/ file.is = "doc" /\ Return(c, "error")
     \/ NoConfig(c)
  /\ UNCHANGED <<file, server, user, fwd, kind, local, hist>>

\* The scheduler sets the workspace up on a new machine, unless another call has.  A
\* stream that breaks off may break before that or after it.
Restored(w) ==
  \/ /\ state[w] = "frozen"
     /\ state' = [state EXCEPT ![w] = "running"]
     /\ gen' = [gen EXCEPT ![w] = @ + 1]
  \/ state[w] # "frozen" /\ UNCHANGED <<state, gen>>
Unfreeze(c) ==
  /\ pc[c] = "unfreeze"
  /\ \/ /\ file.is = "doc" /\ Restored(file.ws)
        /\ \/ /\ got' = [got EXCEPT ![c] = [of |-> file.ws, gen |-> gen'[file.ws]]]
              /\ Goto(c, "load")
           \/ UNCHANGED got /\ Return(c, "error")
     \/ file.is = "doc" /\ Return(c, "error") /\ UNCHANGED <<state, gen, got>>
     \/ NoConfig(c) /\ UNCHANGED <<state, gen, got>>
  /\ UNCHANGED <<file, freezes, faults, paid, user, fwd, kind, at, mem, polls, hist>>

\* rx stop.
Stop(c) ==
  /\ kind[c] = "stop" /\ pc[c] = "new"
  /\ \/ /\ file.is = "doc"
        /\ state' = [state EXCEPT ![file.ws] = "stopped"]
        /\ \E r \in {"0", "error"} : Return(c, r)
     \/ file.is = "doc" /\ Return(c, "error") /\ UNCHANGED state
     \/ NoConfig(c) /\ UNCHANGED state
  /\ Overlaps(c)
  /\ UNCHANGED <<file, gen, freezes, faults, paid, user, fwd, kind, local>>

\* explain_subscription needs the user config and a yes; then the browser opens.
Subscribe(c) ==
  /\ kind[c] = "subscribe" /\ pc[c] = "new"
  /\ \/ ~user /\ Return(c, "RuntimeError")
     \/ user /\ (Goto(c, "wait") \/ \E r \in {"declined", "error"} : Return(c, r))
  /\ Overlaps(c)
  /\ UNCHANGED <<file, server, user, fwd, kind, local>>

\* _wait_for_payment asks until the subscription is active, the answer is an
\* error, or the time is over.  Mutant: the deadline moves with every question.
CheckSubscriptionForever(c) ==
  /\ pc[c] = "wait"
  /\ \/ paid /\ Return(c, "0") /\ UNCHANGED polls
     \/ Return(c, "error") /\ UNCHANGED polls
     \/ /\ ~paid
        /\ polls' = [polls EXCEPT ![c] = IF @ = 0 THEN Polls ELSE @ - 1]
        /\ UNCHANGED <<pc, result>>
  /\ UNCHANGED <<file, server, user, fwd, kind, at, mem, got, hist>>
CheckSubscription(c) ==
  /\ pc[c] = "wait"
  /\ \/ polls[c] > 0 /\ paid /\ Return(c, "0") /\ UNCHANGED polls
     \/ polls[c] > 0 /\ Return(c, "error") /\ UNCHANGED polls
     \/ /\ polls[c] > 0 /\ ~paid
        /\ polls' = [polls EXCEPT ![c] = @ - 1]
        /\ UNCHANGED <<pc, result>>
     \/ polls[c] = 0 /\ Return(c, "TimeoutError") /\ UNCHANGED polls
  /\ UNCHANGED <<file, server, user, fwd, kind, at, mem, got, hist>>

Unsubscribe(c) ==
  /\ kind[c] = "unsubscribe" /\ pc[c] = "new"
  /\ \/ paid' = FALSE /\ Return(c, "0")
     \/ paid' = paid /\ Return(c, "error")
  /\ Overlaps(c)
  /\ UNCHANGED <<file, state, gen, freezes, faults, user, fwd, kind, local>>

Begin(c) == BeginInit(c) \/ BeginRun(c) \/ Stop(c) \/ Subscribe(c) \/ Unsubscribe(c)
Step(c) ==
  \/ CreateUser(c) \/ Allocate(c) \/ Load(c) \/ Open(c) \/ Write(c) \/ MakeClient(c)
  \/ StartContainer(c) \/ InstallDeps(c) \/ GetInfo(c) \/ OpenPorts(c)
  \/ Exec(c) \/ Ask(c) \/ Unfreeze(c) \/ CheckSubscription(c)

Next ==
  \/ \E c \in Cmd : Begin(c) \/ Step(c) \/ Kill(c)
  \/ \E w \in Id : Freeze(w)
  \/ Pay

\* A command that has begun goes on; calls are answered or fail.
Fairness == \A c \in Cmd : WF_vars(Step(c))

Spec == Init /\ [][Next]_vars /\ Fairness

(***************************************************************************)
(* Properties                                                              *)
(***************************************************************************)

Ends(c, r) == pc[c] # "done" /\ pc'[c] = "done" /\ result'[c] = r

\* An rx init that ran on its own and returned 0, or went as far as to fail at a port,
\* has left a config with which rx run works: it names the workspace that was
\* allocated and the address of its worker, and there the dependencies are installed
\* (trex_client.py, init).
InitIsUsable ==
  [][\A c \in calm' : kind[c] = "init" /\ (Ends(c, "0") \/ Ends(c, "PortError"))
        => file' = Named(c, Where(c)) /\ state'[c] \in {"running", "frozen"}]_vars

\* However an rx init that ran on its own ends (a step of the set-up fails, it is
\* killed there, a port is taken), the config names the workspace that was allocated
\* for it, so that rx stop finds it.  Three ways of ending leave a workspace that
\* nothing names: its name was not heard, the config that was there could not be
\* read, or the process was killed before it had written the new one
\* (client.init saves before it sets up).
LosesIt(c) ==
  \/ pc[c] = "alloc"
  \/ pc[c] = "load" /\ file.is \in {"empty", "garbled"}
  \/ pc[c] \in {"load", "open", "write"} /\ result'[c] = "killed"
NoOrphan ==
  [][\A c \in calm : kind[c] = "init" /\ pc[c] # "done" /\ pc'[c] = "done" /\ state'[c] # "none"
        => file' = Named(c, Where(c)) \/ LosesIt(c)]_vars

\* The config never pairs a workspace with the machine of another, and no port is
\* forwarded to such a pair, whatever processes race, unless an rx init overlaps an
\* rx run that restores the workspace (unfreeze writes its address into whatever
\* config it finds).
PairsMatch ==
  ~mixed => \A d \in {file, fwd} : d.is = "doc" => d.addr.of = d.ws

\* Runs that restore a workspace at the same time, and stow and restore again between
\* their answers: while the newest address that a run has ended with is where the
\* workspace is, a config that names the workspace has that address, or another run
\* was answered an older one and has ended too (unfreeze saves its answer after the
\* call, and late; nothing compares it with what is there).
LatestRestore(c) == result[c] = "restored" /\ got[c] = Where(got[c].of)
RestoredIsNamed ==
  \A c \in Cmd : LatestRestore(c) /\ ~mixed /\ file.is = "doc" /\ file.ws = got[c].of
     => \/ file.addr = got[c]
        \/ \E d \in Cmd : /\ result[d] = "restored"
                          /\ got[d].of = got[c].of /\ got[d].gen < got[c].gen

\* A process finds the config empty only while another one is between opening the
\* file and closing it, unless a process was killed there (config_base.py,
\* ReadWriteConfig.__exit__; every reader and the next rx init raise TypeError).
EmptyOnlyWhileWritten == faults = 0 /\ file.is = "empty" => \E c \in Cmd : pc[c] = "write"

\* Waiting for the payment ends (_wait_for_payment).
WaitEnds == \A c \in Cmd : pc[c] = "wait" ~> pc[c] = "done"
=============================================================================
