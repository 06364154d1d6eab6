----------------------------- MODULE RemoteRun -----------------------------
(***************************************************************************)
(* "rx <command>": the run command (rx/client/commands/runner.py), exec and *)
(* maybe_kill of rx/client/worker_client.py, the rsync client, the output   *)
(* handler and the executor, and get_info and unfreeze of trex_client.py.   *)
(* Several invocations share one local directory and one workspace; each    *)
(* copies the directory to the worker, runs a program there and copies the  *)
(* workspace back, one file at a time, both ways with --delete.             *)
(*                                                                         *)
(* The user, the worker and the scheduler (trex) are external.  A file is   *)
(* "absent" or has some content: what was there first, an edit of the user  *)
(* or what the program of invocation c wrote (c itself).                    *)
(***************************************************************************)
EXTENDS Naturals

CONSTANTS Cmd,        \* rx invocations
          File,       \* files that .rxignore does not exclude
          Edits,      \* bound: edits of the user, each a content of its own
          Quiet,      \* the user edits only while no invocation is active
          MaxFreezes  \* bound: times the scheduler stows the workspace

Content == {"absent", "first"} \cup Edits \cup Cmd

ASSUME RunAssumption ==
  /\ Quiet \in BOOLEAN /\ MaxFreezes \in Nat
  /\ {"absent", "first"} \cap (Edits \cup Cmd) = {} /\ Edits \cap Cmd = {}

VARIABLES
  sync,                \* should_sync of the local config
  here, there,         \* the files of the local directory, and of the workspace
  todo,                \* edits the user has yet to make
  pc, result,          \* where invocation c is, and what _run returned or raised
  at,                  \* worker_addr, read when the client was made
  list, left, bad,     \* rsync: source file list, names left, exit code not 0
  known,               \* execution_id has arrived
  addr,                \* worker_addr in the remote config file
  host, state,         \* where the workspace is; "running" or "frozen"
  answer,              \* worker_addr that Unfreeze answered
  alive, wrote,        \* programs that run on the worker; files each has changed
  freezes,             \* times the workspace was stowed
  dirty, fresh, calm   \* history, see below

disk   == <<here, there, todo, dirty, fresh>>
call   == <<known, alive, wrote>>
rsync  == <<list, left, bad>>
place  == <<addr, host, state, freezes>>
vars   == <<sync, disk, pc, result, at, rsync, call, place, answer, calm>>

PcState == {"new", "push", "exec", "running", "pull", "ask", "unfreeze", "save", "done"}
Exceptions == {"RpcError", "TypeError", "WorkspaceRelocationError"}
Results == Exceptions \cup
  {"none", "exit", "-1", "not_reachable", "sigint", "subscribe", "code", "restored",
   "unreachable", "trex_error", "KeyboardInterrupt"}

\* dirty: files that the user has changed and that no rsync to the worker has
\* read since.  fresh[c]: files that the program of c has changed, and that since
\* then nothing has changed in the workspace, nor the user in the local directory,
\* nor has another invocation's copy back removed one that c had copied back.
\* calm: invocations no other has overlapped.
TypeOK ==
  /\ sync \in BOOLEAN
  /\ here \in [File -> Content] /\ there \in [File -> Content]
  /\ todo \in SUBSET Edits
  /\ pc \in [Cmd -> PcState] /\ result \in [Cmd -> Results]
  /\ at \in [Cmd -> 0..MaxFreezes] /\ answer \in [Cmd -> 0..MaxFreezes]
  /\ list \in [Cmd -> SUBSET File] /\ left \in [Cmd -> SUBSET File]
  /\ bad \in [Cmd -> BOOLEAN]
  /\ known \in [Cmd -> BOOLEAN]
  /\ addr \in 0..MaxFreezes /\ host \in 0..MaxFreezes
  /\ state \in {"running", "frozen"} /\ freezes \in 0..MaxFreezes
  /\ alive \in SUBSET Cmd /\ wrote \in [Cmd -> SUBSET File]
  /\ dirty \in SUBSET File /\ fresh \in [Cmd -> SUBSET File] /\ calm \in SUBSET Cmd

\* After rx init: the workspace is where the config says, and in sync.
Init ==
  /\ sync \in BOOLEAN
  /\ here \in [File -> {"absent", "first"}] /\ there = here
  /\ todo = Edits
  /\ pc = [c \in Cmd |-> "new"] /\ result = [c \in Cmd |-> "none"]
  /\ at = [c \in Cmd |-> 0] /\ answer = [c \in Cmd |-> 0]
  /\ list = [c \in Cmd |-> {}] /\ left = [c \in Cmd |-> {}]
  /\ bad = [c \in Cmd |-> FALSE]
  /\ known = [c \in Cmd |-> FALSE]
  /\ addr = 0 /\ host = 0 /\ state = "running" /\ freezes = 0
  /\ alive = {} /\ wrote = [c \in Cmd |-> {}]
  /\ dirty = {} /\ fresh = [c \in Cmd |-> {}] /\ calm = {}

Active(c) == pc[c] \notin {"new", "done"}
Goto(c, label) == pc' = [pc EXCEPT ![c] = label] /\ UNCHANGED result
Return(c, r) == pc' = [pc EXCEPT ![c] = "done"] /\ result' = [result EXCEPT ![c] = r]

\* The worker at the address that c has read runs the workspace.
Reachable(c) == state = "running" /\ at[c] = host

(***************************************************************************)
(* The user, the worker and the scheduler (external)                       *)
(***************************************************************************)

\* The user writes or removes a file.
Edit(f) ==
  /\ Quiet => \A c \in Cmd : ~Active(c)
  /\ \E e \in todo :
       /\ todo' = todo \ {e}
       /\ \E v \in {e, "absent"} : v # here[f] /\ here' = [here EXCEPT ![f] = v]
  /\ dirty' = dirty \cup {f}
  /\ fresh' = [c \in Cmd |-> fresh[c] \ {f}]
  /\ UNCHANGED <<sync, there, pc, result, at, rsync, call, place, answer, calm>>

\* The program of c changes files of the workspace, once.
Program(c) ==
  /\ c \in alive /\ wrote[c] = {}
  /\ \E W \in SUBSET File \ {{}} :
     \E v \in {c, "absent"} :
       /\ \A f \in W : there[f] # v
       /\ there' = [f \in File |-> IF f \in W THEN v ELSE there[f]]
       /\ wrote' = [wrote EXCEPT ![c] = W]
       /\ fresh' = [d \in Cmd |-> IF d = c THEN W ELSE fresh[d] \ W]
  /\ UNCHANGED <<sync, here, todo, dirty, pc, result, at, rsync, known, alive,
                 place, answer, calm>>

\* A program that nobody waits for ends.
Abandoned(c) ==
  /\ c \in alive /\ pc[c] = "done"
  /\ alive' = alive \ {c}
  /\ UNCHANGED <<sync, disk, pc, result, at, rsync, known, wrote, place, answer, calm>>

\* The scheduler stows the workspace while nothing runs in it.
Freeze ==
  /\ state = "running" /\ alive = {} /\ freezes < MaxFreezes
  /\ state' = "frozen"
  /\ freezes' = freezes + 1
  /\ UNCHANGED <<sync, disk, pc, result, at, rsync, call, addr, host, answer, calm>>

(***************************************************************************)
(* RsyncClient                                                             *)
(***************************************************************************)

Names(dir) == {f \in File : dir[f] # "absent"}

\* c begins to copy src: rsync makes its file list.
Listing(c, src) ==
  /\ list' = [list EXCEPT ![c] = Names(src)]
  /\ left' = [left EXCEPT ![c] = File]
  /\ bad' = [bad EXCEPT ![c] = FALSE]

\* One file of the list is copied from src to dst; a name that is not in the
\* list is removed from dst (--delete).  A listed file that has vanished is
\* skipped, and makes rsync exit with 24.
\* Mutant: without --delete.
TransferNoDelete(c, f, src, dst) ==
  IF f \notin list[c] \/ src[f] = "absent" THEN dst[f] ELSE src[f]
Transfer(c, f, src, dst) ==
  IF f \notin list[c] THEN "absent" ELSE IF src[f] = "absent" THEN dst[f] ELSE src[f]
Vanished(c, f, src) == f \in list[c] /\ src[f] = "absent"
Missed(c, f, src) == f \notin list[c] /\ src[f] # "absent"
Copied(c, f, src) ==
  /\ left' = [left EXCEPT ![c] = @ \ {f}]
  /\ bad' = [bad EXCEPT ![c] = @ \/ Vanished(c, f, src)]
  /\ UNCHANGED list
Read(c, f, src) == IF Vanished(c, f, src) \/ Missed(c, f, src) THEN {} ELSE {f}

(***************************************************************************)
(* Client.exec                                                             *)
(***************************************************************************)

\* The client is made from the remote config, and to_remote begins.
Start(c) ==
  /\ pc[c] = "new"
  /\ at' = [at EXCEPT ![c] = addr]
  /\ calm' = IF alive = {} /\ \A d \in Cmd : ~Active(d) THEN calm \cup {c}
             ELSE {d \in calm : ~Active(d)}
  /\ IF sync THEN Goto(c, "push") /\ Listing(c, here)
             ELSE Goto(c, "exec") /\ UNCHANGED rsync
  /\ UNCHANGED <<sync, disk, call, place, answer>>

PushFile(c, f) ==
  /\ pc[c] = "push" /\ f \in left[c] /\ Reachable(c)
  /\ there' = [there EXCEPT ![f] = Transfer(c, f, here, there)]
  /\ Copied(c, f, here)
  /\ dirty' = dirty \ Read(c, f, here)
  /\ fresh' = IF there'[f] = there[f] THEN fresh ELSE [d \in Cmd |-> fresh[d] \ {f}]
  /\ UNCHANGED <<sync, here, todo, pc, result, at, call, place, answer, calm>>

\* Mutant: the exit code of to_remote is not looked at.
PushEndUnchecked(c) ==
  /\ pc[c] = "push"
  /\ Goto(c, "exec")
  /\ UNCHANGED <<sync, disk, at, rsync, call, place, answer, calm>>

\* to_remote ends.  It failed if a file vanished, or if the worker could not be
\* reached or anything else stopped it on the way: RsyncError, which _try_exec
\* takes to the scheduler.
PushEnd(c) ==
  /\ pc[c] = "push"
  /\ \/ left[c] = {} /\ ~bad[c] /\ Goto(c, "exec")
     \/ (left[c] # {} \/ bad[c]) /\ Goto(c, "ask")
  /\ UNCHANGED <<sync, disk, at, rsync, call, place, answer, calm>>

\* Executor.run: the Exec call starts the program.
Exec(c) ==
  /\ pc[c] = "exec" /\ Reachable(c)
  /\ alive' = alive \cup {c}
  /\ Goto(c, "running")
  /\ UNCHANGED <<sync, disk, at, rsync, known, wrote, place, answer, calm>>

\* Or it is refused: RpcError, MOVED or EAGAIN (an exception that nobody
\* catches), SUBSCRIPTION_REQUIRED, or another code.
ExecRefused(c) ==
  /\ pc[c] = "exec"
  /\ \/ Return(c, "not_reachable")
     \/ Reachable(c) /\ \E r \in {"subscribe", "code"} : Return(c, r)
     \/ ~Reachable(c) /\ Return(c, "WorkspaceRelocationError")
  /\ UNCHANGED <<sync, disk, at, rsync, call, place, answer, calm>>

\* A response with the execution_id.
ExecId(c) ==
  /\ pc[c] = "running" /\ ~known[c]
  /\ known' = [known EXCEPT ![c] = TRUE]
  /\ UNCHANGED <<sync, disk, pc, result, at, rsync, alive, wrote, place, answer, calm>>

\* Mutant: the removal of a file is no output.
NothingWritten(c) == wrote[c] \cap Names(there) = {}
\* write_outputs returns early when the responses named no output files.
Unchanged(c) == wrote[c] = {}

\* The program ends: the last response names the files it has changed, and
\* write_outputs copies the workspace back if there are any.
Exit(c) ==
  /\ pc[c] = "running" /\ c \in alive
  /\ alive' = alive \ {c}
  /\ IF sync /\ ~Unchanged(c) THEN Goto(c, "pull") /\ Listing(c, there)
                              ELSE Return(c, "exit") /\ UNCHANGED rsync
  /\ UNCHANGED <<sync, disk, at, known, wrote, place, answer, calm>>

\* The program ends and the last response holds an error code.
ExitError(c) ==
  /\ pc[c] = "running" /\ c \in alive
  /\ alive' = alive \ {c}
  /\ \E r \in {"code", "WorkspaceRelocationError"} : Return(c, r)
  /\ UNCHANGED <<sync, disk, at, rsync, known, wrote, place, answer, calm>>

\* The connection to the worker is lost while the program runs, or the call raises
\* RuntimeError.  (The one RuntimeError that is taken for a Ctrl-C does what
\* Interrupt does.)
ExecLost(c) ==
  /\ pc[c] = "running"
  /\ \E r \in {"not_reachable", "-1"} : Return(c, r)
  /\ UNCHANGED <<sync, disk, at, rsync, call, place, answer, calm>>

\* The copy back of c, whose list does not name f, removes f where d has put it.
Removes(c, f, d) ==
  d # c /\ Missed(c, f, there) /\ pc[d] = "pull" /\ f \notin left[d]

PullFile(c, f) ==
  /\ pc[c] = "pull" /\ f \in left[c] /\ Reachable(c)
  /\ here' = [here EXCEPT ![f] = Transfer(c, f, there, here)]
  /\ Copied(c, f, there)
  /\ fresh' = [d \in Cmd |-> IF Removes(c, f, d) THEN fresh[d] \ {f} ELSE fresh[d]]
  /\ UNCHANGED <<sync, there, todo, dirty, pc, result, at, call, place, answer, calm>>

\* from_remote ends, or fails on the way: write_outputs does not look.
PullEnd(c) ==
  /\ pc[c] = "pull"
  /\ bad' = [bad EXCEPT ![c] = @ \/ left[c] # {}]
  /\ Return(c, "exit")
  /\ UNCHANGED <<sync, disk, at, list, left, call, place, answer, calm>>

\* Ctrl-C.  During the call, maybe_kill kills the program if its id has arrived
\* (and the Kill call may fail).  During an rsync, _try_exec calls maybe_kill
\* without its argument.  Later, KeyboardInterrupt reaches main.
Interrupt(c) ==
  /\ \/ /\ pc[c] = "running" /\ known[c]
        /\ \/ alive' = alive \ {c} /\ Return(c, "sigint")
           \/ alive' = alive /\ Return(c, "RpcError")
     \/ /\ alive' = alive
        /\ \/ (pc[c] = "exec" \/ (pc[c] = "running" /\ ~known[c])) /\ Return(c, "sigint")
           \/ pc[c] \in {"push", "pull"} /\ Return(c, "TypeError")
           \/ pc[c] \in {"ask", "unfreeze", "save"} /\ Return(c, "KeyboardInterrupt")
  /\ UNCHANGED <<sync, disk, at, rsync, known, wrote, place, answer, calm>>

(***************************************************************************)
(* RunCommand.maybe_unfreeze                                               *)
(***************************************************************************)

\* get_info: an error, or the state of the workspace.
Ask(c) ==
  /\ pc[c] = "ask"
  /\ \/ Return(c, "trex_error")
     \/ state = "frozen" /\ Goto(c, "unfreeze")
     \/ state # "frozen" /\ Return(c, "unreachable")
  /\ UNCHANGED <<sync, disk, at, rsync, call, place, answer, calm>>

\* unfreeze: the scheduler sets the workspace up on another machine and streams
\* its address, which may get lost; or the call fails, or answers an error.
Unfreeze(c) ==
  /\ pc[c] = "unfreeze"
  /\ \/ /\ host' = IF state = "frozen" THEN host + 1 ELSE host
        /\ state' = "running"
        /\ \/ answer' = [answer EXCEPT ![c] = host'] /\ Goto(c, "save")
           \/ UNCHANGED answer /\ Return(c, "RpcError")
     \/ /\ \E r \in {"code", "RpcError"} : Return(c, r)
        /\ UNCHANGED <<host, state, answer>>
  /\ UNCHANGED <<sync, disk, at, rsync, call, addr, freezes, calm>>

\* The address is put into the remote config, and the user told to run the
\* command again.  Mutant: it is not.
SaveNothing(c) ==
  /\ pc[c] = "save"
  /\ Return(c, "restored")
  /\ UNCHANGED <<sync, disk, at, rsync, call, place, answer, calm>>
Save(c) ==
  /\ pc[c] = "save"
  /\ addr' = answer[c]
  /\ Return(c, "restored")
  /\ UNCHANGED <<sync, disk, at, rsync, call, host, state, freezes, answer, calm>>

CmdStep(c) ==
  \/ Start(c) \/ PushEnd(c) \/ Exec(c) \/ ExecRefused(c) \/ ExecId(c) \/ Exit(c) \/ ExitError(c)
  \/ ExecLost(c) \/ PullEnd(c) \/ Interrupt(c) \/ Ask(c) \/ Unfreeze(c) \/ Save(c)
  \/ \E f \in File : PushFile(c, f) \/ PullFile(c, f)

Next ==
  \/ \E c \in Cmd : CmdStep(c) \/ Program(c) \/ Abandoned(c)
  \/ \E f \in File : Edit(f)
  \/ Freeze

Spec == Init /\ [][Next]_vars

(***************************************************************************)
(* Properties                                                              *)
(***************************************************************************)

\* Only the user changes a file that is dirty.
EditsKept == \A f \in dirty : here'[f] # here[f] => todo' # todo

\* An edit that the user makes between invocations is never lost: no rsync from
\* the worker, of this or of another invocation, writes over a file before an
\* rsync to the worker has read it, although either may fail or be interrupted
\* at any file and invocations overlap (worker_client.py, exec: to_remote is
\* first, and its failure ends the command).
NoLostEdit == [][EditsKept]_vars

\* A calm invocation starts its program, or ends with the exit code after an rsync
\* that did not fail, only while both directories hold the same files.
SameFiles ==
  \A c \in calm :
    \/ sync /\ pc[c] = "exec" /\ pc'[c] = "running"
    \/ sync /\ pc[c] # "done" /\ pc'[c] = "done" /\ result'[c] = "exit" /\ ~bad'[c]
    => there = here

\* Nobody else ran anything while c ran: its program starts on the files that
\* are in the local directory (README.md: "it automatically syncs local changes
\* to your cloud instance"), and when it returns the exit code of the program, and
\* rsync did not fail, the local directory is what the program has left ("syncs
\* outputs back to your local machine").
RunsInSync == [][SameFiles]_vars

\* Where an invocation ends with the exit code, and its rsync did not fail, the
\* local directory has what its program changed.
OutputsBack ==
  \A c \in Cmd : sync /\ pc[c] # "done" /\ pc'[c] = "done" /\ result'[c] = "exit" /\ ~bad'[c]
                 => \A f \in fresh[c] : here[f] = there[f]

\* However invocations overlap, what a program wrote or removed is so in the local
\* directory when its own invocation returns its exit code, if rsync did not fail
\* and no other invocation has changed the file in the workspace since, or has
\* removed it again from the local directory: --delete with a file list that was
\* made before the program wrote the file (output_handler.py, write_outputs: the
\* whole workspace is copied, after the last response).
OutputsComeBack == [][OutputsBack]_vars

\* A calm invocation that restored the workspace leaves the address of its machine.
AddressFound ==
  \A c \in calm : pc[c] = "save" /\ pc'[c] = "done" /\ result'[c] = "restored" => addr' = host

\* When it has restored a stowed workspace, the remote config names the machine
\* where the workspace is now (trex_client.py, unfreeze).
RestoredIsFound == [][AddressFound]_vars

(***************************************************************************)
(* What a comment of the code claims, and the code does not do              *)
(***************************************************************************)

\* worker_client.py, maybe_kill: "Kill the process, if it exists."
InterruptKills == \A c \in Cmd : result[c] = "sigint" => c \notin alive
=============================================================================
