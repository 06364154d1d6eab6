------------------------------ MODULE Remotes ------------------------------
(***************************************************************************)
(* The environment files of a workspace: .rx/remotes/<repository>-<date>.yaml *)
(* and the link .rx/remotes/default (toolchain.py), which rx init reads to  *)
(* ask for an environment and writes with what it got (get_target_env and   *)
(* env_dict_to_pb of configuration/local.py), the local config of rx init,  *)
(* and the lines that rx ws commit and rx stop print for those files.       *)
(*                                                                         *)
(* An environment is its image's repository and whether it has environment  *)
(* variables, the one field whose name has two words.  The server, the user *)
(* who edits the files and the calendar are external.  What rx init does    *)
(* between asking and saving is in Workspace.                               *)
(***************************************************************************)
EXTENDS Naturals

CONSTANTS Cmd,        \* rx processes
          Repo,       \* repositories
          Days,       \* bound: days that pass
          MaxEdits,   \* bound: edits of the user
          MaxFaults   \* bound: processes that are killed

ASSUME RemotesAssumption ==
  /\ Days \in Nat \ {0} /\ MaxEdits \in Nat /\ MaxFaults \in Nat
  /\ "none" \notin Repo

Name    == Repo \X (1..Days)   \* <repository>-<date>.yaml
NoLink  == <<"none", 0>>
Default == <<"none", 1>>       \* the path .rx/remotes/default
Astray  == <<"none", 2>>       \* a link that leads nowhere, whatever files there are
Env == [repo : Repo \cup {"none"}, vars : BOOLEAN]
Environment == [repo |-> "none", vars |-> FALSE]
Doc == [is : {"absent", "empty", "garbled", "doc"}, env : Env, camel : BOOLEAN]

VARIABLES
  local,             \* the local config: what it is, and the remote it names
  files, default,    \* the files of .rx/remotes, and where default points
  day, edits, faults,
  cur,               \* the environment of the workspace, at the server
  printed,           \* the last lines printed by commit or stop, and their image
  kind, remote,      \* process c: its command, its --remote
  rxroot,            \* its root: the one that was found, or a relative --rxroot
  pc, result,        \* where it is, how it ended
  want, env,         \* the environment it asks for, and the one it got
  name,              \* the file it saves
  calm               \* history: processes that nothing has overlapped

disk == <<local, files, default>>
outside == <<day, edits, faults, cur, printed>>
args == <<kind, remote, rxroot>>
mine == <<want, env, name>>
vars == <<disk, outside, args, pc, result, mine, calm>>

PcState == {"new", "store", "target", "answer", "compare", "open", "write", "exists", "islink",
            "unlink", "symlink", "done"}
Results == {"none", "0", "error", "ConfigNotFoundError", "ConfigError", "TypeError",
            "FileExistsError", "FileNotFoundError", "killed"}

Raw(k) == [is |-> k, env |-> Environment, camel |-> FALSE]

\* yaml.safe_dump(json_format.MessageToDict(e)): the names of the fields in camelCase
\* (environmentVariables), or as in the .proto where they are preserved.
MessageToDict(e, preserving) == [is |-> "doc", env |-> e, camel |-> e.vars /\ ~preserving]

\* An empty document is None, and a key that is not known is not looked at.
env_dict_to_pb(d) ==
  IF d.is = "doc" THEN [repo |-> d.env.repo, vars |-> d.env.vars /\ ~d.camel] ELSE Environment

TypeOK ==
  /\ local \in [is : {"absent", "empty", "garbled", "doc"}, remote : Name \cup {Default}]
  /\ files \in [Name -> Doc] /\ default \in Name \cup {NoLink, Astray}
  /\ day \in 1..Days /\ edits \in 0..MaxEdits /\ faults \in 0..MaxFaults
  /\ cur \in Env
  /\ printed \in [from : {"nobody", "commit", "stop"}, image : Env, doc : Doc]
  /\ kind \in [Cmd -> {"init", "commit", "stop", "other"}]
  /\ remote \in [Cmd -> Name \cup {Default}]
  /\ rxroot \in [Cmd -> {"absolute", "relative"}]
  /\ pc \in [Cmd -> PcState] /\ result \in [Cmd -> Results]
  /\ want \in [Cmd -> Env] /\ env \in [Cmd -> Env]
  /\ name \in [Cmd -> Name \cup {NoLink}]
  /\ calm \in SUBSET Cmd

\* A new directory, or one with the link that an rx init has made; the user may have
\* edited the file it points to, or deleted it.
Init ==
  /\ \E d \in [is : {"absent", "doc"}, env : Env, camel : {FALSE}], r \in Repo :
       /\ files = [n \in Name |-> IF n = <<r, 1>> THEN d ELSE Raw("absent")]
       /\ default \in {NoLink, <<r, 1>>}
       /\ remote \in [Cmd -> {Default, <<r, 1>>}]
  /\ local = [is |-> IF default = NoLink THEN "absent" ELSE "doc", remote |-> Default]
  /\ day = 1 /\ edits = 0 /\ faults = 0
  /\ cur \in [repo : {"none"}, vars : BOOLEAN]   \* (its repository is not looked at)
  /\ printed = [from |-> "nobody", image |-> Environment, doc |-> Raw("absent")]
  /\ kind \in [Cmd -> {"init", "commit", "stop", "other"}]
  /\ rxroot \in [Cmd -> {"absolute", "relative"}]
  /\ \A c \in Cmd : kind[c] # "init" => remote[c] = Default /\ rxroot[c] = "absolute"
  /\ pc = [c \in Cmd |-> "new"] /\ result = [c \in Cmd |-> "none"]
  /\ want = [c \in Cmd |-> Environment] /\ env = [c \in Cmd |-> Environment]
  /\ name = [c \in Cmd |-> NoLink]
  /\ calm = {}

Active(c) == pc[c] \notin {"new", "done"}
Goto(c, label) == pc' = [pc EXCEPT ![c] = label] /\ UNCHANGED result
Return(c, r) == pc' = [pc EXCEPT ![c] = "done"] /\ result' = [result EXCEPT ![c] = r]
Overlaps(c) ==
  calm' = IF \A d \in Cmd : ~Active(d) THEN calm \cup {c} ELSE {d \in calm : ~Active(d)}

\* What a path holds; default is followed.
Followed(p) == IF p = Default THEN default ELSE p
At(p) == IF Followed(p) \in Name THEN files[Followed(p)] ELSE Raw("absent")
Exists(p) == At(p).is # "absent"

(***************************************************************************)
(* The user, the calendar and faults (external)                            *)
(***************************************************************************)

\* The user pastes the lines that were printed over the file that default names.
Paste ==
  /\ edits < MaxEdits /\ printed.from # "nobody" /\ Exists(Default)
  /\ edits' = edits + 1
  /\ files' = [files EXCEPT ![default] = printed.doc]
  /\ calm' = {c \in calm : ~Active(c)}
  /\ UNCHANGED <<local, default, day, faults, cur, printed, args, pc, result, mine>>

Delete(n) ==
  /\ edits < MaxEdits /\ files[n].is # "absent"
  /\ edits' = edits + 1
  /\ files' = [files EXCEPT ![n] = Raw("absent")]
  /\ calm' = {c \in calm : ~Active(c)}
  /\ UNCHANGED <<local, default, day, faults, cur, printed, args, pc, result, mine>>

Midnight ==
  /\ day < Days
  /\ day' = day + 1
  /\ UNCHANGED <<disk, edits, faults, cur, printed, args, pc, result, mine, calm>>

Kill(c) ==
  /\ Active(c) /\ faults < MaxFaults
  /\ faults' = faults + 1
  /\ Return(c, "killed")
  /\ UNCHANGED <<disk, day, edits, cur, printed, args, mine, calm>>

(***************************************************************************)
(* rx init: the local config                                               *)
(***************************************************************************)

\* create_local_config: without rsync it raises; otherwise store() opens the file.
\* Mutant: the file is opened before rsync is looked for.
OpenedFirst(c) ==
  /\ kind[c] = "init" /\ pc[c] = "new"
  /\ Return(c, "ConfigError") \/ Goto(c, "store")
  /\ local' = [local EXCEPT !.is = "empty"]
  /\ Overlaps(c)
  /\ UNCHANGED <<files, default, outside, args, mine>>
CreateLocalConfig(c) ==
  /\ kind[c] = "init" /\ pc[c] = "new"
  /\ \/ Return(c, "ConfigError") /\ UNCHANGED local
     \/ Goto(c, "store") /\ local' = [local EXCEPT !.is = "empty"]
  /\ Overlaps(c)
  /\ UNCHANGED <<files, default, outside, args, mine>>

\* The text is flushed.
Store(c) ==
  /\ pc[c] = "store"
  /\ \/ local' = [is |-> "doc", remote |-> remote[c]]
     \/ local.is # "empty" /\ local' = [local EXCEPT !.is = "garbled"]
  /\ Goto(c, "target")
  /\ UNCHANGED <<files, default, outside, args, mine, calm>>

\* Any other command: load_config.
LoadConfig(c) ==
  /\ kind[c] = "other" /\ pc[c] = "new"
  /\ Return(c, CASE local.is = "absent" -> "ConfigNotFoundError"
                 [] local.is = "empty" -> "TypeError"
                 [] local.is = "garbled" -> "ConfigError"
                 [] OTHER -> "0")
  /\ Overlaps(c)
  /\ UNCHANGED <<disk, outside, args, mine>>

(***************************************************************************)
(* rx init: the environment                                                *)
(***************************************************************************)

\* get_target_env: a missing file and an empty one ask for nothing.
GetTargetEnv(c) ==
  /\ pc[c] = "target"
  /\ \/ At(remote[c]).is = "garbled" /\ Return(c, "error") /\ UNCHANGED want
     \/ /\ At(remote[c]).is # "garbled"
        /\ want' = [want EXCEPT ![c] = env_dict_to_pb(At(remote[c]))]
        /\ Goto(c, "answer")
  /\ UNCHANGED <<disk, outside, args, env, name, calm>>

\* The server keeps what was asked for and fills in the rest.
Answers(asked, e) ==
  /\ e.repo # "none" /\ (asked.repo # "none" => e.repo = asked.repo)
  /\ asked.vars => e.vars
Answer(c) ==
  /\ pc[c] = "answer"
  /\ \/ \E e \in Env : /\ Answers(want[c], e)
                       /\ env' = [env EXCEPT ![c] = e] /\ cur' = e
                       /\ Goto(c, "compare")
     \/ Return(c, "error") /\ UNCHANGED <<env, cur>>
  /\ UNCHANGED <<disk, day, edits, faults, printed, args, want, name, calm>>

\* save_config: the file is read again; nothing is saved when it is what we got.
Compare(c) ==
  /\ pc[c] = "compare"
  /\ LET starting == At(remote[c]) IN
     \/ starting.is = "garbled" /\ Return(c, "ConfigError") /\ UNCHANGED name
     \/ /\ starting.is # "garbled" /\ env_dict_to_pb(starting) = env[c]
        /\ Return(c, "0") /\ UNCHANGED name
     \/ /\ starting.is # "garbled" /\ env_dict_to_pb(starting) # env[c]
        /\ name' = [name EXCEPT ![c] = <<env[c].repo, day>>]
        /\ Goto(c, "open")
  /\ UNCHANGED <<disk, outside, args, want, env, calm>>

\* _write_config: the file is truncated,
Open(c) ==
  /\ pc[c] = "open"
  /\ files' = [files EXCEPT ![name[c]] = Raw("empty")]
  /\ Goto(c, "write")
  /\ UNCHANGED <<local, default, outside, args, mine, calm>>

\* and written.  Mutant: the names of the fields are not preserved.
SavedCamel(c) == MessageToDict(env[c], FALSE)
Saved(c) == MessageToDict(env[c], TRUE)
Write(c) ==
  /\ pc[c] = "write"
  /\ \/ files' = [files EXCEPT ![name[c]] = Saved(c)]
     \/ files[name[c]].is # "empty" /\ files' = [files EXCEPT ![name[c]] = Raw("garbled")]
  /\ Goto(c, "exists")
  /\ UNCHANGED <<local, default, outside, args, mine, calm>>

\* default_config.exists() follows the link, is_symlink() does not.
\* Mutants: the link is replaced whatever it points to; a link that leads nowhere is
\* taken for a file.
ExistsLink(c) ==
  /\ pc[c] = "exists"
  /\ IF default # NoLink THEN Return(c, "0") ELSE Goto(c, "islink")
  /\ UNCHANGED <<disk, outside, args, mine, calm>>
ExistsNever(c) ==
  /\ pc[c] = "exists"
  /\ Goto(c, "islink")
  /\ UNCHANGED <<disk, outside, args, mine, calm>>
ExistsDefault(c) ==
  /\ pc[c] = "exists"
  /\ IF Exists(Default) THEN Return(c, "0") ELSE Goto(c, "islink")
  /\ UNCHANGED <<disk, outside, args, mine, calm>>
IsSymlink(c) ==
  /\ pc[c] = "islink"
  /\ Goto(c, IF default = NoLink THEN "symlink" ELSE "unlink")
  /\ UNCHANGED <<disk, outside, args, mine, calm>>
\* Mutant: after a link was removed none is made.
UnlinkOnly(c) ==
  /\ pc[c] = "unlink"
  /\ Return(c, IF default = NoLink THEN "FileNotFoundError" ELSE "0")
  /\ default' = NoLink
  /\ UNCHANGED <<local, files, outside, args, mine, calm>>
Unlink(c) ==
  /\ pc[c] = "unlink"
  /\ IF default = NoLink THEN Return(c, "FileNotFoundError") ELSE Goto(c, "symlink")
  /\ default' = NoLink
  /\ UNCHANGED <<local, files, outside, args, mine, calm>>

\* The target is the path of the file as the process names it.  That of a root that
\* was found is absolute; a relative --rxroot makes a path that was meant from the
\* working directory and is followed from .rx/remotes, where it leads nowhere (but for
\* a process that runs two levels below the root, whose ../.. happens to fit: it is
\* like an absolute one).
Target(c) == IF rxroot[c] = "relative" THEN Astray ELSE name[c]
SymlinkTo(c) ==
  /\ pc[c] = "symlink"
  /\ \/ default = NoLink /\ default' = Target(c) /\ Return(c, "0")
     \/ default # NoLink /\ Return(c, "FileExistsError") /\ UNCHANGED default
  /\ UNCHANGED <<local, files, outside, args, mine, calm>>

(***************************************************************************)
(* rx ws commit and rx stop                                                *)
(***************************************************************************)

\* The image that was stored has the variables of the workspace; stop prints an empty
\* one where the server has stored none.  commit preserves the names of the fields,
\* stop does not.  Mutant: neither does.
PrintsCamel(k, image) == MessageToDict(image, FALSE)
Prints(k, image) == MessageToDict(image, k = "commit")
PrintImage(c) ==
  /\ kind[c] \in {"commit", "stop"} /\ pc[c] = "new"
  /\ \/ \E image \in Env :
          /\ \/ image.repo \in Repo /\ image.vars = cur.vars
             \/ kind[c] = "stop" /\ image = Environment
          /\ printed' = [from |-> kind[c], image |-> image, doc |-> Prints(kind[c], image)]
          /\ Return(c, "0")
     \/ Return(c, "error") /\ UNCHANGED printed
  /\ Overlaps(c)
  /\ UNCHANGED <<disk, day, edits, faults, cur, args, mine>>

Step(c) ==
  \/ CreateLocalConfig(c) \/ Store(c) \/ LoadConfig(c) \/ GetTargetEnv(c) \/ Answer(c)
  \/ Compare(c) \/ Open(c) \/ Write(c) \/ ExistsDefault(c) \/ IsSymlink(c) \/ Unlink(c)
  \/ SymlinkTo(c) \/ PrintImage(c)
User == Paste \/ \E n \in Name : Delete(n)
Next == (\E c \in Cmd : Step(c) \/ Kill(c)) \/ User \/ Midnight

Spec == Init /\ [][Next]_vars

(***************************************************************************)
(* Properties                                                              *)
(***************************************************************************)

Ends(c, r) == pc[c] # "done" /\ pc'[c] = "done" /\ result'[c] = r

\* An rx init on its own that returns 0 leaves a default that can be read, also where
\* it was a link to a file that is gone, and without --remote the default asks for
\* what the workspace has: it is what was written, or what was read and the server
\* has answered to.  Only a process that was killed while it rewrote the file leaves
\* an empty one, which is then read as no wish at all and stays (_write_config).  The
\* code breaks this with a relative --rxroot: where no default could be read, the link
\* that it makes leads nowhere.
DefaultAsksForIt ==
  [][\A c \in calm : kind[c] = "init" /\ Ends(c, "0") /\ remote[c] = Default =>
        \/ /\ At(Default)'.is = "doc" \/ (faults > 0 /\ At(Default)'.is = "empty")
           /\ Answers(env_dict_to_pb(At(Default)'), env[c])
        \/ rxroot[c] = "relative" /\ ~Exists(Default) /\ default' = Astray]_vars

\* What rx init has saved is what it got: the next rx init with that file asks for the
\* same environment, and saves nothing when it gets it (save_config).
SavedIsGot ==
  \A c \in calm : pc[c] \in {"exists", "islink", "unlink", "symlink"} =>
      env_dict_to_pb(files[name[c]]) = env[c]

\* An rx init on its own does not move a default that can be followed, and makes it
\* point at a file that is written, or nowhere where --rxroot is relative
\* (toolchain.py: the link is made last).
LinkIsSafe ==
  [][\A c \in calm : Active(c) /\ default' # default =>
        /\ ~Exists(Default)
        /\ \/ default' = NoLink \/ At(Default)'.is = "doc"
           \/ rxroot[c] = "relative" /\ default' = Astray]_vars

\* However many processes replace the default at once (one may remove the link that
\* another has just made, and either may fail): once one of them has saved a file and
\* returned 0 there is a default, but while another is between removing it and making
\* its own, or was killed there.
SavedBy(c) == result[c] = "0" /\ name[c] # NoLink
DefaultStays ==
  default = NoLink /\ (\E c \in Cmd : SavedBy(c)) =>
     \E d \in Cmd : kind[d] = "init" /\ (pc[d] = "symlink" \/ result[d] = "killed")

\* However many rx init run and fail, the local config is empty, and every other
\* command ends with a TypeError, only while one of them writes it, or when one was
\* killed (create_local_config: all that may fail comes before store opens the file).
LocalKept ==
  local.is = "empty" =>
     \E c \in Cmd : kind[c] = "init" /\ (pc[c] = "store" \/ result[c] = "killed")

\* "use the following lines in your config": an rx init that reads the lines that a
\* command has printed asks for the image that it printed them for.
LinesWork(k, c) ==
  pc[c] = "target" /\ pc'[c] = "answer" /\ printed.from = k /\ At(remote[c]) = printed.doc
    => want'[c] = printed.image

\* commit.py, and commit of trex_client.py, which preserves the names.
CommitLinesWork == [][\A c \in Cmd : LinesWork("commit", c)]_vars

(***************************************************************************)
(* What a message of the code claims, and the code does not do              *)
(***************************************************************************)

\* stop.py prints the same words: "If you'd like to initialize a new workspace with
\* this state, use the following lines in your config".
StopLinesWork == [][\A c \in Cmd : LinesWork("stop", c)]_vars
=============================================================================
