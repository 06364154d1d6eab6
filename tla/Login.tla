------------------------------- MODULE Login -------------------------------
(***************************************************************************)
(* Logging in (rx/client/login.py, with browser.py and the config files of  *)
(* configuration/config_base.py).  Every rx process of a workspace, the     *)
(* daemon too, makes a LoginManager: it reads access-token.yaml, or runs    *)
(* the browser login with a local HTTP server on a thread of its own, and   *)
(* from then on refreshes the token when it has expired.  The processes     *)
(* share the two token files and hold no lock.                              *)
(*                                                                         *)
(* A token is the grant it belongs to (the process that ran the browser     *)
(* login), the time it was issued, and whether the answer it came in had a  *)
(* refresh_token.  A step is one access to a file, to Google, or to a field *)
(* that the server thread shares.                                           *)
(***************************************************************************)
EXTENDS Naturals

CONSTANTS Cmd,       \* rx processes
          MaxTime,   \* bound: a token expires when the clock ticks
          MaxFaults  \* bound: processes that are killed or interrupted

ASSUME LoginAssumption == MaxTime \in Nat /\ MaxFaults \in Nat /\ "nobody" \notin Cmd

Name == {"access", "refresh"}

VARIABLES
  file,         \* file[n]: what is in the token file n
  pc, result,   \* where process c is, and how login or validate_login ended
  mem,          \* _access_token of c; "absent" is the empty config
  using,        \* grant of the refresh token that c has read
  linked,       \* the file that c writes still has its name
  srv, url, code,   \* the server thread of c; the URL has its port; the code is set
  now, faults,
  calm          \* history: processes no other has overlapped

files  == <<file, linked>>
thread == <<srv, url, code>>
vars   == <<files, pc, result, mem, using, thread, now, faults, calm>>

Doc == [is : {"absent", "empty", "garbled", "token"}, grant : Cmd \cup {"nobody"},
        born : 0..MaxTime, offline : BOOLEAN]
Nothing(k) == [is |-> k, grant |-> "nobody", born |-> 0, offline |-> FALSE]

PcState == {"new", "load", "serve", "await", "browser", "failed", "code", "shutdown",
            "exchange", "open-access", "write-access", "open-refresh", "write-refresh",
            "validate", "refresh", "reload", "post", "find-refresh", "unlink-refresh",
            "find-access", "unlink-access", "ready", "done"}
Errors == {"FileNotFoundError", "TypeError", "YAMLError", "KeyError", "DecodeError",
           "RuntimeError", "ConnectionError", "AuthError", "AuthErrorAgain"}
Results == Errors \cup {"none", "ok", "interrupted", "killed"}

TypeOK ==
  /\ file \in [Name -> Doc] /\ mem \in [Cmd -> Doc]
  /\ pc \in [Cmd -> PcState] /\ result \in [Cmd -> Results]
  /\ using \in [Cmd -> Cmd \cup {"nobody"}] /\ linked \in [Cmd -> BOOLEAN]
  /\ srv \in [Cmd -> {"none", "boot", "made", "named", "serving", "down"}]
  /\ url \in [Cmd -> BOOLEAN] /\ code \in [Cmd -> BOOLEAN]
  /\ now \in 0..MaxTime /\ faults \in 0..MaxFaults /\ calm \in SUBSET Cmd

Init ==
  /\ file = [n \in Name |-> Nothing("absent")] /\ mem = [c \in Cmd |-> Nothing("absent")]
  /\ pc = [c \in Cmd |-> "new"] /\ result = [c \in Cmd |-> "none"]
  /\ using = [c \in Cmd |-> "nobody"] /\ linked = [c \in Cmd |-> FALSE]
  /\ srv = [c \in Cmd |-> "none"]
  /\ url = [c \in Cmd |-> FALSE] /\ code = [c \in Cmd |-> FALSE]
  /\ now = 0 /\ faults = 0 /\ calm = {}

Active(c) == pc[c] \notin {"new", "done"}
Goto(c, label) == pc' = [pc EXCEPT ![c] = label] /\ UNCHANGED result
Raise(c, e) == pc' = [pc EXCEPT ![c] = "done"] /\ result' = [result EXCEPT ![c] = e]

\* What Google answers, to c, about grant g (external).
Token(g, off) == [is |-> "token", grant |-> g, born |-> now, offline |-> off]

(***************************************************************************)
(* The token files                                                         *)
(***************************************************************************)

\* Process c has file n open for writing.
Writes(c, n) == \/ n = "access" /\ pc[c] = "write-access"
                \/ n = "refresh" /\ pc[c] = "write-refresh"

\* open(mode='wt') truncates; other processes see an empty file.
Truncate(c, n, label) ==
  /\ file' = [file EXCEPT ![n] = Nothing("empty")]
  /\ linked' = [linked EXCEPT ![c] = TRUE]
  /\ Goto(c, label)
  /\ UNCHANGED <<mem, using, thread, now, faults, calm>>

\* Closing it flushes the token.  Over what another process has flushed since
\* the two opened the file, a shorter text leaves the rest of a longer one.
Flush(c, n, label) ==
  /\ \/ /\ linked[c]
        /\ \/ file' = [file EXCEPT ![n] = mem[c]]
           \/ /\ file[n].is # "empty"
              /\ file' = [file EXCEPT ![n] = Nothing("garbled")]
     \/ ~linked[c] /\ UNCHANGED file
  /\ linked' = [linked EXCEPT ![c] = FALSE]
  /\ Goto(c, label)
  /\ UNCHANGED <<mem, using, thread, now, faults, calm>>

(***************************************************************************)
(* LoginManager() and login()                                              *)
(***************************************************************************)

\* ReadOnlyConfig: the access token file exists, or the config is empty and
\* login starts the server and the browser.
Begin(c) ==
  /\ pc[c] = "new"
  /\ calm' = IF \A d \in Cmd : ~Active(d) THEN calm \cup {c} ELSE {d \in calm : ~Active(d)}
  /\ Goto(c, IF file["access"].is = "absent" THEN "serve" ELSE "load")
  /\ UNCHANGED <<files, mem, using, thread, now, faults>>

\* It is opened and read.  An empty file is the YAML document None, which has
\* no length.
Load(c) ==
  /\ pc[c] = "load"
  /\ LET is == file["access"].is IN
     \/ is = "absent" /\ Raise(c, "FileNotFoundError") /\ UNCHANGED mem
     \/ is = "empty" /\ Raise(c, "TypeError") /\ UNCHANGED mem
     \/ is = "garbled" /\ Raise(c, "YAMLError") /\ UNCHANGED mem
     \/ /\ is \in {"token", "garbled"}
        /\ Goto(c, "validate")
        /\ mem' = [mem EXCEPT ![c] = file["access"]]
  /\ UNCHANGED <<files, using, thread, now, faults, calm>>

StartServer(c) ==
  /\ pc[c] = "serve"
  /\ srv' = [srv EXCEPT ![c] = "boot"]
  /\ Goto(c, "await")
  /\ UNCHANGED <<files, mem, using, url, code, now, faults, calm>>

\* _start_local_server: _server is assigned, then _port, then it serves until
\* shutdown is called.
ServerStep(c) ==
  /\ \/ srv[c] = "boot" /\ srv' = [srv EXCEPT ![c] = "made"]
     \/ srv[c] = "made" /\ srv' = [srv EXCEPT ![c] = "named"]
     \/ srv[c] = "named" /\ srv' = [srv EXCEPT ![c] = "serving"]
     \/ /\ srv[c] = "serving" /\ pc[c] \in {"failed", "shutdown"}
        /\ srv' = [srv EXCEPT ![c] = "down"]
  /\ UNCHANGED <<files, pc, result, mem, using, url, code, now, faults, calm>>

\* open_browser waits for _server, and makes the URL from _port.
CreateLoginUrl(c) ==
  /\ pc[c] = "await" /\ srv[c] \notin {"none", "boot"}
  /\ url' = [url EXCEPT ![c] = srv[c] # "made"]
  /\ Goto(c, "browser")
  /\ UNCHANGED <<files, mem, using, srv, code, now, faults, calm>>

\* The browser opens; or there is none, and the server is shut down; or the
\* system is not supported.
OpenBrowser(c) ==
  /\ pc[c] = "browser"
  /\ (\E label \in {"code", "failed"} : Goto(c, label)) \/ Raise(c, "RuntimeError")
  /\ UNCHANGED <<files, mem, using, thread, now, faults, calm>>

BrowserFailed(c) ==
  /\ pc[c] = "failed" /\ srv[c] = "down"
  /\ Raise(c, "AuthError")
  /\ UNCHANGED <<files, mem, using, thread, now, faults, calm>>

\* The user has logged in, Google redirects the browser to the URL, and
\* Handler.do_GET sets the code.
Redirect(c) ==
  /\ pc[c] \in {"browser", "code"} /\ url[c] /\ srv[c] = "serving" /\ ~code[c]
  /\ code' = [code EXCEPT ![c] = TRUE]
  /\ UNCHANGED <<files, pc, result, mem, using, srv, url, now, faults, calm>>

\* wait_for_login: the server is shut down.  Mutant: it is not.
GotCodeNoShutdown(c) ==
  /\ pc[c] = "code" /\ code[c]
  /\ Goto(c, "exchange")
  /\ UNCHANGED <<files, mem, using, thread, now, faults, calm>>
GotCode(c) ==
  /\ pc[c] = "code" /\ code[c]
  /\ Goto(c, "shutdown")
  /\ UNCHANGED <<files, mem, using, thread, now, faults, calm>>

ShutDown(c) ==
  /\ pc[c] = "shutdown" /\ srv[c] = "down"
  /\ Goto(c, "exchange")
  /\ UNCHANGED <<files, mem, using, thread, now, faults, calm>>

\* _get_access_token: the code is exchanged for a token.
GetAccessToken(c) ==
  /\ pc[c] = "exchange"
  /\ \/ Goto(c, "open-access") /\ mem' = [mem EXCEPT ![c] = Token(c, TRUE)]
     \/ (\E e \in {"AuthError", "ConnectionError"} : Raise(c, e)) /\ UNCHANGED mem
  /\ UNCHANGED <<files, using, thread, now, faults, calm>>

OpenAccess(c)  == pc[c] = "open-access" /\ Truncate(c, "access", "write-access")
OpenRefresh(c) == pc[c] = "open-refresh" /\ Truncate(c, "refresh", "write-refresh")

\* A login writes both files, a refresh only the access token.  Mutant: both.
AfterAccessBoth(c) == "open-refresh"
AfterAccess(c) == IF mem[c].offline THEN "open-refresh" ELSE "ready"

WriteAccess(c)  == pc[c] = "write-access" /\ Flush(c, "access", AfterAccess(c))
WriteRefresh(c) == pc[c] = "write-refresh" /\ Flush(c, "refresh", "validate")

(***************************************************************************)
(* validate_login and refresh_access_token                                 *)
(***************************************************************************)

\* A token that cannot be decoded, or is not there, is a ValueError, or an error
\* that nobody catches.
Validate(c) ==
  /\ pc[c] = "validate"
  /\ \/ mem[c].is = "token" /\ Goto(c, IF now > mem[c].born THEN "refresh" ELSE "ready")
     \/ mem[c].is = "garbled" /\ (Goto(c, "find-refresh") \/ Raise(c, "DecodeError"))
  /\ UNCHANGED <<files, mem, using, thread, now, faults, calm>>

\* Without a refresh token file everything is deleted, to start over.
Refresh(c) ==
  /\ pc[c] = "refresh"
  /\ Goto(c, IF file["refresh"].is = "absent" THEN "find-refresh" ELSE "reload")
  /\ UNCHANGED <<files, mem, using, thread, now, faults, calm>>

Reload(c) ==
  /\ pc[c] = "reload"
  /\ LET f == file["refresh"] IN
     \/ f.is = "absent" /\ Raise(c, "FileNotFoundError") /\ UNCHANGED using
     \/ f.is = "empty" /\ Raise(c, "TypeError") /\ UNCHANGED using
     \/ /\ f.is = "garbled" /\ UNCHANGED using
        /\ \E e \in {"YAMLError", "TypeError", "KeyError"} : Raise(c, e)
     \/ f.is = "token" /\ ~f.offline /\ Raise(c, "KeyError") /\ UNCHANGED using
     \/ /\ f.is = "garbled" \/ f.offline
        /\ Goto(c, "post")
        /\ using' = [using EXCEPT ![c] = f.grant]
  /\ UNCHANGED <<files, mem, thread, now, faults, calm>>

\* Google issues a token, cannot be reached, or refuses: everything is deleted.
\* Mutant: the new token is not saved.
PostUnsaved(c) ==
  /\ pc[c] = "post"
  /\ Goto(c, "ready") /\ mem' = [mem EXCEPT ![c] = Token(using[c], FALSE)]
  /\ UNCHANGED <<files, using, thread, now, faults, calm>>
Post(c) ==
  /\ pc[c] = "post"
  /\ \/ /\ using[c] # "nobody"
        /\ Goto(c, "open-access") /\ mem' = [mem EXCEPT ![c] = Token(using[c], FALSE)]
     \/ Raise(c, "AuthError") /\ UNCHANGED mem
     \/ Goto(c, "find-refresh") /\ UNCHANGED mem
  /\ UNCHANGED <<files, using, thread, now, faults, calm>>

\* _delete_auth_files: the refresh token, then the access token, each if it
\* exists; then AuthError.
Find(c, n, found, gone) ==
  /\ IF file[n].is # "absent" THEN Goto(c, found) ELSE gone
  /\ UNCHANGED <<files, mem, using, thread, now, faults, calm>>

\* A process that is writing the file goes on writing to the unlinked one.
Unlink(c, n, next) ==
  /\ IF file[n].is = "absent"
     THEN Raise(c, "FileNotFoundError") /\ UNCHANGED files
     ELSE /\ file' = [file EXCEPT ![n] = Nothing("absent")]
          /\ linked' = [d \in Cmd |-> IF Writes(d, n) THEN FALSE ELSE linked[d]]
          /\ next
  /\ UNCHANGED <<mem, using, thread, now, faults, calm>>

\* Mutant: the access token is kept.
AfterRefreshFileKeep(c) == Raise(c, "AuthErrorAgain")
AfterRefreshFile(c) == Goto(c, "find-access")

FindRefresh(c) ==
  pc[c] = "find-refresh" /\ Find(c, "refresh", "unlink-refresh", AfterRefreshFile(c))
UnlinkRefresh(c) ==
  pc[c] = "unlink-refresh" /\ Unlink(c, "refresh", AfterRefreshFile(c))
FindAccess(c) ==
  pc[c] = "find-access" /\ Find(c, "access", "unlink-access", Raise(c, "AuthErrorAgain"))
UnlinkAccess(c) ==
  pc[c] = "unlink-access" /\ Unlink(c, "access", Raise(c, "AuthErrorAgain"))

CmdStep(c) ==
  \/ Load(c) \/ StartServer(c) \/ CreateLoginUrl(c) \/ OpenBrowser(c) \/ BrowserFailed(c)
  \/ GotCode(c) \/ ShutDown(c) \/ GetAccessToken(c) \/ OpenAccess(c) \/ WriteAccess(c)
  \/ OpenRefresh(c) \/ WriteRefresh(c) \/ Validate(c) \/ Refresh(c) \/ Reload(c) \/ Post(c)
  \/ FindRefresh(c) \/ UnlinkRefresh(c) \/ FindAccess(c) \/ UnlinkAccess(c)

\* A client validates the login again for each call it makes (metadata), and
\* ends some time.
Metadata(c) ==
  /\ pc[c] = "ready"
  /\ Goto(c, "validate") \/ Raise(c, "ok")
  /\ UNCHANGED <<files, mem, using, thread, now, faults, calm>>

(***************************************************************************)
(* Time and faults (external)                                              *)
(***************************************************************************)

Tick ==
  /\ now < MaxTime
  /\ now' = now + 1
  /\ UNCHANGED <<files, pc, result, mem, using, thread, faults, calm>>

\* What a with statement that Ctrl-C leaves has flushed of the token: nothing,
\* all of it, a part that is no token, or one without its last keys, of which
\* refresh_token is one; in the refresh token file that is no token either.
CutShort(c, n) ==
  \/ UNCHANGED file
  \/ file' = [file EXCEPT ![n] = mem[c]]
  \/ file' = [file EXCEPT ![n] = Nothing("garbled")]
  \/ n = "access" /\ file' = [file EXCEPT ![n] = [mem[c] EXCEPT !.offline = FALSE]]

\* Ctrl-C ends the main thread, which closes the file it writes, and the server
\* thread, if it serves, goes on; SIGKILL ends both, and flushes nothing.
Fault(c) ==
  /\ Active(c) /\ faults < MaxFaults
  /\ faults' = faults + 1
  /\ \/ /\ Raise(c, "interrupted") /\ UNCHANGED srv
        /\ \/ UNCHANGED file
           \/ \E n \in Name : Writes(c, n) /\ linked[c] /\ CutShort(c, n)
     \/ Raise(c, "killed") /\ srv' = [srv EXCEPT ![c] = "down"] /\ UNCHANGED file
  /\ linked' = [linked EXCEPT ![c] = FALSE]
  /\ UNCHANGED <<mem, using, url, code, now, calm>>

Next ==
  \/ \E c \in Cmd : Begin(c) \/ CmdStep(c) \/ ServerStep(c) \/ Redirect(c) \/ Metadata(c)
                      \/ Fault(c)
  \/ Tick

\* Threads make progress.  The user need not log in, nor start a command.
Fairness == \A c \in Cmd : WF_vars(CmdStep(c)) /\ WF_vars(ServerStep(c))

Spec == Init /\ [][Next]_vars /\ Fairness

(***************************************************************************)
(* Properties                                                              *)
(***************************************************************************)

\* The refresh token is never lost to a refresh: whatever processes race, the
\* refresh token file never holds the answer to a refresh, which has no
\* refresh_token (login.py, refresh_access_token writes the access token only).
RefreshTokenKept == file["refresh"].is = "token" => file["refresh"].offline

Saved(c) ==
  /\ file["access"] = mem[c]
  /\ mem[c].offline /\ mem[c].grant = c => file["refresh"] = mem[c]

\* A process that ran on its own and is logged in has left the token it uses in
\* the access token file, and the one it logged in with in both files
\* (_get_access_token, refresh_access_token): the next process goes on with it.
LoginIsSaved ==
  \A c \in calm : pc[c] = "ready" => Saved(c)

\* A process that ran on its own and ends with "please try again" has removed
\* both files, whatever state crashes had left them in, so that the next one
\* does log in again (_delete_auth_files).
TryAgainStartsOver ==
  [][\A c \in calm : result[c] = "none" /\ result'[c] = "AuthErrorAgain" =>
        \A n \in Name : file'[n].is = "absent"]_vars

\* Once the code has arrived the login ends, and its server with it: no thread
\* is left that would keep the process alive (wait_for_login), unless Ctrl-C
\* came in between.
CodeEndsLogin ==
  \A c \in Cmd : code[c] ~> \/ pc[c] \in {"ready", "done"} /\ srv[c] = "down"
                            \/ result[c] \in {"interrupted", "RuntimeError"}

\* The safety core of CodeEndsLogin.  The thread of the local server runs only
\* while its login is under way: wherever else the process is, and however it
\* ended, the thread has not been started or is down, so that it does not keep
\* the process alive (_start_local_server, wait_for_login, open_browser).  The
\* exceptions are Ctrl-C and the RuntimeError of browser.py, which leave it up.
LoggingIn == {"await", "browser", "code", "failed", "shutdown"}
LeftUp(c) == pc[c] = "done" /\ result[c] \in {"interrupted", "RuntimeError"}
NoServerLeft ==
  \A c \in Cmd : pc[c] \notin LoggingIn /\ ~LeftUp(c) => srv[c] \in {"none", "down"}
=============================================================================
