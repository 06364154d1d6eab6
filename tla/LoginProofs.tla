---------------------------- MODULE LoginProofs ----------------------------
(***************************************************************************)
(* What racing processes cannot do to the refresh token, and what a process *)
(* on its own leaves in the token files and in threads, for any number of   *)
(* processes.                                                              *)
(***************************************************************************)
EXTENDS Login, TLAPS

(***************************************************************************)
(* The inductive invariants                                                *)
(***************************************************************************)

\* What is on its way to the refresh token file has a refresh_token.
OnItsWay == \A c \in Cmd : pc[c] \in {"open-refresh", "write-refresh"} => mem[c].offline

\* A process that has not logged in has no grant yet.
NoGrantYet ==
  \A c \in Cmd : pc[c] \in {"new", "load"} =>
     /\ \A n \in Name : file[n].grant # c
     /\ \A d \in Cmd : mem[d].grant # c /\ using[d] # c

\* How far a process that runs on its own has come with the files.
Alone ==
  \A c \in calm :
     /\ pc[c] # "new"
     /\ Active(c) =>
        /\ \A d \in Cmd : Active(d) => d = c
        /\ pc[c] \in {"validate", "ready"} => Saved(c)
        /\ pc[c] = "write-access" => file["access"].is = "empty" /\ linked[c]
        /\ pc[c] \in {"open-refresh", "write-refresh"} => file["access"] = mem[c]
        /\ pc[c] = "write-refresh" => file["refresh"].is = "empty" /\ linked[c]
        /\ pc[c] \in {"find-access", "unlink-access"} => file["refresh"].is = "absent"

LoginInv == RefreshTokenKept /\ OnItsWay /\ NoGrantYet /\ Alone

\* It is not started before the login is.
NotStarted == \A c \in Cmd : pc[c] \in {"new", "load", "serve"} => srv[c] = "none"

\* What Goto and Raise do to pc and result.
LEMMA Moves ==
  ASSUME TypeOK, NEW c \in Cmd
  PROVE  /\ \A s \in PcState : Goto(c, s) =>
              /\ pc' \in [Cmd -> PcState] /\ result' \in [Cmd -> Results]
              /\ pc'[c] = s
              /\ \A d \in Cmd \ {c} : pc'[d] = pc[d] /\ result'[d] = result[d]
         /\ \A e \in Results : Raise(c, e) =>
              /\ pc' \in [Cmd -> PcState] /\ result' \in [Cmd -> Results]
              /\ pc'[c] = "done"
              /\ \A d \in Cmd \ {c} : pc'[d] = pc[d] /\ result'[d] = result[d]
BY DEF TypeOK, Goto, Raise, PcState

\* The labels and outcomes that the actions name.
LEMMA Labels ==
  /\ \A s \in {"load", "serve", "await", "browser", "failed", "code", "shutdown", "exchange",
               "open-access", "write-access", "open-refresh", "write-refresh", "validate",
               "refresh", "reload", "post", "find-refresh", "unlink-refresh", "find-access",
               "unlink-access", "ready"} : s \in PcState
  /\ \A e \in Errors \cup {"ok", "interrupted", "killed"} : e \in Results
  /\ \A k \in {"absent", "empty", "garbled"} : Nothing(k) \in Doc
BY LoginAssumption DEF PcState, Results, Doc, Nothing

\* Every step of a process moves its pc, by Goto or by Raise.
LEMMA CmdMoves ==
  ASSUME TypeOK, NEW c \in Cmd, Begin(c) \/ CmdStep(c) \/ Metadata(c) \/ Fault(c)
  PROVE  /\ pc' \in [Cmd -> PcState] /\ result' \in [Cmd -> Results]
         /\ \A d \in Cmd \ {c} : pc'[d] = pc[d] /\ result'[d] = result[d]
<1> DEFINE Moved == (\E s \in PcState : Goto(c, s)) \/ (\E e \in Results : Raise(c, e))
<1> SUFFICES Moved
  BY Moves
<1> USE Labels DEF Errors
<1>1. CASE Begin(c) \/ Load(c) \/ StartServer(c) \/ CreateLoginUrl(c)
  BY <1>1 DEF Begin, Load, StartServer, CreateLoginUrl
<1>2. CASE OpenBrowser(c) \/ BrowserFailed(c) \/ GotCode(c) \/ ShutDown(c)
  BY <1>2 DEF OpenBrowser, BrowserFailed, GotCode, ShutDown
<1>3. CASE GetAccessToken(c) \/ OpenAccess(c) \/ OpenRefresh(c)
  BY <1>3 DEF GetAccessToken, OpenAccess, OpenRefresh, Truncate
<1>4. CASE WriteAccess(c) \/ WriteRefresh(c)
  BY <1>4 DEF WriteAccess, WriteRefresh, Flush, AfterAccess
<1>5. CASE Validate(c) \/ Refresh(c) \/ Post(c)
  BY <1>5 DEF Validate, Refresh, Post
<1>6. CASE Reload(c)
  BY <1>6 DEF Reload
<1>7. CASE FindRefresh(c) \/ FindAccess(c)
  BY <1>7 DEF FindRefresh, FindAccess, Find, AfterRefreshFile
<1>8. CASE UnlinkRefresh(c) \/ UnlinkAccess(c)
  BY <1>8 DEF UnlinkRefresh, UnlinkAccess, Unlink, AfterRefreshFile
<1>9. CASE Metadata(c) \/ Fault(c)
  BY <1>9 DEF Metadata, Fault
<1> QED BY <1>1, <1>2, <1>3, <1>4, <1>5, <1>6, <1>7, <1>8, <1>9 DEF CmdStep

\* What the writes and the deletion of a file do.
LEMMA FileSteps ==
  ASSUME TypeOK, NEW c \in Cmd, NEW n \in Name, NEW s, NEW next
  PROVE  /\ Truncate(c, n, s) => /\ file' \in [Name -> Doc] /\ linked' \in [Cmd -> BOOLEAN]
         /\ Flush(c, n, s) => /\ file' \in [Name -> Doc] /\ linked' \in [Cmd -> BOOLEAN]
         /\ Unlink(c, n, next) => /\ file' \in [Name -> Doc] /\ linked' \in [Cmd -> BOOLEAN]
<1> USE Labels DEF TypeOK, files
<1>1. Truncate(c, n, s) => file' \in [Name -> Doc] /\ linked' \in [Cmd -> BOOLEAN]
  BY DEF Truncate
<1>2. Flush(c, n, s) => file' \in [Name -> Doc] /\ linked' \in [Cmd -> BOOLEAN]
  BY DEF Flush
<1>3. Unlink(c, n, next) => file' \in [Name -> Doc] /\ linked' \in [Cmd -> BOOLEAN]
  BY DEF Unlink
<1> QED BY <1>1, <1>2, <1>3

LEMMA FileEffects ==
  ASSUME NEW c \in Cmd, NEW n \in Name, NEW s, NEW next
  PROVE  /\ Truncate(c, n, s) => file' = [file EXCEPT ![n] = Nothing("empty")]
         /\ Flush(c, n, s) => \/ file' = [file EXCEPT ![n] = mem[c]]
                             \/ file' = [file EXCEPT ![n] = Nothing("garbled")]
                             \/ file' = file
         /\ Unlink(c, n, next) => \/ file' = [file EXCEPT ![n] = Nothing("absent")]
                                 \/ file' = file
<1>1. Truncate(c, n, s) => file' = [file EXCEPT ![n] = Nothing("empty")]
  BY DEF Truncate
<1>2. Flush(c, n, s) => \/ file' = [file EXCEPT ![n] = mem[c]]
                        \/ file' = [file EXCEPT ![n] = Nothing("garbled")]
                        \/ file' = file
  BY DEF Flush
<1>3. Unlink(c, n, next) => \/ file' = [file EXCEPT ![n] = Nothing("absent")]
                            \/ file' = file
  BY DEF Unlink, files
<1> QED BY <1>1, <1>2, <1>3

\* What a process leaves of a file: an interrupted one, a part of its token.
LEMMA FaultFile ==
  ASSUME TypeOK, NEW c \in Cmd, Fault(c)
  PROVE  \/ file' = file
         \/ \E n \in Name, t \in Doc :
              /\ Writes(c, n) /\ file' = [file EXCEPT ![n] = t]
              /\ t.grant \in {mem[c].grant, "nobody"}
              /\ t = mem[c] \/ t.is = "garbled" \/ n = "access"
<1>1. mem[c] \in Doc
  BY DEF TypeOK
<1>2. [mem[c] EXCEPT !.offline = FALSE] \in Doc
      /\ [mem[c] EXCEPT !.offline = FALSE].grant = mem[c].grant
  BY <1>1 DEF Doc
<1>3. Nothing("garbled") \in Doc /\ Nothing("garbled").is = "garbled"
      /\ Nothing("garbled").grant = "nobody"
  BY Labels DEF Nothing
<1>4. ASSUME NEW n \in Name, CutShort(c, n), file' # file
      PROVE  \E t \in Doc : /\ file' = [file EXCEPT ![n] = t]
                            /\ t.grant \in {mem[c].grant, "nobody"}
                            /\ t = mem[c] \/ t.is = "garbled" \/ n = "access"
  BY <1>1, <1>2, <1>3, <1>4 DEF CutShort
<1>5. file' = file \/ \E n \in Name : Writes(c, n) /\ CutShort(c, n)
  BY DEF Fault
<1> QED BY <1>4, <1>5

\* Google's tokens are documents.
LEMMA TokenType ==
  ASSUME TypeOK, NEW g \in Cmd, NEW off \in BOOLEAN
  PROVE  Token(g, off) \in Doc
BY DEF TypeOK, Token, Doc

LEMMA TypeStep == TypeOK /\ [Next]_vars => TypeOK'
<1> SUFFICES ASSUME TypeOK, [Next]_vars PROVE TypeOK'
  OBVIOUS
<1> DEFINE Moved == pc' \in [Cmd -> PcState] /\ result' \in [Cmd -> Results]
<1>0. \A c \in Cmd : Begin(c) \/ CmdStep(c) \/ Metadata(c) \/ Fault(c) => Moved
  BY CmdMoves
<1> HIDE DEF Moved
<1> USE LoginAssumption DEF TypeOK, files, thread
<1>1. ASSUME NEW c \in Cmd, Begin(c) \/ Metadata(c) PROVE TypeOK'
  BY <1>0, <1>1 DEF Begin, Metadata, Moved
<1>2. ASSUME NEW c \in Cmd, Load(c) PROVE TypeOK'
  <2>1. mem' \in [Cmd -> Doc]
    BY <1>2 DEF Load, Name
  <2> QED BY <1>0, <1>2, <2>1 DEF Load, Moved, CmdStep
<1>3. ASSUME NEW c \in Cmd, StartServer(c) \/ CreateLoginUrl(c) \/ OpenBrowser(c) PROVE TypeOK'
  <2>1. Moved
    BY <1>0, <1>3 DEF CmdStep
  <2>2. CASE StartServer(c)
    <3>1. srv' \in [Cmd -> {"none", "boot", "made", "named", "serving", "down"}]
      BY <2>2 DEF StartServer
    <3> QED BY <2>1, <2>2, <3>1 DEF StartServer, Moved
  <2>3. CASE CreateLoginUrl(c)
    <3>1. url' \in [Cmd -> BOOLEAN]
      BY <2>3 DEF CreateLoginUrl
    <3> QED BY <2>1, <2>3, <3>1 DEF CreateLoginUrl, Moved
  <2>4. CASE OpenBrowser(c)
    BY <2>1, <2>4 DEF OpenBrowser, Moved
  <2> QED BY <1>3, <2>2, <2>3, <2>4
<1>4. ASSUME NEW c \in Cmd, BrowserFailed(c) \/ GotCode(c) \/ ShutDown(c) \/ Validate(c) \/ Refresh(c)
      PROVE TypeOK'
  BY <1>0, <1>4 DEF BrowserFailed, GotCode, ShutDown, Validate, Refresh, Moved, CmdStep
<1>5. ASSUME NEW c \in Cmd, GetAccessToken(c) PROVE TypeOK'
  <2>2. Token(c, TRUE) \in Doc
    BY TokenType
  <2>3. mem' = [mem EXCEPT ![c] = Token(c, TRUE)] \/ mem' = mem
    BY <1>5 DEF GetAccessToken
  <2>1. mem' \in [Cmd -> Doc]
    BY <2>2, <2>3
  <2> QED BY <1>0, <1>5, <2>1 DEF GetAccessToken, Moved, CmdStep
<1>6. ASSUME NEW c \in Cmd, OpenAccess(c) \/ OpenRefresh(c) PROVE TypeOK'
  <2>1. file' \in [Name -> Doc] /\ linked' \in [Cmd -> BOOLEAN]
    BY <1>6, FileSteps DEF OpenAccess, OpenRefresh, Name
  <2> QED BY <1>0, <1>6, <2>1 DEF OpenAccess, OpenRefresh, Truncate, Moved, CmdStep
<1>7. ASSUME NEW c \in Cmd, WriteAccess(c) \/ WriteRefresh(c) PROVE TypeOK'
  <2>1. file' \in [Name -> Doc] /\ linked' \in [Cmd -> BOOLEAN]
    BY <1>7, FileSteps DEF WriteAccess, WriteRefresh, Name
  <2> QED BY <1>0, <1>7, <2>1 DEF WriteAccess, WriteRefresh, Flush, Moved, CmdStep
<1>8. ASSUME NEW c \in Cmd, Reload(c) PROVE TypeOK'
  <2>1. using' \in [Cmd -> Cmd \cup {"nobody"}]
    BY <1>8 DEF Reload, Name, Doc
  <2> QED BY <1>0, <1>8, <2>1 DEF Reload, Moved, CmdStep
<1>9. ASSUME NEW c \in Cmd, Post(c) PROVE TypeOK'
  <2>1. using[c] # "nobody" => Token(using[c], FALSE) \in Doc
    BY TokenType
  <2>2. mem' \in [Cmd -> Doc]
    BY <1>9, <2>1 DEF Post
  <2> QED BY <1>0, <1>9, <2>2 DEF Post, Moved, CmdStep
<1>10. ASSUME NEW c \in Cmd, FindRefresh(c) \/ FindAccess(c) PROVE TypeOK'
  BY <1>0, <1>10 DEF FindRefresh, FindAccess, Find, Moved, CmdStep
<1>11. ASSUME NEW c \in Cmd, UnlinkRefresh(c) \/ UnlinkAccess(c) PROVE TypeOK'
  <2>1. file' \in [Name -> Doc] /\ linked' \in [Cmd -> BOOLEAN]
    BY <1>11, FileSteps DEF UnlinkRefresh, UnlinkAccess, Name
  <2> QED BY <1>0, <1>11, <2>1 DEF UnlinkRefresh, UnlinkAccess, Unlink, Moved, CmdStep
<1>12. ASSUME NEW c \in Cmd, ServerStep(c) \/ Redirect(c) PROVE TypeOK'
  BY <1>12 DEF ServerStep, Redirect
<1>13. ASSUME NEW c \in Cmd, Fault(c) PROVE TypeOK'
  <2>1. Moved
    BY <1>0, <1>13
  <2>3. faults' \in 0..MaxFaults /\ linked' \in [Cmd -> BOOLEAN]
    BY <1>13 DEF Fault
  <2>2. srv' \in [Cmd -> {"none", "boot", "made", "named", "serving", "down"}]
    BY <1>13 DEF Fault
  <2>4. file' \in [Name -> Doc]
    BY <1>13, FaultFile
  <2> QED BY <1>13, <2>1, <2>2, <2>3, <2>4 DEF Fault, Moved
<1>14. ASSUME Tick PROVE TypeOK'
  BY <1>14 DEF Tick
<1>15. CASE UNCHANGED vars
  BY <1>15 DEF vars
<1> QED BY <1>1, <1>2, <1>3, <1>4, <1>5, <1>6, <1>7, <1>8, <1>9, <1>10, <1>11, <1>12, <1>13,
           <1>14, <1>15 DEF Next, CmdStep

LEMMA TypeInit == Init => TypeOK
<1> USE LoginAssumption DEF Init, TypeOK
<1>1. Init => file \in [Name -> Doc] /\ mem \in [Cmd -> Doc]
  BY Labels
<1>2. Init => pc \in [Cmd -> PcState] /\ result \in [Cmd -> Results]
  BY DEF PcState, Results
<1> QED BY <1>1, <1>2

\* The variables of Login keep their types in every behaviour.
THEOREM LoginTypeCorrect == Spec => []TypeOK
BY TypeInit, TypeStep, PTL DEF Spec

(***************************************************************************)
(* The refresh token file                                                  *)
(***************************************************************************)

RefreshInv == RefreshTokenKept /\ OnItsWay

\* Steps that leave the refresh token file alone and take no process to where
\* it is written.
LEMMA RefreshFrame ==
  ASSUME TypeOK, TypeOK', RefreshInv, NEW c \in Cmd,
         \A d \in Cmd \ {c} : pc'[d] = pc[d] /\ mem'[d] = mem[d],
         file'["refresh"] = file["refresh"],
         pc'[c] \notin {"open-refresh", "write-refresh"}
  PROVE  RefreshInv'
BY DEF RefreshInv, RefreshTokenKept, OnItsWay

LEMMA RefreshStep == TypeOK /\ TypeOK' /\ RefreshInv /\ [Next]_vars => RefreshInv'
<1> SUFFICES ASSUME TypeOK, TypeOK', RefreshInv, [Next]_vars PROVE RefreshInv'
  OBVIOUS
<1> USE DEF files, thread
<1>0. ASSUME NEW c \in Cmd, Begin(c) \/ CmdStep(c) \/ Metadata(c) \/ Fault(c)
      PROVE \A d \in Cmd \ {c} : pc'[d] = pc[d]
  BY <1>0, CmdMoves
<1>1. ASSUME NEW c \in Cmd, Begin(c) \/ Metadata(c) PROVE RefreshInv'
  <2>1. pc'[c] \notin {"open-refresh", "write-refresh"}
    BY <1>1 DEF Begin, Metadata, Goto, Raise, TypeOK
  <2> QED BY <1>0, <1>1, <2>1, RefreshFrame DEF Begin, Metadata
<1>14. ASSUME NEW c \in Cmd, Fault(c) PROVE RefreshInv'
  <2>1. pc'[c] = "done" /\ mem' = mem
    BY <1>14 DEF Fault, Raise, TypeOK
  <2>2. \/ file'["refresh"] = file["refresh"]
        \/ file'["refresh"] = mem[c] /\ pc[c] = "write-refresh"
        \/ file'["refresh"].is = "garbled"
    BY <1>14, FaultFile DEF TypeOK, Name, Writes
  <2> QED BY <1>0, <1>14, <2>1, <2>2 DEF RefreshInv, RefreshTokenKept, OnItsWay
<1>2. ASSUME NEW c \in Cmd, Load(c) \/ GetAccessToken(c) \/ Post(c) PROVE RefreshInv'
  <2>1. pc'[c] \notin {"open-refresh", "write-refresh"}
    <3>1. CASE Load(c)
      BY <3>1 DEF Load, Goto, Raise, TypeOK
    <3>2. CASE GetAccessToken(c)
      BY <3>2 DEF GetAccessToken, Goto, Raise, TypeOK
    <3>3. CASE Post(c)
      BY <3>3 DEF Post, Goto, Raise, TypeOK
    <3> QED BY <1>2, <3>1, <3>2, <3>3
  <2>2. \A d \in Cmd \ {c} : mem'[d] = mem[d]
    BY <1>2 DEF Load, GetAccessToken, Post, TypeOK
  <2>3. file' = file
    BY <1>2 DEF Load, GetAccessToken, Post
  <2> QED BY <1>0, <1>2, <2>1, <2>2, <2>3, RefreshFrame DEF CmdStep
<1>3. ASSUME NEW c \in Cmd, StartServer(c) \/ CreateLoginUrl(c) \/ OpenBrowser(c) \/ BrowserFailed(c)
      PROVE RefreshInv'
  <2>1. pc'[c] \notin {"open-refresh", "write-refresh"}
    BY <1>3 DEF StartServer, CreateLoginUrl, OpenBrowser, BrowserFailed, Goto, Raise, TypeOK
  <2> QED BY <1>0, <1>3, <2>1, RefreshFrame
        DEF StartServer, CreateLoginUrl, OpenBrowser, BrowserFailed, CmdStep
<1>4. ASSUME NEW c \in Cmd, GotCode(c) \/ ShutDown(c) \/ Validate(c) \/ Refresh(c) \/ Reload(c)
      PROVE RefreshInv'
  <2>1. pc'[c] \notin {"open-refresh", "write-refresh"}
    BY <1>4 DEF GotCode, ShutDown, Validate, Refresh, Reload, Goto, Raise, TypeOK
  <2>2. file' = file /\ mem' = mem
    BY <1>4 DEF GotCode, ShutDown, Validate, Refresh, Reload
  <2> QED BY <1>0, <1>4, <2>1, <2>2, RefreshFrame DEF CmdStep
<1>5. ASSUME NEW c \in Cmd, OpenAccess(c) PROVE RefreshInv'
  <2>1. pc'[c] \notin {"open-refresh", "write-refresh"}
    BY <1>5 DEF OpenAccess, Truncate, Goto, TypeOK
  <2>2. file'["refresh"] = file["refresh"] /\ mem' = mem
    BY <1>5 DEF OpenAccess, Truncate, TypeOK, Name
  <2> QED BY <1>0, <1>5, <2>1, <2>2, RefreshFrame DEF CmdStep
<1>6. ASSUME NEW c \in Cmd, OpenRefresh(c) PROVE RefreshInv'
  <2>1. file'["refresh"].is = "empty" /\ mem' = mem /\ pc[c] = "open-refresh"
    BY <1>6 DEF OpenRefresh, Truncate, TypeOK, Name, Nothing
  <2> QED BY <1>0, <1>6, <2>1 DEF CmdStep, RefreshInv, RefreshTokenKept, OnItsWay
<1>7. ASSUME NEW c \in Cmd, WriteAccess(c) PROVE RefreshInv'
  <2>1. file'["refresh"] = file["refresh"] /\ mem' = mem
    BY <1>7 DEF WriteAccess, Flush, TypeOK, Name
  <2>2. pc'[c] \in {"open-refresh", "write-refresh"} => mem[c].offline
    BY <1>7 DEF WriteAccess, Flush, AfterAccess, Goto, TypeOK
  <2> QED BY <1>0, <1>7, <2>1, <2>2 DEF CmdStep, RefreshInv, RefreshTokenKept, OnItsWay
<1>8. ASSUME NEW c \in Cmd, WriteRefresh(c) PROVE RefreshInv'
  <2>1. pc'[c] = "validate" /\ mem' = mem /\ pc[c] = "write-refresh"
    BY <1>8 DEF WriteRefresh, Flush, Goto, TypeOK
  <2>2. \/ file'["refresh"] \in {file["refresh"], mem[c]}
        \/ file'["refresh"].is = "garbled"
    BY <1>8 DEF WriteRefresh, Flush, TypeOK, Name, Nothing
  <2> QED BY <1>0, <1>8, <2>1, <2>2 DEF CmdStep, RefreshInv, RefreshTokenKept, OnItsWay
<1>9. ASSUME NEW c \in Cmd, FindRefresh(c) \/ FindAccess(c) PROVE RefreshInv'
  <2>1. pc'[c] \notin {"open-refresh", "write-refresh"} /\ file' = file /\ mem' = mem
    BY <1>9 DEF FindRefresh, FindAccess, Find, AfterRefreshFile, Goto, Raise, TypeOK
  <2> QED BY <1>0, <1>9, <2>1, RefreshFrame DEF CmdStep
<1>10. ASSUME NEW c \in Cmd, UnlinkRefresh(c) \/ UnlinkAccess(c) PROVE RefreshInv'
  <2>0. mem' = mem
    BY <1>10 DEF UnlinkRefresh, UnlinkAccess, Unlink
  <2>1. pc'[c] \notin {"open-refresh", "write-refresh"} /\ mem' = mem
    <3>1. /\ \A s : Goto(c, s) => pc'[c] = s
          /\ \A r : Raise(c, r) => pc'[c] = "done"
      BY DEF Goto, Raise, TypeOK
    <3>2. CASE UnlinkRefresh(c)
      BY <2>0, <3>1, <3>2 DEF UnlinkRefresh, Unlink, AfterRefreshFile
    <3>3. CASE UnlinkAccess(c)
      BY <2>0, <3>1, <3>3 DEF UnlinkAccess, Unlink
    <3> QED BY <1>10, <3>2, <3>3
  <2>2. \/ \E n \in Name : file' = [file EXCEPT ![n] = Nothing("absent")]
        \/ file' = file
    BY <1>10, FileEffects DEF UnlinkRefresh, UnlinkAccess, Name
  <2>3. file'["refresh"] = file["refresh"] \/ file'["refresh"].is = "absent"
    BY <2>2 DEF TypeOK, Name, Nothing
  <2> QED BY <1>0, <1>10, <2>1, <2>3 DEF CmdStep, RefreshInv, RefreshTokenKept, OnItsWay
<1>11. ASSUME UNCHANGED <<file, pc, mem>> PROVE RefreshInv'
  BY <1>11 DEF RefreshInv, RefreshTokenKept, OnItsWay
<1>12. ASSUME NEW c \in Cmd, ServerStep(c) \/ Redirect(c) PROVE RefreshInv'
  BY <1>11, <1>12 DEF ServerStep, Redirect
<1>13. ASSUME Tick \/ UNCHANGED vars PROVE RefreshInv'
  BY <1>11, <1>13 DEF Tick, vars
<1> QED BY <1>1, <1>2, <1>3, <1>4, <1>5, <1>6, <1>7, <1>8, <1>9, <1>10, <1>12, <1>13,
           <1>14 DEF Next, CmdStep

\* RefreshTokenKept: processes that log in, refresh, delete and die at any
\* point never put the answer to a refresh into the refresh token file.
THEOREM RefreshTokenSurvives == Spec => []RefreshTokenKept
<1>1. Init => RefreshInv
  BY DEF Init, RefreshInv, RefreshTokenKept, OnItsWay, Nothing, Name
<1>2. RefreshInv => RefreshTokenKept
  BY DEF RefreshInv
<1> QED BY <1>1, <1>2, TypeInit, TypeStep, RefreshStep, PTL DEF Spec

(***************************************************************************)
(* Grants: no document names a process that has not logged in              *)
(***************************************************************************)

Fresh(c) == pc[c] \in {"new", "load"}

\* Only Begin keeps a process among those that have not logged in.
LEMMA StaysFresh ==
  ASSUME TypeOK, NEW c \in Cmd, CmdStep(c) \/ Metadata(c) \/ Fault(c)
  PROVE  ~Fresh(c)'
<1> USE DEF TypeOK, Fresh, Goto, Raise
<1>1. CASE Load(c) \/ StartServer(c) \/ CreateLoginUrl(c) \/ OpenBrowser(c) \/ BrowserFailed(c)
  BY <1>1 DEF Load, StartServer, CreateLoginUrl, OpenBrowser, BrowserFailed
<1>2. CASE GotCode(c) \/ ShutDown(c) \/ GetAccessToken(c) \/ OpenAccess(c) \/ OpenRefresh(c)
  BY <1>2 DEF GotCode, ShutDown, GetAccessToken, OpenAccess, OpenRefresh, Truncate
<1>3. CASE WriteAccess(c) \/ WriteRefresh(c)
  BY <1>3 DEF WriteAccess, WriteRefresh, Flush, AfterAccess
<1>4. CASE Validate(c) \/ Refresh(c) \/ Reload(c) \/ Post(c) \/ Metadata(c) \/ Fault(c)
  BY <1>4 DEF Validate, Refresh, Reload, Post, Metadata, Fault
<1>5. CASE FindRefresh(c) \/ FindAccess(c)
  BY <1>5 DEF FindRefresh, FindAccess, Find, AfterRefreshFile
<1>6. CASE UnlinkRefresh(c) \/ UnlinkAccess(c)
  BY <1>6 DEF UnlinkRefresh, UnlinkAccess, Unlink, AfterRefreshFile
<1> QED BY <1>1, <1>2, <1>3, <1>4, <1>5, <1>6 DEF CmdStep

\* A step of c puts into the files, into its memory and into using only what
\* was there, nobody, or c itself.
Told(c) ==
  LET old == {file[n].grant : n \in Name} \cup {mem[d].grant : d \in Cmd}
             \cup {using[d] : d \in Cmd} \cup {"nobody", c}
  IN  /\ \A n \in Name : file'[n].grant \in old
      /\ \A d \in Cmd : mem'[d].grant \in old /\ using'[d] \in old

LEMMA ToldStep ==
  ASSUME TypeOK, NEW c \in Cmd, CmdStep(c) \/ Metadata(c) \/ Fault(c)
  PROVE  Told(c)
<1> USE DEF Told, files, thread
<1>1. CASE UNCHANGED <<file, mem, using>>
  BY <1>1
<1>2. CASE StartServer(c) \/ CreateLoginUrl(c) \/ OpenBrowser(c) \/ BrowserFailed(c)
             \/ GotCode(c) \/ ShutDown(c)
  BY <1>1, <1>2 DEF StartServer, CreateLoginUrl, OpenBrowser, BrowserFailed, GotCode, ShutDown
<1>3. CASE Validate(c) \/ Refresh(c) \/ Metadata(c) \/ FindRefresh(c) \/ FindAccess(c)
  BY <1>1, <1>3 DEF Validate, Refresh, Metadata, FindRefresh, FindAccess, Find
<1>4. CASE Load(c)
  <2>1. file' = file /\ using' = using
    BY <1>4 DEF Load
  <2>2. mem' = mem \/ mem' = [mem EXCEPT ![c] = file["access"]]
    BY <1>4 DEF Load
  <2> QED BY <2>1, <2>2 DEF TypeOK, Name
<1>5. CASE GetAccessToken(c)
  <2>1. file' = file /\ using' = using
    BY <1>5 DEF GetAccessToken
  <2>2. mem' = mem \/ mem' = [mem EXCEPT ![c] = Token(c, TRUE)]
    BY <1>5 DEF GetAccessToken
  <2> QED BY <2>1, <2>2 DEF TypeOK, Token
<1>6. CASE Post(c)
  <2>1. file' = file /\ using' = using
    BY <1>6 DEF Post
  <2>2. mem' = mem \/ mem' = [mem EXCEPT ![c] = Token(using[c], FALSE)]
    BY <1>6 DEF Post
  <2> QED BY <2>1, <2>2 DEF TypeOK, Token
<1>7. CASE Reload(c)
  <2>1. file' = file /\ mem' = mem
    BY <1>7 DEF Reload
  <2>2. using' = using \/ using' = [using EXCEPT ![c] = file["refresh"].grant]
    BY <1>7 DEF Reload
  <2> QED BY <2>1, <2>2 DEF TypeOK, Name
<1>8. CASE OpenAccess(c) \/ OpenRefresh(c) \/ WriteAccess(c) \/ WriteRefresh(c)
             \/ UnlinkAccess(c) \/ UnlinkRefresh(c)
  <2>1. mem' = mem /\ using' = using
    BY <1>8 DEF OpenAccess, OpenRefresh, WriteAccess, WriteRefresh, UnlinkAccess, UnlinkRefresh,
               Truncate, Flush, Unlink
  <2>2. PICK n \in Name : \/ file' = file \/ file' = [file EXCEPT ![n] = mem[c]]
                          \/ \E k \in {"absent", "empty", "garbled"} :
                               file' = [file EXCEPT ![n] = Nothing(k)]
    BY <1>8, FileEffects DEF OpenAccess, OpenRefresh, WriteAccess, WriteRefresh, UnlinkAccess,
                            UnlinkRefresh, Name
  <2> QED BY <2>1, <2>2 DEF TypeOK, Nothing
<1>9. CASE Fault(c)
  <2>1. mem' = mem /\ using' = using
    BY <1>9 DEF Fault
  <2> QED BY <1>9, <2>1, FaultFile DEF TypeOK
<1> QED BY <1>2, <1>3, <1>4, <1>5, <1>6, <1>7, <1>8, <1>9 DEF CmdStep

LEMMA GrantStep == TypeOK /\ NoGrantYet /\ [Next]_vars => NoGrantYet'
<1> SUFFICES ASSUME TypeOK, NoGrantYet, [Next]_vars PROVE NoGrantYet'
  OBVIOUS
<1> USE DEF files, thread
<1>1. ASSUME NEW c \in Cmd, CmdStep(c) \/ Metadata(c) \/ Fault(c) PROVE NoGrantYet'
  <2> SUFFICES ASSUME NEW e \in Cmd, Fresh(e)'
               PROVE  /\ \A n \in Name : file'[n].grant # e
                      /\ \A d \in Cmd : mem'[d].grant # e /\ using'[d] # e
    BY DEF NoGrantYet, Fresh
  <2>1. e # c /\ Fresh(e)
    BY <1>1, StaysFresh, CmdMoves DEF Fresh
  <2>2. Told(c)
    BY <1>1, ToldStep
  <2> QED BY <2>1, <2>2, LoginAssumption DEF Told, NoGrantYet, Fresh
<1>2. ASSUME NEW c \in Cmd, Begin(c) PROVE NoGrantYet'
  BY <1>2, CmdMoves DEF Begin, NoGrantYet, Goto, TypeOK
<1>3. ASSUME NEW c \in Cmd, ServerStep(c) \/ Redirect(c) PROVE NoGrantYet'
  BY <1>3 DEF ServerStep, Redirect, NoGrantYet
<1>4. ASSUME Tick \/ UNCHANGED vars PROVE NoGrantYet'
  BY <1>4 DEF Tick, vars, NoGrantYet
<1> QED BY <1>1, <1>2, <1>3, <1>4 DEF Next

(***************************************************************************)
(* A process that runs on its own                                          *)
(***************************************************************************)

\* How far process c has come with the files, the part of Alone about c.
Progress(c) ==
  /\ pc[c] \in {"validate", "ready"} => Saved(c)
  /\ pc[c] = "write-access" => file["access"].is = "empty" /\ linked[c]
  /\ pc[c] \in {"open-refresh", "write-refresh"} => file["access"] = mem[c]
  /\ pc[c] = "write-refresh" => file["refresh"].is = "empty" /\ linked[c]
  /\ pc[c] \in {"find-access", "unlink-access"} => file["refresh"].is = "absent"

\* Labels at which Progress says nothing.
LEMMA NoProgress ==
  ASSUME NEW c \in Cmd,
         pc'[c] \notin {"validate", "ready", "write-access", "open-refresh", "write-refresh",
                        "find-access", "unlink-access"}
  PROVE  Progress(c)'
BY DEF Progress

\* A step of c keeps its Progress: each file is as the step before left it.
LEMMA ProgressStep ==
  ASSUME TypeOK, NEW c \in Cmd, NoGrantYet, Progress(c), CmdStep(c) \/ Metadata(c)
  PROVE  Progress(c)'
<1> USE DEF files, thread
<1>1. CASE Load(c)
  <2>1. CASE pc'[c] = "validate"
    <3>1. mem'[c] = file["access"] /\ file' = file /\ file["access"].grant # c
      BY <1>1, <2>1 DEF Load, Goto, Raise, TypeOK, NoGrantYet, Name
    <3> QED BY <2>1, <3>1 DEF Progress, Saved
  <2>2. CASE pc'[c] # "validate"
    BY <1>1, <2>2, NoProgress DEF Load, Goto, Raise, TypeOK
  <2> QED BY <2>1, <2>2
<1>2. CASE StartServer(c) \/ CreateLoginUrl(c) \/ OpenBrowser(c) \/ BrowserFailed(c)
             \/ GotCode(c) \/ ShutDown(c)
  BY <1>2, NoProgress DEF StartServer, CreateLoginUrl, OpenBrowser, BrowserFailed, GotCode,
                         ShutDown, Goto, Raise, TypeOK
<1>3. CASE GetAccessToken(c) \/ Refresh(c) \/ Reload(c) \/ Post(c)
  BY <1>3, NoProgress DEF GetAccessToken, Refresh, Reload, Post, Goto, Raise, TypeOK
<1>4. CASE OpenAccess(c)
  <2>1. pc'[c] = "write-access" /\ linked'[c] /\ file'["access"].is = "empty"
    BY <1>4 DEF OpenAccess, Truncate, Goto, TypeOK, Name, Nothing
  <2> QED BY <2>1 DEF Progress
<1>5. CASE WriteAccess(c)
  <2>1. file'["access"] = mem[c] /\ mem' = mem
    BY <1>5 DEF WriteAccess, Flush, Progress, TypeOK, Name
  <2>2. pc'[c] = "open-refresh" \/ (pc'[c] = "ready" /\ ~mem[c].offline)
    BY <1>5 DEF WriteAccess, Flush, AfterAccess, Goto, TypeOK
  <2> QED BY <2>1, <2>2 DEF Progress, Saved
<1>6. CASE OpenRefresh(c)
  <2>1. /\ pc[c] = "open-refresh" /\ pc'[c] = "write-refresh" /\ linked'[c] /\ mem' = mem
        /\ file'["refresh"].is = "empty" /\ file'["access"] = file["access"]
    BY <1>6 DEF OpenRefresh, Truncate, Goto, TypeOK, Name, Nothing
  <2> QED BY <2>1 DEF Progress
<1>7. CASE WriteRefresh(c)
  <2>1. file'["refresh"] = mem[c] /\ file'["access"] = mem[c] /\ mem' = mem
    BY <1>7 DEF WriteRefresh, Flush, Progress, TypeOK, Name
  <2>2. pc'[c] = "validate"
    BY <1>7 DEF WriteRefresh, Flush, Goto, TypeOK
  <2> QED BY <2>1, <2>2 DEF Progress, Saved
<1>8. CASE Validate(c) \/ Metadata(c)
  <2>1. pc[c] \in {"validate", "ready"} /\ mem' = mem /\ file' = file
    BY <1>8 DEF Validate, Metadata
  <2>2. pc'[c] \in {"validate", "ready", "refresh", "find-refresh", "done"}
    BY <1>8 DEF Validate, Metadata, Goto, Raise, TypeOK
  <2> QED BY <2>1, <2>2 DEF Progress, Saved
<1>9. CASE FindRefresh(c)
  <2>1. \/ pc'[c] = "unlink-refresh"
        \/ pc'[c] = "find-access" /\ file'["refresh"].is = "absent"
    BY <1>9 DEF FindRefresh, Find, AfterRefreshFile, Goto, TypeOK
  <2> QED BY <2>1 DEF Progress
<1>10. CASE UnlinkRefresh(c)
  <2>1. \/ pc'[c] = "done"
        \/ pc'[c] = "find-access" /\ file' = [file EXCEPT !["refresh"] = Nothing("absent")]
    BY <1>10 DEF UnlinkRefresh, Unlink, AfterRefreshFile, Goto, Raise, TypeOK
  <2> QED BY <2>1 DEF Progress, TypeOK, Name, Nothing
<1>11. CASE FindAccess(c)
  <2>1. pc'[c] \in {"unlink-access", "done"} /\ pc[c] = "find-access" /\ file' = file
    BY <1>11 DEF FindAccess, Find, Goto, Raise, TypeOK
  <2> QED BY <2>1 DEF Progress
<1>12. CASE UnlinkAccess(c)
  <2>1. pc'[c] = "done"
    BY <1>12 DEF UnlinkAccess, Unlink, Raise, TypeOK
  <2> QED BY <2>1, NoProgress
<1> QED BY <1>1, <1>2, <1>3, <1>4, <1>5, <1>6, <1>7, <1>8, <1>9, <1>10, <1>11, <1>12
        DEF CmdStep

\* Only an active process takes steps.
LEMMA StepsAreActive ==
  ASSUME NEW c \in Cmd, CmdStep(c) \/ Metadata(c) \/ Fault(c)
  PROVE  Active(c) /\ calm' = calm
<1> USE DEF Active
<1>1. CASE Load(c) \/ StartServer(c) \/ CreateLoginUrl(c) \/ OpenBrowser(c) \/ BrowserFailed(c)
  BY <1>1 DEF Load, StartServer, CreateLoginUrl, OpenBrowser, BrowserFailed
<1>2. CASE GotCode(c) \/ ShutDown(c) \/ GetAccessToken(c) \/ OpenAccess(c) \/ OpenRefresh(c)
  BY <1>2 DEF GotCode, ShutDown, GetAccessToken, OpenAccess, OpenRefresh, Truncate
<1>3. CASE WriteAccess(c) \/ WriteRefresh(c)
  BY <1>3 DEF WriteAccess, WriteRefresh, Flush
<1>4. CASE Validate(c) \/ Refresh(c) \/ Reload(c) \/ Post(c) \/ Metadata(c) \/ Fault(c)
  BY <1>4 DEF Validate, Refresh, Reload, Post, Metadata, Fault
<1>5. CASE FindRefresh(c) \/ FindAccess(c) \/ UnlinkRefresh(c) \/ UnlinkAccess(c)
  BY <1>5 DEF FindRefresh, FindAccess, Find, UnlinkRefresh, UnlinkAccess, Unlink
<1> QED BY <1>1, <1>2, <1>3, <1>4, <1>5 DEF CmdStep

LEMMA AloneStep == TypeOK /\ NoGrantYet /\ Alone /\ [Next]_vars => Alone'
<1> SUFFICES ASSUME TypeOK, NoGrantYet, Alone, [Next]_vars PROVE Alone'
  OBVIOUS
<1> USE DEF files, thread
<1>0. \A e \in calm : Active(e) => Progress(e) /\ \A d \in Cmd : Active(d) => d = e
  BY DEF Alone, Progress
<1>1. ASSUME NEW c \in Cmd, CmdStep(c) \/ Metadata(c) \/ Fault(c) PROVE Alone'
  <2>0. \A e \in calm : pc'[e] # "new"
    BY <1>1, StaysFresh, CmdMoves DEF Alone, Fresh, TypeOK
  <2> SUFFICES ASSUME NEW e \in calm, Active(e)'
               PROVE  Progress(e)' /\ \A d \in Cmd : Active(d)' => d = e
    BY <1>1, <2>0, StepsAreActive DEF Alone, Progress
  <2>1. Active(c) /\ e \in Cmd /\ \A d \in Cmd \ {c} : pc'[d] = pc[d]
    BY <1>1, StepsAreActive, CmdMoves DEF TypeOK
  <2>2. e = c
    BY <1>0, <2>1 DEF Active
  <2>3. \A d \in Cmd : Active(d)' => d = e
    BY <1>0, <2>1, <2>2 DEF Active
  <2>4. Progress(e)'
    <3>1. CASE Fault(c)
      BY <2>2, <3>1 DEF Fault, Raise, Active, TypeOK
    <3> QED BY <1>0, <1>1, <2>1, <2>2, <3>1, ProgressStep
  <2> QED BY <2>3, <2>4
<1>2. ASSUME NEW c \in Cmd, Begin(c) PROVE Alone'
  <2>1. pc'[c] \in {"serve", "load"} /\ \A d \in Cmd \ {c} : pc'[d] = pc[d]
    BY <1>2, CmdMoves DEF Begin, Goto, TypeOK
  <2>0. calm' \subseteq calm \cup {c} /\ c \notin calm
    BY <1>2 DEF Begin, Alone
  <2>3. \A e \in calm' : pc'[e] # "new"
    BY <2>0, <2>1 DEF Alone, TypeOK
  <2> SUFFICES ASSUME NEW e \in calm', Active(e)'
               PROVE  Progress(e)' /\ \A d \in Cmd : Active(d)' => d = e
    BY <2>3 DEF Alone, Progress
  <2>2. e = c /\ \A d \in Cmd : ~Active(d)
    <3>1. e # c => e \in calm /\ Active(e)
      BY <2>0, <2>1 DEF Active, TypeOK
    <3>2. CASE \A d \in Cmd : ~Active(d)
      BY <3>1, <3>2 DEF TypeOK
    <3>3. CASE \E d \in Cmd : Active(d)
      <4>1. calm' = {d \in calm : ~Active(d)}
        BY <1>2, <3>3 DEF Begin
      <4> QED BY <2>0, <3>1, <4>1
    <3> QED BY <3>2, <3>3
  <2> QED BY <2>1, <2>2, NoProgress DEF Active
<1>3. ASSUME UNCHANGED <<file, linked, pc, mem, calm>> PROVE Alone'
  BY <1>3 DEF Alone, Active, Saved
<1>4. ASSUME NEW c \in Cmd, ServerStep(c) \/ Redirect(c) PROVE Alone'
  BY <1>3, <1>4 DEF ServerStep, Redirect
<1>5. ASSUME Tick \/ UNCHANGED vars PROVE Alone'
  BY <1>3, <1>5 DEF Tick, vars
<1> QED BY <1>1, <1>2, <1>4, <1>5 DEF Next

\* LoginInv is an invariant.
LEMMA LoginInvHolds == Spec => [](TypeOK /\ LoginInv)
<1>1. Init => LoginInv
  BY LoginAssumption DEF Init, LoginInv, RefreshTokenKept, OnItsWay, NoGrantYet, Alone, Nothing, Name
<1>2. TypeOK /\ LoginInv /\ [Next]_vars => LoginInv'
  BY TypeStep, RefreshStep, GrantStep, AloneStep DEF LoginInv, RefreshInv
<1> QED BY <1>1, <1>2, TypeInit, TypeStep, PTL DEF Spec

\* LoginIsSaved: a process that ran on its own and is logged in has left its
\* tokens in the files.
THEOREM LoginsAreSaved == Spec => []LoginIsSaved
<1>1. TypeOK /\ LoginInv => LoginIsSaved
  BY DEF LoginInv, Alone, LoginIsSaved, Active
<1> QED BY <1>1, LoginInvHolds, PTL

\* Only the end of _delete_auth_files asks to try again.
LEMMA WhoAsks ==
  ASSUME TypeOK, NEW c \in Cmd, Begin(c) \/ CmdStep(c) \/ Metadata(c) \/ Fault(c),
         result[c] = "none", result'[c] = "AuthErrorAgain"
  PROVE  FindAccess(c) \/ UnlinkAccess(c)
<1> USE DEF Goto, Raise, TypeOK
<1>1. CASE Begin(c) \/ Load(c) \/ StartServer(c) \/ CreateLoginUrl(c) \/ OpenBrowser(c)
  BY <1>1 DEF Begin, Load, StartServer, CreateLoginUrl, OpenBrowser
<1>2. CASE BrowserFailed(c) \/ GotCode(c) \/ ShutDown(c) \/ GetAccessToken(c)
  BY <1>2 DEF BrowserFailed, GotCode, ShutDown, GetAccessToken
<1>3. CASE OpenAccess(c) \/ OpenRefresh(c) \/ WriteAccess(c) \/ WriteRefresh(c)
  BY <1>3 DEF OpenAccess, OpenRefresh, WriteAccess, WriteRefresh, Truncate, Flush
<1>4. CASE Validate(c) \/ Refresh(c) \/ Reload(c) \/ Post(c) \/ Metadata(c) \/ Fault(c)
  BY <1>4 DEF Validate, Refresh, Reload, Post, Metadata, Fault
<1>5. CASE FindRefresh(c) \/ UnlinkRefresh(c)
  BY <1>5 DEF FindRefresh, Find, UnlinkRefresh, Unlink, AfterRefreshFile
<1> QED BY <1>1, <1>2, <1>3, <1>4, <1>5 DEF CmdStep

\* The results of the other processes do not change.
LEMMA OwnResult ==
  ASSUME TypeOK, [Next]_vars, NEW c \in Cmd, result'[c] # result[c]
  PROVE  Begin(c) \/ CmdStep(c) \/ Metadata(c) \/ Fault(c)
<1>1. ASSUME NEW d \in Cmd, d # c, Begin(d) \/ CmdStep(d) \/ Metadata(d) \/ Fault(d)
      PROVE  FALSE
  BY <1>1, CmdMoves
<1>2. ~Tick /\ ~UNCHANGED vars /\ \A d \in Cmd : ~ServerStep(d) /\ ~Redirect(d)
  BY DEF Tick, vars, ServerStep, Redirect
<1> QED BY <1>1, <1>2 DEF Next

\* TryAgainStartsOver: a process that ran on its own and asks to try again has
\* removed both files.
THEOREM TryAgainMeansIt == Spec => TryAgainStartsOver
<1> DEFINE A == \A c \in calm : result[c] = "none" /\ result'[c] = "AuthErrorAgain" =>
                  \A n \in Name : file'[n].is = "absent"
<1>1. TypeOK /\ LoginInv /\ [Next]_vars => [A]_vars
  <2> SUFFICES ASSUME TypeOK, LoginInv, [Next]_vars, NEW c \in calm,
                      result[c] = "none", result'[c] = "AuthErrorAgain"
               PROVE  \A n \in Name : file'[n].is = "absent"
    OBVIOUS
  <2>1. c \in Cmd
    BY DEF TypeOK
  <2>2. FindAccess(c) \/ UnlinkAccess(c)
    BY <2>1, OwnResult, WhoAsks
  <2>3. file["refresh"].is = "absent"
    BY <2>2 DEF FindAccess, UnlinkAccess, LoginInv, Alone, Active
  <2>4. CASE FindAccess(c)
    BY <2>1, <2>3, <2>4 DEF FindAccess, Find, Goto, TypeOK, files, Name
  <2>5. CASE UnlinkAccess(c)
    <3>1. file' = [file EXCEPT !["access"] = Nothing("absent")]
      BY <2>1, <2>5 DEF UnlinkAccess, Unlink, Raise, TypeOK
    <3> QED BY <2>3, <3>1 DEF TypeOK, Name, Nothing
  <2> QED BY <2>2, <2>4, <2>5
<1> QED BY <1>1, LoginInvHolds, PTL DEF Spec, TryAgainStartsOver

\* A process that is logging in leaves that state with its server down, unless it
\* is interrupted or raises RuntimeError; the other steps do not start a server.
LEMMA ServerMoves ==
  ASSUME TypeOK, NoServerLeft, NotStarted, NEW c \in Cmd,
         Begin(c) \/ CmdStep(c) \/ Metadata(c) \/ Fault(c)
  PROVE  /\ pc'[c] \notin LoggingIn /\ ~LeftUp(c)' => srv'[c] \in {"none", "down"}
         /\ pc'[c] \in {"new", "load", "serve"} => srv'[c] = "none"
         /\ \A d \in Cmd \ {c} : srv'[d] = srv[d]
<1> USE DEF Goto, Raise, TypeOK, LoggingIn, LeftUp, NoServerLeft, NotStarted, thread
<1>1. CASE Begin(c)
  BY <1>1 DEF Begin
<1>2. CASE Load(c)
  BY <1>2 DEF Load
<1>3. CASE StartServer(c) \/ CreateLoginUrl(c)
  BY <1>3 DEF StartServer, CreateLoginUrl
<1>4. CASE OpenBrowser(c)
  BY <1>4 DEF OpenBrowser
<1>5. CASE BrowserFailed(c) \/ GotCode(c) \/ ShutDown(c)
  BY <1>5 DEF BrowserFailed, GotCode, ShutDown
<1>6. CASE GetAccessToken(c)
  BY <1>6 DEF GetAccessToken
<1>7. CASE OpenAccess(c) \/ OpenRefresh(c)
  BY <1>7 DEF OpenAccess, OpenRefresh, Truncate
<1>8. CASE WriteAccess(c) \/ WriteRefresh(c)
  BY <1>8 DEF WriteAccess, WriteRefresh, Flush, AfterAccess
<1>9. CASE Validate(c) \/ Refresh(c)
  BY <1>9 DEF Validate, Refresh
<1>10. CASE Reload(c)
  BY <1>10 DEF Reload
<1>11. CASE Post(c)
  BY <1>11 DEF Post
<1>12. CASE FindRefresh(c) \/ FindAccess(c)
  BY <1>12 DEF FindRefresh, FindAccess, Find, AfterRefreshFile
<1>13. CASE UnlinkRefresh(c) \/ UnlinkAccess(c)
  BY <1>13 DEF UnlinkRefresh, UnlinkAccess, Unlink, AfterRefreshFile
<1>14. CASE Metadata(c)
  BY <1>14 DEF Metadata
<1>15. CASE Fault(c)
  BY <1>15 DEF Fault, Active
<1> QED BY <1>1, <1>2, <1>3, <1>4, <1>5, <1>6, <1>7, <1>8, <1>9, <1>10, <1>11,
           <1>12, <1>13, <1>14, <1>15 DEF CmdStep

\* The server thread does not outlive the login it belongs to, for any number of
\* processes and faults (wait_for_login, open_browser).
THEOREM ServerDoesNotOutliveLogin == Spec => []NoServerLeft
<1>1. Init => NoServerLeft /\ NotStarted
  BY DEF Init, NoServerLeft, NotStarted
<1>2. TypeOK /\ NoServerLeft /\ NotStarted /\ [Next]_vars => NoServerLeft' /\ NotStarted'
  <2> SUFFICES ASSUME TypeOK, NoServerLeft, NotStarted, [Next]_vars
               PROVE  NoServerLeft' /\ NotStarted'
    OBVIOUS
  <2>1. ASSUME NEW c \in Cmd, Begin(c) \/ CmdStep(c) \/ Metadata(c) \/ Fault(c)
        PROVE  NoServerLeft' /\ NotStarted'
    BY <2>1, CmdMoves, ServerMoves DEF NoServerLeft, NotStarted, LeftUp
  <2>2. ASSUME NEW c \in Cmd, ServerStep(c) PROVE NoServerLeft' /\ NotStarted'
    BY <2>2 DEF ServerStep, NoServerLeft, NotStarted, LeftUp, TypeOK, LoggingIn
  <2>3. ASSUME NEW c \in Cmd, Redirect(c) PROVE NoServerLeft' /\ NotStarted'
    BY <2>3 DEF Redirect, NoServerLeft, NotStarted, LeftUp
  <2>4. CASE Tick \/ UNCHANGED vars
    BY <2>4 DEF Tick, vars, thread, NoServerLeft, NotStarted, LeftUp
  <2> QED BY <2>1, <2>2, <2>3, <2>4 DEF Next
<1> QED BY <1>1, <1>2, LoginTypeCorrect, PTL DEF Spec
=============================================================================
