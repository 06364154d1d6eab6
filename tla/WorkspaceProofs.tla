-------------------------- MODULE WorkspaceProofs --------------------------
(***************************************************************************)
(* The remote config names a workspace and its machine: proofs for any      *)
(* processes, any number of moves and kills.                                *)
(***************************************************************************)
EXTENDS Workspace, TLAPS

(***************************************************************************)
(* The inductive invariants                                                *)
(***************************************************************************)

\* A workspace is restored as often as it was stowed.
MovesBounded ==
  \A w \in Id : gen[w] <= freezes /\ (state[w] = "frozen" => gen[w] < freezes)

\* Which commands get where.
InitPc == {"user", "alloc", "setup", "deps", "info", "ports"}
RunPc  == {"exec", "ask", "unfreeze"}
SavePc == {"load", "open", "write", "client"}
KindOfPc ==
  \A c \in Cmd : /\ pc[c] \in InitPc => kind[c] = "init"
                 /\ pc[c] \in RunPc => kind[c] = "run"
                 /\ pc[c] \in SavePc => kind[c] \in {"init", "run"}
                 /\ pc[c] = "wait" => kind[c] = "subscribe"

\* Unless an init and a run have overlapped: what an init is about to save pairs
\* its own workspace with its address, and the runs that are about to save all
\* restored one workspace, the one that the config names when it can be read.
Saving(c, w) ==
  /\ pc[c] = "load" => got[c].of = w
  /\ pc[c] \in {"open", "write"} => mem[c].ws = w /\ mem[c].addr.of = w
Apart ==
  \A c, d \in Cmd : ~(Active(c) /\ kind[c] = "init" /\ Active(d) /\ kind[d] = "run")
Agree(w) ==
  /\ file.is = "doc" => file.ws = w
  /\ \A c \in Cmd : kind[c] = "run" => Saving(c, w)
PairInv ==
  /\ \A c \in Cmd : kind[c] = "init" => Saving(c, c)
  /\ ~mixed => Apart /\ \E w \in Id : Agree(w)

\* What is about to be written is a config.
WritesDoc == \A c \in Cmd : pc[c] \in {"open", "write"} => mem[c].is = "doc"

\* A process that no other overlaps: what it has done so far still holds.
Alone ==
  \A c \in calm : /\ pc[c] # "new"
                  /\ Active(c) => \A d \in Cmd : Active(d) => d = c
InitSoFar(c) ==
  /\ pc[c] \in {"load", "open", "write"} => got[c] = Where(c)
  /\ pc[c] \in {"open", "write"} => mem[c] = Named(c, got[c])
  /\ pc[c] = "write" => file.is = "empty"
  /\ pc[c] \in {"client", "setup", "deps", "info", "ports"} => file = Named(c, Where(c))
  /\ pc[c] \in {"setup", "deps"} => mem[c] = file
  /\ pc[c] \in {"info", "ports"} => state[c] \in {"running", "frozen"}
SoFar == \A c \in calm : kind[c] = "init" => InitSoFar(c)

WsInv == TypeOK /\ MovesBounded

LEMMA DocTypes ==
  /\ Nowhere \in Addr
  /\ \A k \in {"absent", "empty", "garbled"} : Nothing(k) \in Doc
  /\ \A w \in Id, a \in Addr : Named(w, a) \in Doc
<1>1. Nowhere \in Addr
  BY WorkspaceAssumption DEF Nowhere, Addr, Id
<1> QED BY <1>1 DEF Nothing, Named, Doc, Id

LEMMA WhereType == ASSUME WsInv, NEW w \in Id PROVE Where(w) \in Addr
BY DEF WsInv, TypeOK, Where, Addr

\* Types and the bound on moves are inductive.
LEMMA TypeStep == WsInv /\ [Next]_vars => WsInv'
<1> SUFFICES ASSUME WsInv, [Next]_vars PROVE WsInv'
  OBVIOUS
<1> USE WorkspaceAssumption DEF WsInv, TypeOK, Goto, Return, server, local, hist, PcState,
                                Errors, Results
<1>0. Cmd \subseteq Id
  BY DEF Id
<1>1. ASSUME NEW w \in Id, Freeze(w) PROVE WsInv'
  BY <1>1 DEF Freeze, MovesBounded
<1>2. CASE Pay
  BY <1>2 DEF Pay, MovesBounded
<1>3. ASSUME NEW c \in Cmd, Kill(c) PROVE WsInv'
  BY <1>3 DEF Kill, MovesBounded
<1>4. ASSUME NEW c \in Cmd, BeginInit(c) \/ Subscribe(c) PROVE WsInv'
  <2>1. calm' \in SUBSET Cmd /\ mixed' \in BOOLEAN
    BY <1>4 DEF BeginInit, Subscribe, Overlaps
  <2>2. pc' \in [Cmd -> PcState] /\ result' \in [Cmd -> Results]
    BY <1>4 DEF BeginInit, Subscribe
  <2>3. UNCHANGED <<file, server, user, fwd, kind, local>>
    BY <1>4 DEF BeginInit, Subscribe
  <2> QED BY <2>1, <2>2, <2>3 DEF MovesBounded
<1>5. ASSUME NEW c \in Cmd, BeginRun(c) PROVE WsInv'
  <2>1. file.addr \in Addr
    BY DEF Doc
  <2> QED BY <1>5, <2>1 DEF BeginRun, NoConfig, Overlaps, MovesBounded
<1>6. ASSUME NEW c \in Cmd, Stop(c) PROVE WsInv'
  <2>1. file.ws \in Id
    BY DEF Doc
  <2> QED BY <1>6, <2>1 DEF Stop, NoConfig, Overlaps, MovesBounded
<1>7. ASSUME NEW c \in Cmd, Unsubscribe(c) PROVE WsInv'
  BY <1>7 DEF Unsubscribe, Overlaps, MovesBounded
<1>8. ASSUME NEW c \in Cmd, CreateUser(c) \/ GetInfo(c) PROVE WsInv'
  <2>1. pc' \in [Cmd -> PcState] /\ result' \in [Cmd -> Results]
    BY <1>8 DEF CreateUser, GetInfo
  <2>2. user' \in BOOLEAN /\ UNCHANGED <<file, server, fwd, kind, local, hist>>
    BY <1>8 DEF CreateUser, GetInfo
  <2> QED BY <2>1, <2>2 DEF MovesBounded
<1>9. ASSUME NEW c \in Cmd, Allocate(c) PROVE WsInv'
  <2>1. Where(c) \in Addr
    BY <1>0, WhereType
  <2> QED BY <1>0, <1>9, <2>1 DEF Allocate, MovesBounded
<1>10. ASSUME NEW c \in Cmd, Load(c) PROVE WsInv'
  <2>1. Changed(c) \in Doc
    BY <1>0, DocTypes DEF Changed, Doc
  <2> QED BY <1>10, <2>1 DEF Load, NoConfig, MovesBounded
<1>11. ASSUME NEW c \in Cmd, Open(c) PROVE WsInv'
  BY <1>11, DocTypes DEF Open, MovesBounded
<1>12. ASSUME NEW c \in Cmd, Write(c) PROVE WsInv'
  BY <1>12, DocTypes DEF Write, AfterWrite, MovesBounded
<1>13. ASSUME NEW c \in Cmd, MakeClient(c) PROVE WsInv'
  BY <1>13 DEF MakeClient, NoConfig, MovesBounded
<1>14. ASSUME NEW c \in Cmd, StartContainer(c) \/ InstallDeps(c) PROVE WsInv'
  <2>1. mem[c].ws \in Id
    BY DEF Doc
  <2> QED BY <1>14, <2>1 DEF StartContainer, InstallDeps, Setup, MovesBounded
<1>15. ASSUME NEW c \in Cmd, OpenPorts(c) PROVE WsInv'
  BY <1>15 DEF OpenPorts, MovesBounded
<1>16. ASSUME NEW c \in Cmd, Exec(c) \/ Ask(c) PROVE WsInv'
  BY <1>16 DEF Exec, Ask, NoConfig, MovesBounded
<1>17. ASSUME NEW c \in Cmd, Unfreeze(c) PROVE WsInv'
  <2>1. file.ws \in Id
    BY DEF Doc
  <2>2. Where(file.ws) \in Addr
    BY <2>1, WhereType
  <2>a. pc' \in [Cmd -> PcState] /\ result' \in [Cmd -> Results]
    BY <1>17 DEF Unfreeze, NoConfig
  <2>b. UNCHANGED <<file, freezes, faults, paid, user, fwd, kind, at, mem, polls, hist>>
    BY <1>17 DEF Unfreeze
  <2>3. CASE UNCHANGED <<state, gen>>
    <3>1. got' = got \/ got' = [got EXCEPT ![c] = Where(file.ws)]
      BY <1>17, <2>1, <2>3 DEF Unfreeze, Where
    <3> QED BY <2>a, <2>b, <2>2, <2>3, <3>1 DEF MovesBounded
  <2>4. CASE /\ state[file.ws] = "frozen" /\ gen' = [gen EXCEPT ![file.ws] = @ + 1]
             /\ state' = [state EXCEPT ![file.ws] = "running"]
    <3>1. gen[file.ws] + 1 \in 0..MaxFreezes
      BY <2>1, <2>4 DEF MovesBounded
    <3>2. [of |-> file.ws, gen |-> gen'[file.ws]] \in Addr
      BY <2>1, <2>4, <3>1 DEF Addr
    <3>3. got' \in [Cmd -> Addr]
      BY <1>17, <3>2 DEF Unfreeze
    <3> QED BY <2>a, <2>b, <2>1, <2>4, <3>1, <3>3 DEF MovesBounded
  <2> QED BY <1>17, <2>3, <2>4 DEF Unfreeze, Restored
<1>18. ASSUME NEW c \in Cmd, CheckSubscription(c) PROVE WsInv'
  BY <1>18 DEF CheckSubscription, MovesBounded
<1>19. CASE UNCHANGED vars
  BY <1>19 DEF vars, MovesBounded
<1> QED
  BY <1>1, <1>2, <1>3, <1>4, <1>5, <1>6, <1>7, <1>8, <1>9, <1>10, <1>11, <1>12, <1>13,
     <1>14, <1>15, <1>16, <1>17, <1>18, <1>19 DEF Next, Begin, Step

LEMMA TypeInvariant == Spec => []WsInv
<1>1. Init => WsInv
  <2> SUFFICES ASSUME Init PROVE WsInv
    OBVIOUS
  <2>1. Nothing("absent") \in Doc /\ Named("old", Nowhere) \in Doc
    BY DocTypes DEF Id
  <2>2. file = Nothing("absent") \/ file = Named("old", Nowhere)
    BY DEF Init
  <2>3. file \in Doc /\ fwd \in Doc
    BY <2>1, <2>2 DEF Init
  <2>4. user \in BOOLEAN /\ paid \in BOOLEAN /\ mixed \in BOOLEAN
    BY DEF Init
  <2>5. /\ state \in [Id -> {"none", "running"}]
        /\ gen \in [Id -> 0..MaxFreezes] /\ freezes = 0 /\ \A w \in Id : gen[w] = 0
    BY WorkspaceAssumption DEF Init
  <2>6. /\ kind \in [Cmd -> Kinds] /\ pc \in [Cmd -> PcState] /\ result \in [Cmd -> Results]
        /\ polls \in [Cmd -> 0..Polls] /\ calm \in SUBSET Cmd
        /\ freezes \in 0..MaxFreezes /\ faults \in 0..MaxFaults
    BY WorkspaceAssumption DEF Init, PcState, Results
  <2>7. at \in [Cmd -> Addr] /\ got \in [Cmd -> Addr] /\ mem \in [Cmd -> Doc]
    BY <2>1, DocTypes DEF Init
  <2>8. MovesBounded
    BY <2>5 DEF MovesBounded
  <2>9. state \in [Id -> {"none", "allocated", "started", "running", "frozen", "stopped"}]
    BY <2>5
  <2> QED BY <2>3, <2>4, <2>5, <2>6, <2>7, <2>8, <2>9 DEF WsInv, TypeOK
<1> QED BY <1>1, TypeStep, PTL DEF Spec

\* The variables keep their types, for any processes and bounds.
THEOREM WorkspaceTypeCorrect == Spec => []TypeOK
<1>1. WsInv => TypeOK
  BY DEF WsInv
<1> QED BY <1>1, TypeInvariant, PTL

(***************************************************************************)
(* Who does what                                                           *)
(***************************************************************************)

Moves(c) == Begin(c) \/ Step(c) \/ Kill(c)
World == (\E w \in Id : Freeze(w)) \/ Pay

\* A step of a process leaves the others where they are, and no step changes a kind.
LEMMA OthersWait ==
  ASSUME WsInv, NEW c \in Cmd, Moves(c)
  PROVE  /\ kind' = kind
         /\ \A d \in Cmd \ {c} : pc'[d] = pc[d] /\ got'[d] = got[d] /\ mem'[d] = mem[d]
<1> USE DEF WsInv, TypeOK, Goto, Return, server, local, hist
<1>1. CASE Begin(c)
  BY <1>1 DEF Begin, BeginInit, BeginRun, Stop, Subscribe, Unsubscribe, NoConfig
<1>2. CASE CreateUser(c) \/ Allocate(c) \/ Load(c)
  BY <1>2 DEF CreateUser, Allocate, Load, NoConfig
<1>3. CASE Open(c) \/ Write(c) \/ MakeClient(c)
  BY <1>3 DEF Open, Write, AfterWrite, MakeClient, NoConfig
<1>4. CASE StartContainer(c) \/ InstallDeps(c) \/ GetInfo(c) \/ OpenPorts(c)
  BY <1>4 DEF StartContainer, InstallDeps, Setup, GetInfo, OpenPorts
<1>5. CASE Exec(c) \/ Ask(c) \/ CheckSubscription(c) \/ Kill(c)
  BY <1>5 DEF Exec, Ask, NoConfig, CheckSubscription, Kill
<1>6. CASE Unfreeze(c)
  BY <1>6 DEF Unfreeze, NoConfig
<1> QED BY <1>1, <1>2, <1>3, <1>4, <1>5, <1>6 DEF Moves, Step

\* Where a step takes a process: to the next place of its command, or to its end.
LEMMA WhereTo ==
  ASSUME WsInv, KindOfPc, NEW c \in Cmd, Moves(c)
  PROVE  \/ pc'[c] = "done" \/ (pc'[c] = "wait" /\ kind[c] = "subscribe")
         \/ BeginInit(c) /\ pc'[c] = "user" /\ kind[c] = "init"
         \/ BeginRun(c) /\ pc'[c] = "client" /\ kind[c] = "run"
         \/ CreateUser(c) /\ pc'[c] = "alloc" /\ kind[c] = "init"
         \/ Allocate(c) /\ pc'[c] = "load" /\ kind[c] = "init"
         \/ Load(c) /\ pc'[c] = "open" /\ kind[c] \in {"init", "run"}
         \/ Open(c) /\ pc'[c] = "write" /\ kind[c] \in {"init", "run"}
         \/ Write(c) /\ pc'[c] = "client" /\ kind[c] = "init"
         \/ MakeClient(c) /\ pc'[c] = "setup" /\ kind[c] = "init"
         \/ MakeClient(c) /\ pc'[c] = "exec" /\ kind[c] = "run"
         \/ StartContainer(c) /\ pc'[c] = "deps" /\ kind[c] = "init"
         \/ InstallDeps(c) /\ pc'[c] = "info" /\ kind[c] = "init"
         \/ GetInfo(c) /\ pc'[c] = "ports" /\ kind[c] = "init"
         \/ Exec(c) /\ pc'[c] = "ask" /\ kind[c] = "run"
         \/ Ask(c) /\ pc'[c] = "unfreeze" /\ kind[c] = "run"
         \/ Unfreeze(c) /\ pc'[c] = "load" /\ kind[c] = "run"
<1> USE DEF WsInv, TypeOK, Goto, Return, KindOfPc, InitPc, RunPc, SavePc
<1>1. CASE Begin(c)
  BY <1>1 DEF Begin, BeginInit, BeginRun, Stop, Subscribe, Unsubscribe, NoConfig
<1>2. CASE CreateUser(c) \/ Allocate(c) \/ Load(c)
  BY <1>2 DEF CreateUser, Allocate, Load, NoConfig
<1>3. CASE Open(c) \/ Write(c) \/ MakeClient(c)
  BY <1>3 DEF Open, Write, AfterWrite, MakeClient, NoConfig
<1>4. CASE StartContainer(c) \/ InstallDeps(c) \/ GetInfo(c) \/ OpenPorts(c)
  BY <1>4 DEF StartContainer, InstallDeps, Setup, GetInfo, OpenPorts
<1>5. CASE Exec(c) \/ Ask(c) \/ CheckSubscription(c) \/ Kill(c)
  BY <1>5 DEF Exec, Ask, NoConfig, CheckSubscription, Kill
<1>6. CASE Unfreeze(c)
  BY <1>6 DEF Unfreeze, NoConfig
<1> QED BY <1>1, <1>2, <1>3, <1>4, <1>5, <1>6 DEF Moves, Step

LEMMA WorldWaits ==
  ASSUME World \/ UNCHANGED vars
  PROVE  UNCHANGED <<file, gen, user, fwd, kind, pc, local, hist>>
BY DEF World, Freeze, Pay, vars, server

\* Every command is where its kind may be.
LEMMA KindStep == WsInv /\ KindOfPc /\ [Next]_vars => KindOfPc'
<1> SUFFICES ASSUME WsInv, KindOfPc, [Next]_vars PROVE KindOfPc'
  OBVIOUS
<1>1. ASSUME NEW c \in Cmd, Moves(c) PROVE KindOfPc'
  <2>1. kind' = kind /\ \A d \in Cmd \ {c} : pc'[d] = pc[d]
    BY <1>1, OthersWait
  <2>2. /\ pc'[c] \in InitPc => kind[c] = "init"
        /\ pc'[c] \in RunPc => kind[c] = "run"
        /\ pc'[c] \in SavePc => kind[c] \in {"init", "run"}
        /\ pc'[c] = "wait" => kind[c] = "subscribe"
    BY <1>1, WhereTo DEF InitPc, RunPc, SavePc
  <2> QED BY <2>1, <2>2 DEF KindOfPc
<1>2. CASE World \/ UNCHANGED vars
  BY <1>2, WorldWaits DEF KindOfPc
<1> QED BY <1>1, <1>2 DEF Next, Moves, World

\* Only saving changes the file, and only the beginning of a command the history.
LEMMA Beginning ==
  ASSUME NEW c \in Cmd, Begin(c)
  PROVE  pc[c] = "new" /\ Overlaps(c) /\ UNCHANGED <<file, gen, fwd, got, mem, faults>>
BY DEF Begin, BeginInit, BeginRun, Stop, Subscribe, Unsubscribe, server, local

LEMMA FileAndHistory ==
  ASSUME NEW c \in Cmd, Moves(c)
  PROVE  /\ Open(c) \/ Write(c) \/ file' = file
         /\ Begin(c) \/ (Active(c) /\ calm' = calm /\ mixed' = mixed)
         /\ Allocate(c) \/ Unfreeze(c) \/ got' = got
         /\ Load(c) \/ MakeClient(c) \/ mem' = mem
         /\ fwd' = fwd \/ (OpenPorts(c) /\ fwd' = file)
<1> USE DEF server, local, hist, Active
<1>1. CASE Begin(c)
  BY <1>1, Beginning
<1>2. CASE CreateUser(c) \/ Allocate(c) \/ Load(c)
  BY <1>2 DEF CreateUser, Allocate, Load
<1>3. CASE Open(c) \/ Write(c) \/ MakeClient(c)
  BY <1>3 DEF Open, Write, MakeClient
<1>4. CASE StartContainer(c) \/ InstallDeps(c) \/ GetInfo(c) \/ OpenPorts(c)
  BY <1>4 DEF StartContainer, InstallDeps, Setup, GetInfo, OpenPorts
<1>5. CASE Exec(c) \/ Ask(c) \/ CheckSubscription(c) \/ Kill(c)
  BY <1>5 DEF Exec, Ask, CheckSubscription, Kill
<1>6. CASE Unfreeze(c)
  BY <1>6 DEF Unfreeze
<1> QED BY <1>1, <1>2, <1>3, <1>4, <1>5, <1>6 DEF Moves, Step

(***************************************************************************)
(* PairsMatch                                                              *)
(***************************************************************************)

\* A step after which the process is not about to save, and that writes nothing.
LEMMA QuietPair ==
  ASSUME WsInv, PairInv, PairsMatch, NEW c \in Cmd, Moves(c), file' = file,
         pc'[c] \notin {"load", "open", "write"}
  PROVE  PairInv' /\ PairsMatch'
<1>1. /\ kind' = kind
      /\ \A d \in Cmd \ {c} : pc'[d] = pc[d] /\ got'[d] = got[d] /\ mem'[d] = mem[d]
  BY OthersWait
<1>2. ASSUME NEW w PROVE \A d \in Cmd : Saving(d, w) => Saving(d, w)'
  BY <1>1 DEF Saving
<1>3. ~mixed' => ~mixed
  BY FileAndHistory, Beginning DEF Overlaps
<1>3a. fwd' = fwd \/ fwd' = file
  BY FileAndHistory
<1>4. ASSUME ~mixed' PROVE Apart'
  <2>1. CASE Begin(c)
    <3>1. \A d \in Cmd : Active(d) => {kind[c], kind[d]} # {"init", "run"}
      BY <1>4, <2>1, Beginning DEF Overlaps
    <3>2. \A d \in Cmd \ {c} : Active(d)' => Active(d)
      BY <1>1 DEF Active
    <3> QED BY <1>1, <1>3, <1>4, <3>1, <3>2 DEF Apart, PairInv
  <2>2. CASE ~Begin(c)
    <3>1. \A d \in Cmd : Active(d)' => Active(d)
      BY <1>1, <2>2, FileAndHistory DEF Active
    <3> QED BY <1>1, <1>3, <1>4, <3>1 DEF Apart, PairInv
  <2> QED BY <2>1, <2>2
<1>5. ASSUME ~mixed' PROVE \E w \in Id : Agree(w)'
  <2>1. PICK w \in Id : Agree(w)
    BY <1>3, <1>5 DEF PairInv
  <2>2. Agree(w)'
    BY <1>1, <1>2, <2>1 DEF Agree
  <2> QED BY <2>2
<1>6. \A d \in Cmd : kind'[d] = "init" => Saving(d, d)'
  BY <1>1, <1>2 DEF PairInv
<1>7. PairsMatch'
  BY <1>3, <1>3a DEF PairsMatch
<1> QED BY <1>4, <1>5, <1>6, <1>7 DEF PairInv

\* A step of a process that has begun, that leaves it about to save.
LEMMA SavingPair ==
  ASSUME WsInv, PairInv, NEW c \in Cmd, Moves(c), ~Begin(c),
         NEW w0 \in Id, kind[c] = "init" => w0 = c, Saving(c, w0)',
         file'.is # "doc" \/ file' = file,
         kind[c] = "run" => \A w \in Id : Agree(w) => w = w0
  PROVE  PairInv'
<1>1. /\ kind' = kind
      /\ \A d \in Cmd \ {c} : pc'[d] = pc[d] /\ got'[d] = got[d] /\ mem'[d] = mem[d]
  BY OthersWait
<1>2. ASSUME NEW w PROVE \A d \in Cmd \ {c} : Saving(d, w) => Saving(d, w)'
  BY <1>1 DEF Saving
<1>3. mixed' = mixed /\ Active(c)
  BY FileAndHistory
<1>4. ASSUME ~mixed' PROVE Apart'
  <2>1. \A d \in Cmd : Active(d)' => Active(d)
    BY <1>1, <1>3 DEF Active
  <2> QED BY <1>1, <1>3, <1>4, <2>1 DEF Apart, PairInv
<1>5. ASSUME ~mixed' PROVE \E w \in Id : Agree(w)'
  <2>1. PICK w \in Id : Agree(w)
    BY <1>3, <1>5 DEF PairInv
  <2>2. kind[c] = "run" => Saving(c, w)'
    BY <2>1
  <2>3. file'.is = "doc" => file'.ws = w
    BY <2>1 DEF Agree
  <2>4. \A d \in Cmd : kind'[d] = "run" => Saving(d, w)'
    BY <1>1, <1>2, <2>1, <2>2 DEF Agree
  <2> QED BY <2>3, <2>4 DEF Agree
<1>6. \A d \in Cmd : kind'[d] = "init" => Saving(d, d)'
  BY <1>1, <1>2 DEF PairInv
<1> QED BY <1>4, <1>5, <1>6 DEF PairInv

\* Closing the file: an init names its workspace, for no run is at work; a run
\* names the workspace that all of them restored.
LEMMA WritePair ==
  ASSUME WsInv, KindOfPc, PairInv, PairsMatch, NEW c \in Cmd, Write(c)
  PROVE  PairInv' /\ PairsMatch'
<1>1. /\ pc[c] = "write" /\ pc'[c] \in {"client", "done"}
      /\ kind' = kind /\ got' = got /\ mem' = mem /\ mixed' = mixed /\ fwd' = fwd
      /\ \A d \in Cmd \ {c} : pc'[d] = pc[d]
      /\ file' = mem[c] \/ file'.is = "garbled"
  BY DEF Write, AfterWrite, Goto, Return, Nothing, WsInv, TypeOK, local, hist
<1>2. ASSUME NEW w PROVE \A d \in Cmd : Saving(d, w) => Saving(d, w)'
  BY <1>1 DEF Saving
<1>3. Active(c) /\ \A d \in Cmd : Active(d)' => Active(d)
  BY <1>1 DEF Active
<1>4. ~mixed => Apart'
  BY <1>1, <1>3 DEF Apart, PairInv
<1>5. \A d \in Cmd : kind'[d] = "init" => Saving(d, d)'
  BY <1>1, <1>2 DEF PairInv
<1>6. CASE kind[c] = "init"
  <2>1. mem[c].ws = c /\ mem[c].addr.of = c
    BY <1>1, <1>6 DEF PairInv, Saving
  <2>2. ~mixed => Agree(c)'
    <3>1. ASSUME ~mixed, NEW d \in Cmd, kind[d] = "run" PROVE Saving(d, c)'
      <4>1. ~Active(d)'
        BY <1>1, <1>3, <1>6, <3>1 DEF PairInv, Apart
      <4> QED BY <4>1 DEF Active, Saving
    <3> QED BY <1>1, <2>1, <3>1 DEF Agree
  <2>3. c \in Id
    BY DEF Id
  <2> QED BY <1>1, <1>4, <1>5, <2>1, <2>2, <2>3 DEF PairInv, PairsMatch
<1>7. CASE kind[c] = "run"
  <2>1. ASSUME ~mixed PROVE (\E w \in Id : Agree(w)') /\ PairsMatch'
    <3>1. PICK w \in Id : Agree(w)
      BY <2>1 DEF PairInv
    <3>2. mem[c].ws = w /\ mem[c].addr.of = w
      BY <1>1, <1>7, <3>1 DEF Agree, Saving
    <3>3. Agree(w)'
      BY <1>1, <1>2, <3>1, <3>2 DEF Agree
    <3> QED BY <1>1, <3>2, <3>3 DEF PairsMatch
  <2> QED BY <1>1, <1>4, <1>5, <2>1 DEF PairInv, PairsMatch
<1>8. kind[c] \in {"init", "run"}
  BY <1>1 DEF KindOfPc, SavePc
<1> QED BY <1>6, <1>7, <1>8

LEMMA PairStep == WsInv /\ KindOfPc /\ PairInv /\ PairsMatch /\ [Next]_vars => PairInv' /\ PairsMatch'
<1> SUFFICES ASSUME WsInv, KindOfPc, PairInv, PairsMatch, [Next]_vars
             PROVE  PairInv' /\ PairsMatch'
  OBVIOUS
<1>1. ASSUME NEW c \in Cmd, Moves(c) PROVE PairInv' /\ PairsMatch'
  <2>0. c \in Id /\ file.ws \in Id
    BY DEF Id, WsInv, TypeOK, Doc
  <2>1. CASE Write(c)
    BY <2>1, WritePair
  <2>2. CASE Allocate(c) /\ pc'[c] = "load" /\ kind[c] = "init"
    <3>1. /\ file' = file /\ hist' = hist /\ got'[c] = Where(c) /\ pc[c] = "alloc"
          /\ fwd' = fwd
      BY <2>2 DEF Allocate, Return, WsInv, TypeOK
    <3>2. Saving(c, c)'
      BY <2>2, <3>1 DEF Saving, Where
    <3>3. ~Begin(c)
      BY <3>1, Beginning
    <3> QED BY <1>1, <2>0, <2>2, <3>1, <3>2, <3>3, SavingPair DEF PairsMatch, hist
  <2>3. CASE Unfreeze(c) /\ pc'[c] = "load" /\ kind[c] = "run"
    <3>1. /\ file' = file /\ hist' = hist /\ got'[c].of = file.ws /\ file.is = "doc"
          /\ pc[c] = "unfreeze" /\ fwd' = fwd
      BY <2>3 DEF Unfreeze, NoConfig, Goto, Return, Where, WsInv, TypeOK
    <3>2. Saving(c, file.ws)' /\ \A w \in Id : Agree(w) => w = file.ws
      BY <2>3, <3>1 DEF Saving, Agree
    <3>3. ~Begin(c)
      BY <3>1, Beginning
    <3>4. PairInv'
      BY <1>1, <2>0, <2>3, <3>1, <3>2, <3>3, SavingPair
    <3> QED BY <3>1, <3>4 DEF PairsMatch, hist
  <2>4. CASE Load(c) /\ pc'[c] = "open"
    <3>1. /\ file' = file /\ hist' = hist /\ mem'[c] = Changed(c) /\ pc[c] = "load"
          /\ kind[c] = "init" \/ file.is = "doc"
          /\ fwd' = fwd
      BY <2>4 DEF Load, NoConfig, Goto, Return, WsInv, TypeOK
    <3>2. ~Begin(c)
      BY <3>1, Beginning
    <3>3. kind[c] \in {"init", "run"}
      BY <3>1 DEF KindOfPc, SavePc
    <3>4. CASE kind[c] = "init"
      <4>1. Saving(c, c)'
        BY <2>4, <3>1, <3>4 DEF PairInv, Saving, Changed, Named
      <4> QED BY <1>1, <2>0, <3>1, <3>2, <3>4, <4>1, SavingPair DEF PairsMatch, hist
    <3>5. CASE kind[c] = "run" /\ ~mixed
      <4>1. PICK w \in Id : Agree(w)
        BY <3>5 DEF PairInv
      <4>2. file.ws = w /\ got[c].of = w
        BY <3>1, <3>5, <4>1 DEF Agree, Saving
      <4>3. mem'[c].ws = w /\ mem'[c].addr.of = w
        BY <3>1, <3>5, <4>2 DEF Changed, WsInv, TypeOK, Doc
      <4>4. Saving(c, file.ws)' /\ \A v \in Id : Agree(v) => v = file.ws
        BY <2>4, <3>1, <3>5, <4>2, <4>3 DEF Saving, Agree
      <4>5. PairInv'
        BY <1>1, <2>0, <3>1, <3>2, <3>5, <4>4, SavingPair
      <4> QED BY <3>1, <4>5 DEF PairsMatch, hist
    <3>6. CASE kind[c] = "run" /\ mixed
      <4>1. mixed'
        BY <3>1, <3>6 DEF hist
      <4>2. \A d \in Cmd : kind'[d] = "init" => Saving(d, d)'
        BY <1>1, <3>6, OthersWait DEF PairInv, Saving
      <4> QED BY <4>1, <4>2 DEF PairInv, PairsMatch
    <3> QED BY <3>3, <3>4, <3>5, <3>6
  <2>5. CASE Open(c)
    <3>1. /\ file'.is = "empty" /\ hist' = hist /\ mem' = mem /\ pc[c] = "open" /\ pc'[c] = "write"
          /\ fwd' = fwd
      BY <2>5 DEF Open, Goto, Nothing, local, WsInv, TypeOK
    <3>2. ~Begin(c)
      BY <3>1, Beginning
    <3>3. kind[c] \in {"init", "run"}
      BY <3>1 DEF KindOfPc, SavePc
    <3>4. CASE kind[c] = "init"
      <4>1. Saving(c, c)'
        BY <3>1, <3>4 DEF PairInv, Saving
      <4> QED BY <1>1, <2>0, <3>1, <3>2, <3>4, <4>1, SavingPair DEF PairsMatch, hist
    <3>5. CASE kind[c] = "run" /\ ~mixed
      <4>1. mem[c].ws \in Id /\ \A w \in Id : Agree(w) => mem[c].ws = w /\ mem[c].addr.of = w
        BY <3>1, <3>5 DEF Agree, Saving, WsInv, TypeOK, Doc
      <4>2. Saving(c, mem[c].ws)'
        BY <3>1, <3>5, <4>1 DEF PairInv, Saving
      <4>3. PairInv'
        BY <1>1, <3>1, <3>2, <3>5, <4>1, <4>2, SavingPair
      <4> QED BY <3>1, <4>3 DEF PairsMatch, hist
    <3>6. CASE kind[c] = "run" /\ mixed
      <4>1. mixed'
        BY <3>1, <3>6 DEF hist
      <4>2. \A d \in Cmd : kind'[d] = "init" => Saving(d, d)'
        BY <1>1, <3>6, OthersWait DEF PairInv, Saving
      <4> QED BY <4>1, <4>2 DEF PairInv, PairsMatch
    <3> QED BY <3>3, <3>4, <3>5, <3>6
  <2>6. CASE pc'[c] \notin {"load", "open", "write"} /\ ~Write(c) /\ ~Open(c)
    BY <1>1, <2>6, FileAndHistory, QuietPair
  <2> QED BY <1>1, <2>1, <2>2, <2>3, <2>4, <2>5, <2>6, WhereTo
<1>2. CASE World \/ UNCHANGED vars
  <2>1. UNCHANGED <<file, fwd, kind, pc, got, mem, mixed>>
    BY <1>2, WorldWaits DEF local, hist
  <2>2. Apart' = Apart
    BY <2>1 DEF Apart, Active
  <2>3. \A w, c : Saving(c, w)' = Saving(c, w)
    BY <2>1 DEF Saving
  <2>4. \A w : Agree(w)' = Agree(w)
    BY <2>1, <2>3 DEF Agree
  <2> QED BY <2>1, <2>2, <2>3, <2>4 DEF PairInv, PairsMatch
<1> QED BY <1>1, <1>2 DEF Next, Moves, World

LEMMA PairInvariant == Spec => [](KindOfPc /\ PairInv /\ PairsMatch)
<1>1. Init => KindOfPc /\ PairInv /\ PairsMatch
  <2> SUFFICES ASSUME Init PROVE KindOfPc /\ PairInv /\ PairsMatch
    OBVIOUS
  <2>1. \A c \in Cmd : pc[c] = "new"
    BY DEF Init
  <2>2. /\ file.ws = "old" /\ file.addr.of = "old" /\ "old" \in Id
        /\ fwd.ws = "old" /\ fwd.addr.of = "old"
    BY DEF Init, Nothing, Named, Nowhere, Id
  <2>3. Agree("old") /\ Apart /\ \A c \in Cmd : Saving(c, c)
    BY <2>1, <2>2 DEF Agree, Saving, Apart, Active
  <2> QED BY <2>1, <2>2, <2>3 DEF KindOfPc, InitPc, RunPc, SavePc, PairInv, PairsMatch
<1> QED BY <1>1, KindStep, PairStep, TypeInvariant, PTL DEF Spec

\* For any processes: the config pairs no workspace with another's machine, unless
\* an init and a run overlap.
THEOREM ConfigPairsMatch == Spec => []PairsMatch
BY PairInvariant, PTL

(***************************************************************************)
(* Processes that nothing overlaps                                         *)
(***************************************************************************)

LEMMA AloneStep == WsInv /\ KindOfPc /\ Alone /\ [Next]_vars => Alone'
<1> SUFFICES ASSUME WsInv, KindOfPc, Alone, [Next]_vars PROVE Alone'
  OBVIOUS
<1>1. ASSUME NEW c \in Cmd, Moves(c) PROVE Alone'
  <2>1. pc'[c] # "new" /\ \A d \in Cmd \ {c} : pc'[d] = pc[d]
    BY <1>1, WhereTo, OthersWait
  <2>2. CASE Begin(c)
    <3>1. pc[c] = "new" /\ c \notin calm /\ Overlaps(c) /\ calm \subseteq Cmd
      BY <2>2, Beginning DEF Alone, WsInv, TypeOK
    <3>2. CASE \A d \in Cmd : ~Active(d)
      BY <2>1, <3>1, <3>2 DEF Overlaps, Alone, Active
    <3>3. CASE ~(\A d \in Cmd : ~Active(d))
      BY <2>1, <3>1, <3>3 DEF Overlaps, Alone, Active
    <3> QED BY <3>2, <3>3
  <2>3. CASE ~Begin(c)
    <3>1. Active(c) /\ calm' = calm /\ calm \subseteq Cmd
      BY <1>1, <2>3, FileAndHistory DEF WsInv, TypeOK
    <3> QED BY <2>1, <3>1 DEF Alone, Active
  <2> QED BY <2>2, <2>3
<1>2. CASE World \/ UNCHANGED vars
  BY <1>2, WorldWaits DEF Alone, Active, hist
<1> QED BY <1>1, <1>2 DEF Next, Moves, World

\* Where a process on its own has got to is not disturbed by another's step.
LEMMA OthersSoFar ==
  ASSUME WsInv, Alone, NEW c \in Cmd, Moves(c), NEW x \in calm', x # c
  PROVE  pc'[x] = pc[x] /\ ~Active(x) /\ x \in Cmd
<1>1. calm \subseteq Cmd
  BY DEF WsInv, TypeOK
<1>2. CASE Begin(c)
  <2>1. Overlaps(c)
    BY <1>2, Beginning
  <2> QED BY <1>1, <2>1, OthersWait DEF Overlaps
<1>3. CASE ~Begin(c)
  <2>1. Active(c) /\ calm' = calm
    BY <1>3, FileAndHistory
  <2> QED BY <1>1, <2>1, OthersWait DEF Alone
<1> QED BY <1>2, <1>3

\* The steps of an rx init on its own.
LEMMA InitSteps ==
  ASSUME WsInv, KindOfPc, NEW c \in Cmd, Moves(c), kind[c] = "init", InitSoFar(c)
  PROVE  InitSoFar(c)'
<1> USE DEF InitSoFar, Goto, Return, Where
<1>0. c \in Id
  BY DEF Id
<1>1. CASE pc'[c] \in {"done", "wait", "user", "alloc"}
  BY <1>1
<1>2. CASE Allocate(c) /\ pc'[c] = "load"
  <2>1. got'[c] = Where(c) /\ gen' = gen
    BY <1>2 DEF Allocate, WsInv, TypeOK
  <2> QED BY <1>2, <2>1
<1>3. CASE Load(c) /\ pc'[c] = "open"
  <2>1. /\ pc[c] = "load" /\ mem'[c] = Named(c, got[c])
        /\ got' = got /\ gen' = gen
    BY <1>3 DEF Load, NoConfig, Changed, server, WsInv, TypeOK
  <2> QED BY <1>3, <2>1 DEF Named
<1>4. CASE Open(c) /\ pc'[c] = "write"
  <2>1. /\ pc[c] = "open" /\ file'.is = "empty" /\ got' = got /\ mem' = mem /\ gen' = gen
    BY <1>4 DEF Open, Nothing, local, server
  <2> QED BY <1>4, <2>1 DEF Named
<1>5. CASE Write(c) /\ pc'[c] = "client"
  <2>1. /\ pc[c] = "write" /\ gen' = gen /\ file' = mem[c]
    BY <1>5 DEF Write, server
  <2> QED BY <1>5, <2>1 DEF Named
<1>6. CASE MakeClient(c) /\ pc'[c] = "setup"
  <2>1. /\ pc[c] = "client" /\ gen' = gen /\ file' = file /\ mem'[c] = file
    BY <1>6 DEF MakeClient, NoConfig, server, WsInv, TypeOK
  <2> QED BY <1>6, <2>1 DEF Named
<1>7. CASE StartContainer(c) /\ pc'[c] = "deps"
  <2>1. /\ pc[c] = "setup" /\ gen' = gen /\ file' = file /\ mem' = mem
    BY <1>7 DEF StartContainer, Setup, local
  <2> QED BY <1>7, <2>1 DEF Named
<1>8. CASE InstallDeps(c) /\ pc'[c] = "info"
  <2>1. /\ pc[c] = "deps" /\ gen' = gen /\ file' = file /\ mem' = mem
        /\ state' = [state EXCEPT ![mem[c].ws] = "running"]
    BY <1>8 DEF InstallDeps, Setup, local, WsInv, TypeOK
  <2>2. mem[c].ws = c
    BY <2>1 DEF Named
  <2>3. state'[c] = "running"
    BY <1>0, <2>1, <2>2 DEF WsInv, TypeOK
  <2> QED BY <1>8, <2>1, <2>3 DEF Named
<1>9. CASE GetInfo(c) /\ pc'[c] = "ports"
  <2>1. /\ pc[c] = "info" /\ gen' = gen /\ file' = file /\ state' = state
    BY <1>9 DEF GetInfo, server
  <2> QED BY <1>9, <2>1 DEF Named
<1> QED BY <1>1, <1>2, <1>3, <1>4, <1>5, <1>6, <1>7, <1>8, <1>9, WhereTo

LEMMA SoFarStep == WsInv /\ KindOfPc /\ Alone /\ SoFar /\ [Next]_vars => SoFar'
<1> SUFFICES ASSUME WsInv, KindOfPc, Alone, SoFar, [Next]_vars, NEW x \in calm'
             PROVE  kind'[x] = "init" => InitSoFar(x)'
  BY DEF SoFar
<1>1. ASSUME NEW c \in Cmd, Moves(c)
      PROVE  kind'[x] = "init" => InitSoFar(x)'
  <2>1. kind' = kind
    BY <1>1, OthersWait
  <2>2. CASE x # c
    <3>1. pc'[x] = pc[x] /\ ~Active(x)
      BY <1>1, <2>2, OthersSoFar
    <3> QED BY <3>1 DEF Active, InitSoFar
  <2>3. CASE x = c /\ ~Begin(c)
    <3>1. c \in calm
      BY <1>1, <2>3, FileAndHistory
    <3>2. kind[c] = "init" => InitSoFar(c)
      BY <3>1 DEF SoFar
    <3> QED BY <1>1, <2>1, <2>3, <3>2, InitSteps
  <2>4. CASE x = c /\ Begin(c)
    <3>1. pc[c] = "new"
      BY <2>4, Beginning
    <3>2. InitSoFar(c)
      BY <3>1 DEF InitSoFar
    <3> QED BY <1>1, <2>1, <2>4, <3>2, InitSteps
  <2> QED BY <2>2, <2>3, <2>4
<1>2. CASE World \/ UNCHANGED vars
  <2>1. UNCHANGED <<file, gen, kind, pc, got, mem, calm>>
    BY <1>2, WorldWaits DEF local, hist
  <2>2. \A w \in Id : state[w] \in {"running", "frozen"} => state'[w] \in {"running", "frozen"}
    BY <1>2 DEF World, Freeze, Pay, vars, server, WsInv, TypeOK
  <2>3. x \in Id
    BY <2>1 DEF Id, WsInv, TypeOK
  <2>4. kind[x] = "init" => InitSoFar(x)
    BY <2>1 DEF SoFar
  <2> QED BY <2>1, <2>2, <2>3, <2>4 DEF InitSoFar, Where, Named
<1> QED BY <1>1, <1>2 DEF Next, Moves, World

LEMMA CalmInvariant == Spec => [](KindOfPc /\ Alone /\ SoFar)
<1>1. Init => KindOfPc /\ Alone /\ SoFar
  BY DEF Init, KindOfPc, Alone, SoFar, InitPc, RunPc, SavePc
<1> QED BY <1>1, KindStep, AloneStep, SoFarStep, TypeInvariant, PTL DEF Spec

\* An init ends with 0 or PortError by opening ports.
LEMMA HowInitEnds ==
  ASSUME WsInv, KindOfPc, NEW c \in Cmd, Next, kind[c] = "init",
         Ends(c, "0") \/ Ends(c, "PortError")
  PROVE  OpenPorts(c)
<1> USE DEF Ends, Goto, Return, WsInv, TypeOK
<1>1. ASSUME NEW d \in Cmd, Moves(d) PROVE OpenPorts(c)
  <2>1. d = c
    BY <1>1, OthersWait
  <2>2. CASE Begin(c)
    BY <2>2 DEF Begin, BeginInit, BeginRun, Stop, Subscribe, Unsubscribe, NoConfig
  <2>3. CASE CreateUser(c) \/ Allocate(c) \/ Load(c)
    BY <2>3 DEF CreateUser, Allocate, Load, NoConfig
  <2>4. CASE Open(c) \/ Write(c) \/ MakeClient(c)
    BY <2>4 DEF Open, Write, AfterWrite, MakeClient, NoConfig
  <2>5. CASE StartContainer(c) \/ InstallDeps(c) \/ GetInfo(c)
    BY <2>5 DEF StartContainer, InstallDeps, Setup, GetInfo
  <2>6. CASE Exec(c) \/ Ask(c) \/ Unfreeze(c)
    BY <2>6 DEF Exec, Ask, Unfreeze, NoConfig, KindOfPc, RunPc
  <2>7. CASE CheckSubscription(c) \/ Kill(c)
    BY <2>7 DEF CheckSubscription, Kill, KindOfPc
  <2> QED BY <1>1, <2>1, <2>2, <2>3, <2>4, <2>5, <2>6, <2>7 DEF Moves, Step
<1>2. CASE World
  BY <1>2, WorldWaits
<1> QED BY <1>1, <1>2 DEF Next, Moves, World

\* For any processes: an rx init on its own that returns 0, or fails at a port, leaves a
\* config that names the workspace it allocated, where it is, with its dependencies
\* installed.
THEOREM InitLeavesItUsable == Spec => InitIsUsable
<1> DEFINE Usable == \A c \in calm' : kind[c] = "init" /\ (Ends(c, "0") \/ Ends(c, "PortError"))
        => file' = Named(c, Where(c)) /\ state'[c] \in {"running", "frozen"}
<1>1. ASSUME WsInv, WsInv', KindOfPc, SoFar, [Next]_vars PROVE [Usable]_vars
  <2> SUFFICES ASSUME NEW c \in calm', Next, kind[c] = "init",
                      Ends(c, "0") \/ Ends(c, "PortError")
               PROVE  file' = Named(c, Where(c)) /\ state'[c] \in {"running", "frozen"}
    BY <1>1
  <2>1. c \in Cmd
    BY <1>1 DEF WsInv, TypeOK
  <2>2. OpenPorts(c)
    BY <1>1, <2>1, HowInitEnds
  <2>3. pc[c] = "ports" /\ UNCHANGED <<file, state, gen, calm>>
    BY <2>2 DEF OpenPorts, server, hist
  <2>4. InitSoFar(c)
    BY <1>1, <2>3 DEF SoFar
  <2> QED BY <2>3, <2>4 DEF InitSoFar
<1> QED BY <1>1, TypeInvariant, CalmInvariant, PTL DEF Spec, InitIsUsable

\* That the config is empty only while it is written is inductive.
LEMMA EmptyStep ==
  WsInv /\ WritesDoc /\ EmptyOnlyWhileWritten /\ [Next]_vars
     => WritesDoc' /\ EmptyOnlyWhileWritten'
<1> SUFFICES ASSUME WsInv, WritesDoc, EmptyOnlyWhileWritten, [Next]_vars
             PROVE  WritesDoc' /\ EmptyOnlyWhileWritten'
  OBVIOUS
<1>1. ASSUME NEW c \in Cmd, Moves(c) PROVE WritesDoc' /\ EmptyOnlyWhileWritten'
  <2> USE DEF Goto, Return, WsInv, TypeOK
  <2>1. \A d \in Cmd \ {c} : pc'[d] = pc[d] /\ mem'[d] = mem[d]
    BY <1>1, OthersWait
  <2>2. CASE Load(c)
    <3>1. pc[c] = "load" /\ file' = file /\ faults' = faults /\ pc'[c] # "write"
          /\ (pc'[c] = "open" => mem'[c].is = "doc")
      BY <2>2 DEF Load, NoConfig, Changed, Named, Doc, server
    <3> QED BY <2>1, <3>1 DEF WritesDoc, EmptyOnlyWhileWritten
  <2>3. CASE Open(c)
    <3>1. pc[c] = "open" /\ pc'[c] = "write" /\ mem' = mem
      BY <2>3 DEF Open, local
    <3> QED BY <2>1, <3>1 DEF WritesDoc, EmptyOnlyWhileWritten
  <2>4. CASE Write(c)
    <3>1. pc[c] = "write" /\ pc'[c] \in {"client", "done"} /\ file'.is # "empty"
      BY <2>4 DEF Write, AfterWrite, Nothing, WritesDoc
    <3> QED BY <2>1, <3>1 DEF WritesDoc, EmptyOnlyWhileWritten
  <2>5. CASE Kill(c)
    <3>1. faults' # 0 /\ pc'[c] = "done"
      BY <2>5, WorkspaceAssumption DEF Kill
    <3> QED BY <2>1, <3>1 DEF WritesDoc, EmptyOnlyWhileWritten
  <2>6. CASE ~(Load(c) \/ Open(c) \/ Write(c) \/ Kill(c))
    <3>1. /\ file' = file /\ faults' = faults /\ pc[c] # "write"
          /\ pc'[c] \notin {"open", "write"}
      <4>1. CASE Begin(c)
        BY <4>1, Beginning
           DEF Begin, BeginInit, BeginRun, Stop, Subscribe, Unsubscribe, NoConfig
      <4>2. CASE CreateUser(c) \/ Allocate(c) \/ MakeClient(c)
        BY <4>2 DEF CreateUser, Allocate, MakeClient, NoConfig, server
      <4>3. CASE StartContainer(c) \/ InstallDeps(c) \/ GetInfo(c) \/ OpenPorts(c)
        BY <4>3 DEF StartContainer, InstallDeps, Setup, GetInfo, OpenPorts, server
      <4>4. CASE Exec(c) \/ Ask(c) \/ Unfreeze(c) \/ CheckSubscription(c)
        BY <4>4 DEF Exec, Ask, Unfreeze, CheckSubscription, NoConfig, server
      <4> QED BY <1>1, <2>6, <4>1, <4>2, <4>3, <4>4 DEF Moves, Step
    <3> QED BY <2>1, <3>1 DEF WritesDoc, EmptyOnlyWhileWritten
  <2> QED BY <2>2, <2>3, <2>4, <2>5, <2>6
<1>2. CASE World \/ UNCHANGED vars
  <2>1. UNCHANGED <<file, pc, mem, faults>>
    BY <1>2, WorldWaits DEF World, Freeze, Pay, vars, server, local
  <2> QED BY <2>1 DEF WritesDoc, EmptyOnlyWhileWritten
<1> QED BY <1>1, <1>2 DEF Next, Moves, World

\* For any processes: unless one is killed, the config is empty only while a process
\* is between opening it and closing it.
THEOREM EmptyIsTransient == Spec => []EmptyOnlyWhileWritten
<1>1. Init => WritesDoc /\ EmptyOnlyWhileWritten
  BY DEF Init, WritesDoc, EmptyOnlyWhileWritten, Nothing, Named
<1> QED BY <1>1, EmptyStep, TypeInvariant, PTL DEF Spec

(***************************************************************************)
(* NoOrphan                                                                *)
(***************************************************************************)

\* Nothing is known yet of the workspace of an init that has not asked for one.
Unborn ==
  \A c \in Cmd : pc[c] \in {"new", "user"} =>
     /\ state[c] = "none" /\ file.ws # c
     /\ \A d \in Cmd : mem[d].ws # c

LEMMA UnbornStep == WsInv /\ KindOfPc /\ Unborn /\ [Next]_vars => Unborn'
<1> SUFFICES ASSUME WsInv, KindOfPc, Unborn, [Next]_vars,
                    NEW x \in Cmd, pc'[x] \in {"new", "user"}
             PROVE  /\ state'[x] = "none" /\ file'.ws # x
                    /\ \A d \in Cmd : mem'[d].ws # x
  BY DEF Unborn
<1>0. x \in Id /\ x # "old"
  BY WorkspaceAssumption DEF Id
<1>1. ASSUME NEW c \in Cmd, Moves(c)
      PROVE  /\ state'[x] = "none" /\ file'.ws # x
             /\ \A d \in Cmd : mem'[d].ws # x
  <2>1. pc[x] \in {"new", "user"}
    <3>1. x = c => BeginInit(c)
      BY <1>1, WhereTo
    <3> QED BY <1>1, <3>1, OthersWait DEF BeginInit
  <2>2. state[x] = "none" /\ file.ws # x /\ \A d \in Cmd : mem[d].ws # x
    BY <2>1 DEF Unborn
  <2>3. file'.ws # x
    <3>1. file' = file \/ file' = mem[c] \/ file'.ws = "old"
      BY <1>1, FileAndHistory DEF Open, Write, Nothing
    <3> QED BY <1>0, <2>2, <3>1
  <2>4. ASSUME NEW d \in Cmd PROVE mem'[d].ws # x
    <3>1. CASE Load(c)
      <4>1. x # c
        BY <2>1, <3>1 DEF Load
      <4>2. mem' = mem \/ mem' = [mem EXCEPT ![c] = Changed(c)]
        BY <3>1 DEF Load
      <4>3. Changed(c).ws = c \/ Changed(c).ws = file.ws
        BY DEF Changed, Named, WsInv, TypeOK, Doc
      <4> QED BY <2>2, <4>1, <4>2, <4>3 DEF WsInv, TypeOK
    <3>2. CASE MakeClient(c)
      BY <2>2, <3>2 DEF MakeClient, WsInv, TypeOK
    <3> QED BY <1>1, <2>2, <3>1, <3>2, FileAndHistory
  <2>5. state'[x] = "none"
    <3> USE DEF WsInv, TypeOK
    <3>1. CASE Begin(c)
      BY <1>0, <2>2, <3>1 DEF Begin, BeginInit, BeginRun, Stop, Subscribe, Unsubscribe, server
    <3>2. CASE CreateUser(c) \/ Load(c)
      BY <2>2, <3>2 DEF CreateUser, Load, server
    <3>3. CASE Allocate(c)
      <4>1. x # c
        BY <2>1, <3>3 DEF Allocate
      <4>2. state' = state \/ state' = [state EXCEPT ![c] = "allocated"]
        BY <3>3 DEF Allocate
      <4> QED BY <1>0, <2>2, <4>1, <4>2
    <3>4. CASE Open(c) \/ Write(c) \/ MakeClient(c) \/ GetInfo(c) \/ OpenPorts(c)
      BY <2>2, <3>4 DEF Open, Write, MakeClient, GetInfo, OpenPorts, server
    <3>5. CASE StartContainer(c) \/ InstallDeps(c)
      <4>1. mem[c].ws # x
        BY <2>2
      <4>2. state' = state \/ \E v : state' = [state EXCEPT ![mem[c].ws] = v]
        BY <3>5 DEF StartContainer, InstallDeps, Setup
      <4> QED BY <1>0, <2>2, <4>1, <4>2
    <3>6. CASE Exec(c) \/ Ask(c) \/ CheckSubscription(c) \/ Kill(c)
      BY <2>2, <3>6 DEF Exec, Ask, CheckSubscription, Kill, server
    <3>7. CASE Unfreeze(c)
      <4>1. state' = state \/ state' = [state EXCEPT ![file.ws] = "running"]
        BY <3>7 DEF Unfreeze, Restored
      <4> QED BY <1>0, <2>2, <4>1
    <3> QED BY <1>1, <3>1, <3>2, <3>3, <3>4, <3>5, <3>6, <3>7 DEF Moves, Step
  <2> QED BY <2>3, <2>4, <2>5
<1>2. CASE World \/ UNCHANGED vars
  <2>1. UNCHANGED <<file, pc, mem>>
    BY <1>2, WorldWaits DEF local
  <2>2. state[x] = "none" => state'[x] = "none"
    BY <1>0, <1>2 DEF World, Freeze, Pay, vars, server, WsInv, TypeOK
  <2> QED BY <2>1, <2>2 DEF Unborn
<1> QED BY <1>1, <1>2 DEF Next, Moves, World

LEMMA UnbornInvariant == Spec => []Unborn
<1>1. Init => Unborn
  <2> SUFFICES ASSUME Init, NEW c \in Cmd
               PROVE  state[c] = "none" /\ file.ws # c /\ \A d \in Cmd : mem[d].ws # c
    BY DEF Unborn
  <2>1. c # "old" /\ c \in Id
    BY WorkspaceAssumption DEF Id
  <2> QED BY <2>1 DEF Init, Nothing, Named
<1> QED BY <1>1, UnbornStep, TypeInvariant, CalmInvariant, PTL DEF Spec

\* How an init ends that is about to save: it is killed, or cannot read the config.
LEMMA HowSavingEnds ==
  ASSUME WsInv, KindOfPc, NEW c \in Cmd, Moves(c), kind[c] = "init",
         pc[c] \in {"load", "open", "write"}, pc'[c] = "done"
  PROVE  LosesIt(c)
<1> USE DEF Goto, Return, WsInv, TypeOK, LosesIt
<1>1. CASE Begin(c)
  BY <1>1, Beginning
<1>2. CASE Load(c)
  BY <1>2 DEF Load, NoConfig
<1>3. CASE Open(c) \/ Write(c)
  BY <1>3 DEF Open, Write, AfterWrite
<1>4. CASE Kill(c)
  BY <1>4 DEF Kill
<1>5. CASE CreateUser(c) \/ Allocate(c) \/ MakeClient(c) \/ GetInfo(c) \/ OpenPorts(c)
  BY <1>5 DEF CreateUser, Allocate, MakeClient, GetInfo, OpenPorts
<1>6. CASE StartContainer(c) \/ InstallDeps(c)
  BY <1>6 DEF StartContainer, InstallDeps, Setup
<1>7. CASE Exec(c) \/ Ask(c) \/ Unfreeze(c) \/ CheckSubscription(c)
  BY <1>7 DEF Exec, Ask, Unfreeze, CheckSubscription
<1> QED BY <1>1, <1>2, <1>3, <1>4, <1>5, <1>6, <1>7 DEF Moves, Step

\* For any processes: however an rx init on its own ends after a workspace was
\* allocated for it, the config names that workspace where it is, but for the three
\* ways of LosesIt.
THEOREM NothingIsOrphaned == Spec => NoOrphan
<1> DEFINE Kept == \A c \in calm :
        kind[c] = "init" /\ pc[c] # "done" /\ pc'[c] = "done" /\ state'[c] # "none"
          => file' = Named(c, Where(c)) \/ LosesIt(c)
<1>1. ASSUME WsInv, KindOfPc, Alone, SoFar, Unborn, [Next]_vars PROVE [Kept]_vars
  <2> SUFFICES ASSUME NEW c \in calm, Next, kind[c] = "init", pc[c] # "done", pc'[c] = "done",
                      state'[c] # "none"
               PROVE  file' = Named(c, Where(c)) \/ LosesIt(c)
    BY <1>1
  <2>1. c \in Cmd
    BY <1>1 DEF WsInv, TypeOK
  <2>2. Moves(c)
    <3>1. ASSUME NEW d \in Cmd, Moves(d) PROVE d = c
      BY <1>1, <2>1, <3>1, OthersWait
    <3>2. ~World
      BY WorldWaits
    <3> QED BY <3>1, <3>2 DEF Next, Moves, World
  <2>3. pc[c] # "new"
    BY <1>1 DEF Alone
  <2>4. CASE pc[c] = "user"
    <3>1. state[c] = "none" /\ ~Begin(c)
      BY <1>1, <2>1, <2>4, Beginning DEF Unborn
    <3>2. CreateUser(c) \/ Kill(c)
      BY <2>2, <2>4, <3>1
         DEF Moves, Step, Allocate, Load, Open, Write, MakeClient, StartContainer, InstallDeps,
             Setup, GetInfo, OpenPorts, Exec, Ask, Unfreeze, CheckSubscription
    <3>3. state' = state
      BY <3>2 DEF CreateUser, Kill, server
    <3> QED BY <3>1, <3>3
  <2>5. CASE pc[c] = "alloc"
    BY <2>5 DEF LosesIt
  <2>6. CASE pc[c] \in {"load", "open", "write"}
    BY <1>1, <2>1, <2>2, <2>6, HowSavingEnds
  <2>7. CASE pc[c] \in {"client", "setup", "deps", "info", "ports"}
    <3>1. file = Named(c, Where(c))
      BY <1>1, <2>7 DEF SoFar, InitSoFar
    <3>2. file' = file
      BY <2>1, <2>2, <2>7, FileAndHistory DEF Open, Write
    <3> QED BY <3>1, <3>2
  <2>8. pc[c] \in {"user", "alloc", "load", "open", "write", "client", "setup", "deps",
                   "info", "ports"}
    <3>1. pc[c] \notin {"exec", "ask", "unfreeze", "wait"}
      BY <1>1, <2>1 DEF KindOfPc, RunPc
    <3> QED BY <1>1, <2>1, <2>3, <3>1 DEF WsInv, TypeOK, PcState
  <2> QED BY <2>4, <2>5, <2>6, <2>7, <2>8
<1> QED BY <1>1, TypeInvariant, CalmInvariant, UnbornInvariant, PTL DEF Spec, NoOrphan

(***************************************************************************)
(* RestoredIsNamed                                                         *)
(***************************************************************************)

\* What a process was answered, and what it is about to save of it.
Answered ==
  \A c \in Cmd :
     /\ result[c] = "restored" => pc[c] = "done"
     /\ got[c].gen <= gen[got[c].of]
     /\ pc[c] \in {"open", "write"} => mem[c].addr = got[c]
     /\ ~mixed /\ kind[c] = "init" /\ pc[c] \in {"load", "open", "write"} => got[c] = Where(c)

\* A run becomes "restored" by writing, and has then ended.
LEMMA ResultStays ==
  ASSUME WsInv, KindOfPc, NEW c \in Cmd, Moves(c)
  PROVE  /\ \A d \in Cmd \ {c} : result'[d] = result[d]
         /\ result'[c] = "restored" =>
              result[c] = "restored" \/ (Write(c) /\ kind[c] = "run" /\ pc'[c] = "done")
<1> USE DEF WsInv, TypeOK, Goto, Return
<1>1. CASE Begin(c)
  BY <1>1 DEF Begin, BeginInit, BeginRun, Stop, Subscribe, Unsubscribe, NoConfig
<1>2. CASE CreateUser(c) \/ Allocate(c) \/ Load(c)
  BY <1>2 DEF CreateUser, Allocate, Load, NoConfig
<1>3. CASE Open(c) \/ MakeClient(c)
  BY <1>3 DEF Open, MakeClient, NoConfig
<1>4. CASE Write(c)
  BY <1>4 DEF Write, AfterWrite, KindOfPc, SavePc
<1>5. CASE StartContainer(c) \/ InstallDeps(c) \/ GetInfo(c) \/ OpenPorts(c)
  BY <1>5 DEF StartContainer, InstallDeps, Setup, GetInfo, OpenPorts
<1>6. CASE Exec(c) \/ Ask(c) \/ CheckSubscription(c) \/ Kill(c)
  BY <1>6 DEF Exec, Ask, NoConfig, CheckSubscription, Kill
<1>7. CASE Unfreeze(c)
  BY <1>7 DEF Unfreeze, NoConfig
<1> QED BY <1>1, <1>2, <1>3, <1>4, <1>5, <1>6, <1>7 DEF Moves, Step

\* Only restoring moves a workspace, and moves it on.
LEMMA OnlyRestoringMoves ==
  ASSUME WsInv, NEW c \in Cmd, Moves(c)
  PROVE  /\ Unfreeze(c) \/ gen' = gen
         /\ \A w \in Id : gen[w] <= gen'[w]
<1> USE DEF server
<1>1. CASE Begin(c)
  BY <1>1, Beginning DEF WsInv, TypeOK
<1>2. CASE CreateUser(c) \/ Allocate(c) \/ Load(c) \/ Open(c) \/ Write(c) \/ MakeClient(c)
  BY <1>2 DEF CreateUser, Allocate, Load, Open, Write, MakeClient, WsInv, TypeOK
<1>3. CASE StartContainer(c) \/ InstallDeps(c) \/ GetInfo(c) \/ OpenPorts(c)
  BY <1>3 DEF StartContainer, InstallDeps, Setup, GetInfo, OpenPorts, WsInv, TypeOK
<1>4. CASE Exec(c) \/ Ask(c) \/ CheckSubscription(c) \/ Kill(c)
  BY <1>4 DEF Exec, Ask, CheckSubscription, Kill, WsInv, TypeOK
<1>5. CASE Unfreeze(c)
  <2>1. gen' = gen \/ gen' = [gen EXCEPT ![file.ws] = @ + 1]
    BY <1>5 DEF Unfreeze, Restored
  <2> QED BY <1>5, <2>1 DEF WsInv, TypeOK
<1> QED BY <1>1, <1>2, <1>3, <1>4, <1>5 DEF Moves, Step

\* Where an init is about to save no run is at work, and nothing moves.
LEMMA AnsweredStep ==
  WsInv /\ KindOfPc /\ PairInv /\ Answered /\ [Next]_vars => Answered'
<1> SUFFICES ASSUME WsInv, KindOfPc, PairInv, Answered, [Next]_vars, NEW x \in Cmd
             PROVE  /\ result'[x] = "restored" => pc'[x] = "done"
                    /\ got'[x].gen <= gen'[got'[x].of]
                    /\ pc'[x] \in {"open", "write"} => mem'[x].addr = got'[x]
                    /\ ~mixed' /\ kind'[x] = "init" /\ pc'[x] \in {"load", "open", "write"}
                          => got'[x] = Where(x)'
  BY DEF Answered
<1>0. /\ result[x] = "restored" => pc[x] = "done"
      /\ got[x].gen <= gen[got[x].of] /\ got[x].of \in Id
      /\ got[x].gen \in Nat /\ \A w \in Id : gen[w] \in Nat
      /\ pc[x] \in {"open", "write"} => mem[x].addr = got[x]
      /\ ~mixed /\ kind[x] = "init" /\ pc[x] \in {"load", "open", "write"} => got[x] = Where(x)
  BY WorkspaceAssumption DEF Answered, WsInv, TypeOK, Addr
<1>1. ASSUME NEW c \in Cmd, Moves(c)
      PROVE  /\ result'[x] = "restored" => pc'[x] = "done"
             /\ got'[x].gen <= gen'[got'[x].of]
             /\ pc'[x] \in {"open", "write"} => mem'[x].addr = got'[x]
             /\ ~mixed' /\ kind'[x] = "init" /\ pc'[x] \in {"load", "open", "write"}
                   => got'[x] = Where(x)'
  <2>0. /\ kind' = kind /\ (~mixed' => ~mixed)
        /\ x # c => pc'[x] = pc[x] /\ got'[x] = got[x] /\ mem'[x] = mem[x]
    BY <1>1, OthersWait, FileAndHistory, Beginning DEF Overlaps
  <2>1. result'[x] = "restored" => pc'[x] = "done"
    <3>1. x = c /\ result[c] = "restored" => pc'[c] = "done"
      <4>1. pc[c] = "done" => pc'[c] = "done"
        BY <1>1, FileAndHistory, Beginning DEF Active
      <4> QED BY <1>0, <4>1
    <3> QED BY <1>0, <1>1, <2>0, <3>1, ResultStays
  <2>2. got'[x].gen <= gen'[got'[x].of]
    <3>1. CASE got'[x] = got[x]
      <4>1. gen[got[x].of] <= gen'[got[x].of]
        BY <1>0, <1>1, OnlyRestoringMoves
      <4>2. gen'[got[x].of] \in Nat
        BY <1>0, <1>1, TypeStep, WorkspaceAssumption DEF WsInv, TypeOK, Next, Moves
      <4> QED BY <1>0, <3>1, <4>1, <4>2
    <3>2. CASE got'[x] # got[x]
      <4>1. x = c /\ (Allocate(c) \/ Unfreeze(c))
        BY <1>1, <2>0, <3>2, FileAndHistory
      <4>2. CASE Allocate(c)
        <5>1. gen' = gen /\ (got' = got \/ got' = [got EXCEPT ![c] = Where(c)])
          BY <4>2 DEF Allocate
        <5>2. c \in Id
          BY DEF Id
        <5> QED BY <1>0, <3>2, <4>1, <5>1, <5>2 DEF Where, WsInv, TypeOK
      <4>3. CASE Unfreeze(c)
        <5>1. got'[x] = [of |-> file.ws, gen |-> gen'[file.ws]]
          BY <3>2, <4>1, <4>3 DEF Unfreeze, NoConfig, WsInv, TypeOK
        <5>2. gen'[file.ws] \in Nat
          BY <1>1, TypeStep, WorkspaceAssumption DEF WsInv, TypeOK, Next, Moves, Doc
        <5> QED BY <5>1, <5>2
      <4> QED BY <4>1, <4>2, <4>3
    <3> QED BY <3>1, <3>2
  <2>3. pc'[x] \in {"open", "write"} => mem'[x].addr = got'[x]
    <3>1. CASE x # c
      BY <1>0, <2>0, <3>1
    <3>2. CASE x = c /\ Load(c) /\ pc'[c] = "open"
      <4>1. mem'[c] = Changed(c) /\ got' = got
        BY <3>2 DEF Load, NoConfig, Return, WsInv, TypeOK
      <4> QED BY <3>2, <4>1 DEF Changed, Named, WsInv, TypeOK, Doc
    <3>3. CASE x = c /\ Open(c)
      <4>1. pc[c] = "open" /\ mem' = mem /\ got' = got
        BY <3>3 DEF Open, local
      <4> QED BY <1>0, <3>3, <4>1
    <3> QED BY <1>1, <3>1, <3>2, <3>3, WhereTo
  <2>4. ASSUME ~mixed', kind'[x] = "init", pc'[x] \in {"load", "open", "write"}
        PROVE  got'[x] = Where(x)'
    <3>1. kind[x] = "init" /\ ~mixed
      BY <2>0, <2>4
    <3>2. CASE Unfreeze(c)
      <4>1. x # c /\ Active(c) /\ kind[c] = "run"
        BY <3>1, <3>2 DEF Unfreeze, Active, KindOfPc, RunPc
      <4>2. Active(x)
        BY <2>0, <2>4, <4>1 DEF Active
      <4> QED BY <3>1, <4>1, <4>2 DEF PairInv, Apart
    <3>3. CASE ~Unfreeze(c)
      <4>1. gen' = gen
        BY <1>1, <3>3, OnlyRestoringMoves
      <4>2. CASE Allocate(c) /\ x = c
        <5>1. pc[c] = "alloc" /\ got'[c] = Where(c)
          BY <2>4, <4>2 DEF Allocate, Return, WsInv, TypeOK
        <5> QED BY <4>1, <4>2, <5>1 DEF Where
      <4>3. CASE ~(Allocate(c) /\ x = c)
        <5>1. got'[x] = got[x]
          BY <1>1, <2>0, <3>3, <4>3, FileAndHistory
        <5>2. pc[x] \in {"load", "open", "write"}
          BY <1>1, <2>0, <2>4, <3>3, <4>3, WhereTo DEF Load, Open
        <5> QED BY <1>0, <3>1, <4>1, <5>1, <5>2 DEF Where
      <4> QED BY <4>2, <4>3
    <3> QED BY <3>2, <3>3
  <2> QED BY <2>1, <2>2, <2>3, <2>4
<1>2. CASE World \/ UNCHANGED vars
  <2>1. UNCHANGED <<gen, kind, pc, got, mem, mixed, result>>
    BY <1>2, WorldWaits DEF local, hist, World, Freeze, Pay, vars
  <2> QED BY <1>0, <2>1 DEF Where
<1> QED BY <1>1, <1>2 DEF Next, Moves, World

\* Writing: an init saves where its workspace is, a run what it was answered.
LEMMA WriteIsNamed ==
  ASSUME WsInv, KindOfPc, PairInv, Answered, RestoredIsNamed, NEW c \in Cmd, Write(c)
  PROVE  RestoredIsNamed'
<1> SUFFICES ASSUME NEW x \in Cmd, LatestRestore(x)', ~mixed', file'.is = "doc",
                    file'.ws = got'[x].of
             PROVE  \/ file'.addr = got'[x]
                    \/ \E d \in Cmd : /\ result'[d] = "restored"
                                      /\ got'[d].of = got'[x].of /\ got'[d].gen < got'[x].gen
  BY DEF RestoredIsNamed
<1>1. /\ pc[c] = "write" /\ file' = mem[c] /\ got' = got /\ gen' = gen /\ mixed' = mixed
      /\ got[c] = mem[c].addr /\ got[x] = Where(got[x].of) /\ got[x].of = mem[c].ws
  <2>1. pc[c] = "write" /\ got' = got /\ gen' = gen /\ mixed' = mixed
    BY DEF Write, local, server, hist
  <2>2. file' = mem[c]
    BY DEF Write, Nothing
  <2>3. got[c] = mem[c].addr
    BY <2>1 DEF Answered
  <2>4. got[x] = Where(got[x].of)
    BY <2>1 DEF LatestRestore, Where
  <2> QED BY <2>1, <2>2, <2>3, <2>4
<1>2. CASE kind[c] = "init"
  <2>1. got[c] = Where(c) /\ mem[c].ws = c
    BY <1>1, <1>2 DEF Answered, PairInv, Saving
  <2> QED BY <1>1, <2>1
<1>3. CASE kind[c] = "run"
  <2>1. got[c].of = got[x].of
    BY <1>1, <1>3 DEF PairInv, Agree, Saving
  <2>2. /\ got[c] \in Addr /\ got[x] \in Addr
        /\ got[c].gen <= gen[got[x].of] /\ got[x].gen = gen[got[x].of]
    BY <1>1, <2>1 DEF Answered, WsInv, TypeOK, Where
  <2>3. CASE got[c].gen = got[x].gen
    BY <1>1, <2>1, <2>2, <2>3 DEF Addr
  <2>4. CASE got[c].gen < got[x].gen
    <3>1. result'[c] = "restored"
      BY <1>3 DEF Write, AfterWrite, Return, WsInv, TypeOK
    <3> QED BY <1>1, <2>1, <2>4, <3>1
  <2> QED BY <2>2, <2>3, <2>4, WorkspaceAssumption DEF Addr
<1>4. kind[c] \in {"init", "run"}
  BY <1>1 DEF KindOfPc, SavePc
<1> QED BY <1>2, <1>3, <1>4

LEMMA NamedStep ==
  WsInv /\ KindOfPc /\ PairInv /\ Answered /\ RestoredIsNamed /\ [Next]_vars => RestoredIsNamed'
<1> SUFFICES ASSUME WsInv, KindOfPc, PairInv, Answered, RestoredIsNamed, [Next]_vars
             PROVE  RestoredIsNamed'
  OBVIOUS
<1>1. ASSUME NEW c \in Cmd, Moves(c), ~Write(c) PROVE RestoredIsNamed'
  <2> SUFFICES ASSUME NEW x \in Cmd, LatestRestore(x)', ~mixed', file'.is = "doc",
                      file'.ws = got'[x].of
               PROVE  \/ file'.addr = got'[x]
                      \/ \E d \in Cmd : /\ result'[d] = "restored"
                                        /\ got'[d].of = got'[x].of /\ got'[d].gen < got'[x].gen
    BY DEF RestoredIsNamed
  <2>1. file' = file /\ ~mixed
    <3>1. ~Open(c)
      BY DEF Open, Nothing
    <3>2. ~mixed
      BY <1>1, FileAndHistory, Beginning DEF Overlaps
    <3> QED BY <1>1, <3>1, <3>2, FileAndHistory
  <2>2. ASSUME NEW d \in Cmd, result[d] = "restored"
        PROVE  result'[d] = "restored" /\ got'[d] = got[d]
    <3>1. pc[d] = "done"
      BY <2>2 DEF Answered
    <3>2. d # c
      BY <1>1, <3>1, FileAndHistory, Beginning DEF Active
    <3> QED BY <1>1, <2>2, <3>2, OthersWait, ResultStays
  <2>3. result[x] = "restored" /\ got'[x] = got[x]
    BY <1>1, <2>2, ResultStays DEF LatestRestore
  <2>4. got[x] = Where(got[x].of)
    <3>1. /\ got[x].gen <= gen[got[x].of] /\ gen[got[x].of] <= gen'[got[x].of]
          /\ got[x].of \in Id /\ got[x] \in Addr
      BY <1>1, OnlyRestoringMoves DEF Answered, WsInv, TypeOK, Addr
    <3>2. got[x].gen = gen'[got[x].of]
      BY <2>3 DEF LatestRestore, Where
    <3>3. gen[got[x].of] \in Nat /\ got[x].gen \in Nat
      BY <3>1, WorkspaceAssumption DEF WsInv, TypeOK, Addr
    <3>4. got[x].gen = gen[got[x].of]
      BY <3>1, <3>2, <3>3
    <3> QED BY <3>1, <3>4 DEF Where, Addr
  <2>5. \/ file.addr = got[x]
        \/ \E d \in Cmd : /\ result[d] = "restored"
                          /\ got[d].of = got[x].of /\ got[d].gen < got[x].gen
    BY <2>1, <2>3, <2>4 DEF RestoredIsNamed, LatestRestore
  <2> QED BY <2>1, <2>2, <2>3, <2>5
<1>2. ASSUME NEW c \in Cmd, Write(c) PROVE RestoredIsNamed'
  BY <1>2, WriteIsNamed
<1>3. CASE World \/ UNCHANGED vars
  <2>1. UNCHANGED <<file, gen, got, mixed, result>>
    BY <1>3, WorldWaits DEF local, hist, World, Freeze, Pay, vars
  <2> QED BY <2>1 DEF RestoredIsNamed, LatestRestore, Where
<1> QED BY <1>1, <1>2, <1>3 DEF Next, Moves, World

\* For any processes and moves: an address that a run has restored stays in the config
\* that names the workspace, until the workspace moves again, or a run that was
\* answered an older address writes over it.
THEOREM RestoringNamesIt == Spec => []RestoredIsNamed
<1>1. Init => Answered /\ RestoredIsNamed
  <2> SUFFICES ASSUME Init PROVE Answered /\ RestoredIsNamed
    OBVIOUS
  <2>1. /\ \A c \in Cmd : pc[c] = "new" /\ result[c] = "none" /\ got[c] = Nowhere
        /\ gen[Nowhere.of] = 0 /\ Nowhere.gen = 0
    BY DEF Init, Nowhere, Id
  <2> QED BY <2>1 DEF Answered, RestoredIsNamed, LatestRestore
<1> QED BY <1>1, AnsweredStep, NamedStep, TypeInvariant, PairInvariant, PTL DEF Spec
=============================================================================
