--------------------------- MODULE RemotesProofs ---------------------------
(***************************************************************************)
(* The saved environment, the default link and the local config: proofs for *)
(* any processes, repositories, days, edits and kills.                      *)
(***************************************************************************)
EXTENDS Remotes, TLAPS

(***************************************************************************)
(* The inductive invariants                                                *)
(***************************************************************************)

\* Only a process that was killed leaves an empty file.
EmptyIfKilled ==
  \A n \in Name : files[n].is = "empty" =>
      faults > 0 \/ \E c \in Cmd : pc[c] = "write" /\ name[c] = n

\* A process that nothing overlaps: what it has done so far still holds.
Alone ==
  \A c \in calm : /\ pc[c] # "new"
                  /\ Active(c) => \A d \in Cmd : Active(d) => d = c
Linking == {"exists", "islink", "unlink", "symlink"}
SavedSoFar(c) ==
  /\ pc[c] \in {"open", "write"} \cup Linking => name[c] \in Name
  /\ pc[c] \in {"compare", "open", "write"} \cup Linking => env[c].repo # "none"
  /\ pc[c] = "write" => files[name[c]].is = "empty"
  /\ pc[c] \in Linking => files[name[c]] = MessageToDict(env[c], TRUE)
  /\ pc[c] \in {"islink", "unlink", "symlink"} => ~Exists(Default)
  /\ pc[c] = "symlink" => default = NoLink
AskedSoFar(c) ==
  /\ pc[c] = "answer" => At(Default).is # "garbled" /\ want[c] = env_dict_to_pb(At(Default))
  /\ pc[c] \in {"compare", "open", "write", "exists"} =>
        \/ default = name[c] /\ pc[c] \in {"write", "exists"}
        \/ At(Default).is # "garbled" /\ Answers(env_dict_to_pb(At(Default)), env[c])
SoFar ==
  \A c \in calm : /\ SavedSoFar(c)
                  /\ remote[c] = Default => AskedSoFar(c)

\* The paths that are not files are told apart from those that are.
LEMMA Paths ==
  /\ NoLink \notin Name /\ Default \notin Name /\ Astray \notin Name
  /\ NoLink # Default /\ NoLink # Astray
BY RemotesAssumption DEF NoLink, Default, Astray, Name

LEMMA DocTypes ==
  /\ Environment \in Env
  /\ \A k \in {"absent", "empty", "garbled"} : Raw(k) \in Doc /\ Raw(k).is = k
  /\ \A e \in Env, p \in BOOLEAN : MessageToDict(e, p) \in Doc /\ MessageToDict(e, p).is = "doc"
  /\ \A d \in Doc : env_dict_to_pb(d) \in Env
<1>1. Environment \in Env
  BY DEF Environment, Env
<1>2. \A k \in {"absent", "empty", "garbled"} : Raw(k) \in Doc /\ Raw(k).is = k
  BY <1>1 DEF Raw, Doc
<1>3. \A e \in Env, p \in BOOLEAN : MessageToDict(e, p) \in Doc /\ MessageToDict(e, p).is = "doc"
  BY DEF MessageToDict, Doc
<1>4. ASSUME NEW d \in Doc PROVE env_dict_to_pb(d) \in Env
  BY <1>1 DEF env_dict_to_pb, Doc, Env
<1> QED BY <1>1, <1>2, <1>3, <1>4

\* A document with the names of the .proto says what it was made from.
LEMMA RoundTrip ==
  ASSUME NEW e \in Env PROVE env_dict_to_pb(MessageToDict(e, TRUE)) = e
BY DEF env_dict_to_pb, MessageToDict, Env

LEMMA AtDefault == At(Default) = IF default \in Name THEN files[default] ELSE Raw("absent")
BY DEF At, Followed

LEMMA AtType ==
  ASSUME TypeOK, NEW p \in Name \cup {Default} PROVE At(p) \in Doc
<1>1. CASE p # Default
  BY <1>1, Paths DEF At, Followed, TypeOK
<1>2. CASE p = Default
  BY <1>2, AtDefault, DocTypes DEF TypeOK
<1> QED BY <1>1, <1>2

\* Processes that save have the name of a file.
NameSet == \A c \in Cmd : pc[c] \in {"open", "write"} \cup Linking =>
                            name[c] \in Name /\ env[c].repo # "none"
EnvSet == \A c \in Cmd : pc[c] = "compare" => env[c].repo # "none"
RmInv == TypeOK /\ NameSet /\ EnvSet

\* Types are inductive.
LEMMA TypeStep == RmInv /\ [Next]_vars => TypeOK'
<1> SUFFICES ASSUME TypeOK, NameSet, EnvSet, [Next]_vars PROVE TypeOK'
  BY DEF RmInv
<1> USE RemotesAssumption DEF TypeOK, Goto, Return, disk, outside, args, mine, PcState, Results
<1>1. CASE Paste
  BY <1>1, AtDefault, DocTypes DEF Paste, Exists
<1>2. ASSUME NEW n \in Name, Delete(n) PROVE TypeOK'
  BY <1>2, DocTypes DEF Delete
<1>3. CASE Midnight
  BY <1>3 DEF Midnight
<1>4. ASSUME NEW c \in Cmd, Kill(c) PROVE TypeOK'
  BY <1>4 DEF Kill
<1>5. ASSUME NEW c \in Cmd, CreateLocalConfig(c) PROVE TypeOK'
  BY <1>5 DEF CreateLocalConfig, Overlaps
<1>6. ASSUME NEW c \in Cmd, Store(c) PROVE TypeOK'
  BY <1>6 DEF Store
<1>7. ASSUME NEW c \in Cmd, LoadConfig(c) PROVE TypeOK'
  <2>1. \E r \in Results : Return(c, r)
    BY <1>7 DEF LoadConfig
  <2> QED BY <1>7, <2>1 DEF LoadConfig, Overlaps
<1>8. ASSUME NEW c \in Cmd, GetTargetEnv(c) PROVE TypeOK'
  <2>1. env_dict_to_pb(At(remote[c])) \in Env
    BY AtType, DocTypes
  <2> QED BY <1>8, <2>1 DEF GetTargetEnv
<1>9. ASSUME NEW c \in Cmd, Answer(c) PROVE TypeOK'
  BY <1>9 DEF Answer
<1>10. ASSUME NEW c \in Cmd, Compare(c) PROVE TypeOK'
  <2>1. pc' \in [Cmd -> PcState] /\ result' \in [Cmd -> Results]
    BY <1>10 DEF Compare
  <2>2. <<env[c].repo, day>> \in Name
    <3>1. pc[c] = "compare" /\ env[c] \in Env
      BY <1>10 DEF Compare
    <3>2. env[c].repo \in Repo
      BY <3>1 DEF EnvSet, Env
    <3> QED BY <3>2 DEF Name
  <2>3. name' \in [Cmd -> Name \cup {NoLink}]
    BY <1>10, <2>2 DEF Compare
  <2> QED BY <1>10, <2>1, <2>3 DEF Compare
<1>11. ASSUME NEW c \in Cmd, Open(c) PROVE TypeOK'
  BY <1>11, DocTypes DEF Open
<1>12. ASSUME NEW c \in Cmd, Write(c) PROVE TypeOK'
  <2>1. Saved(c) \in Doc /\ Raw("garbled") \in Doc
    BY DocTypes DEF Saved
  <2> QED BY <1>12, <2>1 DEF Write
<1>13. ASSUME NEW c \in Cmd, ExistsDefault(c) \/ IsSymlink(c) PROVE TypeOK'
  BY <1>13 DEF ExistsDefault, IsSymlink
<1>14. ASSUME NEW c \in Cmd, Unlink(c) PROVE TypeOK'
  BY <1>14 DEF Unlink
<1>15. ASSUME NEW c \in Cmd, SymlinkTo(c) PROVE TypeOK'
  BY <1>15 DEF SymlinkTo, Target
<1>16. ASSUME NEW c \in Cmd, PrintImage(c) PROVE TypeOK'
  <2>1. ASSUME NEW image \in Env PROVE Prints(kind[c], image) \in Doc
    BY DocTypes DEF Prints
  <2>2. printed' \in [from : {"nobody", "commit", "stop"}, image : Env, doc : Doc]
    <3>1. kind[c] \in {"commit", "stop"}
      BY <1>16 DEF PrintImage
    <3>2. CASE printed' = printed
      BY <3>2
    <3>3. ASSUME NEW image \in Env,
                 printed' = [from |-> kind[c], image |-> image, doc |-> Prints(kind[c], image)]
          PROVE  printed' \in [from : {"nobody", "commit", "stop"}, image : Env, doc : Doc]
      BY <2>1, <3>1, <3>3
    <3> QED BY <1>16, <3>2, <3>3 DEF PrintImage
  <2> QED BY <1>16, <2>2 DEF PrintImage, Overlaps
<1>17. CASE UNCHANGED vars
  BY <1>17 DEF vars
<1> QED
  BY <1>1, <1>2, <1>3, <1>4, <1>5, <1>6, <1>7, <1>8, <1>9, <1>10, <1>11, <1>12, <1>13,
     <1>14, <1>15, <1>16, <1>17 DEF Next, Step, User

(***************************************************************************)
(* Who does what                                                           *)
(***************************************************************************)

Moves(c) == Step(c) \/ Kill(c)
World == User \/ Midnight
Begins(c) == CreateLocalConfig(c) \/ LoadConfig(c) \/ PrintImage(c)

\* A step of a process leaves the others where they are.
LEMMA OthersWait ==
  ASSUME TypeOK, NEW c \in Cmd, Moves(c)
  PROVE  /\ kind' = kind /\ remote' = remote /\ rxroot' = rxroot
         /\ \A d \in Cmd \ {c} : pc'[d] = pc[d] /\ name'[d] = name[d] /\ env'[d] = env[d]
                                /\ result'[d] = result[d]
<1> USE DEF TypeOK, Goto, Return, args, mine
<1>1. CASE CreateLocalConfig(c) \/ Store(c) \/ LoadConfig(c) \/ PrintImage(c) \/ Kill(c)
  BY <1>1 DEF CreateLocalConfig, Store, LoadConfig, PrintImage, Kill
<1>2. CASE GetTargetEnv(c) \/ Answer(c) \/ Compare(c)
  BY <1>2 DEF GetTargetEnv, Answer, Compare
<1>3. CASE Open(c) \/ Write(c) \/ ExistsDefault(c) \/ IsSymlink(c) \/ Unlink(c) \/ SymlinkTo(c)
  BY <1>3 DEF Open, Write, ExistsDefault, IsSymlink, Unlink, SymlinkTo
<1> QED BY <1>1, <1>2, <1>3 DEF Moves, Step

\* Where a step takes a process: to the next place of rx init, or to its end.
LEMMA WhereTo ==
  ASSUME TypeOK, NEW c \in Cmd, Moves(c)
  PROVE  \/ pc'[c] = "done"
         \/ CreateLocalConfig(c) /\ pc[c] = "new" /\ pc'[c] = "store"
         \/ Store(c) /\ pc[c] = "store" /\ pc'[c] = "target"
         \/ GetTargetEnv(c) /\ pc[c] = "target" /\ pc'[c] = "answer"
         \/ Answer(c) /\ pc[c] = "answer" /\ pc'[c] = "compare"
         \/ Compare(c) /\ pc[c] = "compare" /\ pc'[c] = "open"
         \/ Open(c) /\ pc[c] = "open" /\ pc'[c] = "write"
         \/ Write(c) /\ pc[c] = "write" /\ pc'[c] = "exists"
         \/ ExistsDefault(c) /\ pc[c] = "exists" /\ pc'[c] = "islink"
         \/ IsSymlink(c) /\ pc[c] = "islink" /\ pc'[c] \in {"unlink", "symlink"}
         \/ Unlink(c) /\ pc[c] = "unlink" /\ pc'[c] = "symlink"
<1> USE DEF TypeOK, Goto, Return
<1>1. CASE CreateLocalConfig(c) \/ Store(c) \/ LoadConfig(c) \/ PrintImage(c) \/ Kill(c)
  BY <1>1 DEF CreateLocalConfig, Store, LoadConfig, PrintImage, Kill
<1>2. CASE GetTargetEnv(c) \/ Answer(c) \/ Compare(c)
  BY <1>2 DEF GetTargetEnv, Answer, Compare
<1>3. CASE Open(c) \/ Write(c) \/ ExistsDefault(c) \/ IsSymlink(c) \/ Unlink(c) \/ SymlinkTo(c)
  BY <1>3 DEF Open, Write, ExistsDefault, IsSymlink, Unlink, SymlinkTo
<1> QED BY <1>1, <1>2, <1>3 DEF Moves, Step

LEMMA WorldWaits ==
  ASSUME World \/ UNCHANGED vars
  PROVE  /\ UNCHANGED <<local, default, faults, printed, kind, remote, rxroot, pc, name, env, want>>
         /\ \/ calm' = calm /\ files' = files
            \/ calm' = {c \in calm : ~Active(c)}
BY DEF World, User, Paste, Delete, Midnight, vars, disk, outside, args, mine

\* What the steps leave alone.
LEMMA DiskAndHistory ==
  ASSUME NEW c \in Cmd, Moves(c)
  PROVE  /\ \/ Begins(c) /\ pc[c] = "new" /\ Overlaps(c)
            \/ Active(c) /\ calm' = calm
         /\ Open(c) \/ Write(c) \/ files' = files
         /\ Unlink(c) \/ SymlinkTo(c) \/ default' = default
         /\ CreateLocalConfig(c) \/ Store(c) \/ local' = local
         /\ PrintImage(c) \/ printed' = printed
         /\ Kill(c) \/ faults' = faults
<1> USE DEF Active, Begins, disk, outside
<1>1. CASE CreateLocalConfig(c) \/ Store(c) \/ LoadConfig(c) \/ PrintImage(c) \/ Kill(c)
  BY <1>1 DEF CreateLocalConfig, Store, LoadConfig, PrintImage, Kill
<1>2. CASE GetTargetEnv(c) \/ Answer(c) \/ Compare(c)
  BY <1>2 DEF GetTargetEnv, Answer, Compare
<1>3. CASE Open(c) \/ Write(c) \/ ExistsDefault(c) \/ IsSymlink(c) \/ Unlink(c) \/ SymlinkTo(c)
  BY <1>3 DEF Open, Write, ExistsDefault, IsSymlink, Unlink, SymlinkTo
<1> QED BY <1>1, <1>2, <1>3 DEF Moves, Step

(***************************************************************************)
(* Types, names and printed lines                                          *)
(***************************************************************************)

\* A process that saves has a name to save under.
LEMMA NamesStep == RmInv /\ [Next]_vars => RmInv'
<1> SUFFICES ASSUME RmInv, [Next]_vars PROVE NameSet' /\ EnvSet'
  BY TypeStep DEF RmInv
<1>1. ASSUME NEW c \in Cmd, Moves(c) PROVE NameSet' /\ EnvSet'
  <2> USE DEF RmInv, TypeOK
  <2>1. \A d \in Cmd \ {c} : pc'[d] = pc[d] /\ name'[d] = name[d] /\ env'[d] = env[d]
    BY <1>1, OthersWait
  <2>2. /\ pc'[c] \in {"open", "write"} \cup Linking => name'[c] \in Name /\ env'[c].repo # "none"
        /\ pc'[c] = "compare" => env'[c].repo # "none"
    <3>1. CASE pc'[c] \in {"done", "store", "target", "answer"}
      BY <3>1 DEF Linking
    <3>2. CASE Answer(c) /\ pc'[c] = "compare"
      BY <3>2 DEF Answer, Answers, Return, Linking
    <3>3. CASE Compare(c) /\ pc'[c] = "open"
      <4>1. pc[c] = "compare" /\ env' = env /\ name'[c] = <<env[c].repo, day>>
        BY <3>3 DEF Compare, Return
      <4>2. env[c].repo \in Repo /\ env[c].repo # "none"
        BY <4>1 DEF EnvSet, Env
      <4> QED BY <3>3, <4>1, <4>2 DEF Name
    <3>4. CASE Open(c) \/ Write(c) \/ ExistsDefault(c) \/ IsSymlink(c) \/ Unlink(c)
      <4>1. pc[c] \in {"open", "write"} \cup Linking /\ name' = name /\ env' = env
            /\ pc'[c] # "compare"
        BY <3>4 DEF Open, Write, ExistsDefault, IsSymlink, Unlink, mine, Linking, Goto, Return
      <4> QED BY <4>1 DEF NameSet
    <3> QED BY <1>1, <3>1, <3>2, <3>3, <3>4, WhereTo
  <2> QED BY <2>1, <2>2 DEF NameSet, EnvSet
<1>2. CASE World \/ UNCHANGED vars
  BY <1>2, WorldWaits DEF RmInv, NameSet, EnvSet
<1> QED BY <1>1, <1>2 DEF Next, Moves, World

LEMMA TypeInvariant == Spec => []RmInv
<1>1. Init => RmInv
  <2> SUFFICES ASSUME Init PROVE RmInv
    OBVIOUS
  <2>1. Environment \in Env /\ Raw("absent") \in Doc
    BY DocTypes
  <2>2. PICK d \in [is : {"absent", "doc"}, env : Env, camel : {FALSE}], r \in Repo :
             /\ files = [n \in Name |-> IF n = <<r, 1>> THEN d ELSE Raw("absent")]
             /\ default \in {NoLink, <<r, 1>>}
             /\ remote \in [Cmd -> {Default, <<r, 1>>}]
    BY DEF Init
  <2>3. d \in Doc
    BY DEF Doc
  <2>4. <<r, 1>> \in Name
    BY RemotesAssumption DEF Name
  <2>5. files \in [Name -> Doc] /\ default \in Name \cup {NoLink, Astray}
        /\ remote \in [Cmd -> Name \cup {Default}]
    BY <2>1, <2>2, <2>3, <2>4
  <2>6. local \in [is : {"absent", "empty", "garbled", "doc"}, remote : Name \cup {Default}]
    BY DEF Init
  <2>7. day \in 1..Days /\ edits \in 0..MaxEdits /\ faults \in 0..MaxFaults
    BY RemotesAssumption DEF Init
  <2>8. cur \in Env
    BY DEF Init, Env
  <2>9. printed \in [from : {"nobody", "commit", "stop"}, image : Env, doc : Doc]
    BY <2>1 DEF Init
  <2>10. /\ kind \in [Cmd -> {"init", "commit", "stop", "other"}]
         /\ rxroot \in [Cmd -> {"absolute", "relative"}]
         /\ pc \in [Cmd -> PcState] /\ result \in [Cmd -> Results]
         /\ want \in [Cmd -> Env] /\ env \in [Cmd -> Env]
         /\ name \in [Cmd -> Name \cup {NoLink}] /\ calm \in SUBSET Cmd
    BY <2>1 DEF Init, PcState, Results
  <2>11. NameSet /\ EnvSet
    BY DEF Init, NameSet, EnvSet, Linking
  <2> QED BY <2>5, <2>6, <2>7, <2>8, <2>9, <2>10, <2>11 DEF RmInv, TypeOK
<1> QED BY <1>1, NamesStep, PTL DEF Spec

\* The variables keep their types, for any processes, repositories and bounds.
THEOREM RemotesTypeCorrect == Spec => []TypeOK
<1>1. RmInv => TypeOK
  BY DEF RmInv
<1> QED BY <1>1, TypeInvariant, PTL

\* The lines that were printed are those of their command for their image.
PrintedIs == printed.from # "nobody" => printed.doc = Prints(printed.from, printed.image)

LEMMA PrintedStep == RmInv /\ PrintedIs /\ [Next]_vars => PrintedIs'
<1> SUFFICES ASSUME RmInv, PrintedIs, [Next]_vars PROVE PrintedIs'
  OBVIOUS
<1>1. ASSUME NEW c \in Cmd, Moves(c) PROVE PrintedIs'
  <2>1. CASE PrintImage(c)
    BY <2>1 DEF PrintImage, PrintedIs, Prints, MessageToDict
  <2>2. CASE printed' = printed
    BY <2>2 DEF PrintedIs, Prints, MessageToDict
  <2> QED BY <1>1, <2>1, <2>2, DiskAndHistory
<1>2. CASE World \/ UNCHANGED vars
  BY <1>2, WorldWaits DEF PrintedIs, Prints, MessageToDict
<1> QED BY <1>1, <1>2 DEF Next, Moves, World

LEMMA PrintedInvariant == Spec => []PrintedIs
<1>1. Init => PrintedIs
  BY DEF Init, PrintedIs
<1> QED BY <1>1, PrintedStep, TypeInvariant, PTL DEF Spec

\* For any processes: an rx init that reads the lines that rx ws commit printed asks
\* for the image that they were printed for, its variables included.
THEOREM CommittedIsAskedFor == Spec => CommitLinesWork
<1> DEFINE Works == \A c \in Cmd : LinesWork("commit", c)
<1>1. ASSUME RmInv, PrintedIs, [Next]_vars PROVE [Works]_vars
  <2> SUFFICES ASSUME NEW c \in Cmd, Next, pc[c] = "target", pc'[c] = "answer",
                      printed.from = "commit", At(remote[c]) = printed.doc
               PROVE  want'[c] = printed.image
    BY <1>1 DEF LinesWork
  <2>1. GetTargetEnv(c)
    <3>1. ASSUME NEW d \in Cmd, Moves(d) PROVE GetTargetEnv(c)
      <4>1. d = c
        BY <1>1, <3>1, OthersWait DEF RmInv
      <4> QED BY <1>1, <3>1, <4>1, WhereTo DEF RmInv
    <3>2. ~World
      BY WorldWaits
    <3> QED BY <3>1, <3>2 DEF Next, Moves, World
  <2>2. printed.image \in Env
    BY <1>1 DEF RmInv, TypeOK
  <2>3. env_dict_to_pb(At(remote[c])) = printed.image
    BY <1>1, <2>2, RoundTrip DEF PrintedIs, Prints
  <2> QED BY <1>1, <2>1, <2>3 DEF GetTargetEnv, Goto, Return, RmInv, TypeOK
<1> QED BY <1>1, TypeInvariant, PrintedInvariant, PTL DEF Spec, CommitLinesWork

(***************************************************************************)
(* Empty files, and processes that nothing overlaps                        *)
(***************************************************************************)

LEMMA EmptyStep == RmInv /\ PrintedIs /\ EmptyIfKilled /\ [Next]_vars => EmptyIfKilled'
<1> SUFFICES ASSUME RmInv, PrintedIs, EmptyIfKilled, [Next]_vars,
                    NEW n \in Name, files'[n].is = "empty", ~(faults' > 0)
             PROVE  \E d \in Cmd : pc'[d] = "write" /\ name'[d] = n
  BY DEF EmptyIfKilled
<1> USE DEF RmInv, TypeOK
<1>1. ASSUME NEW c \in Cmd, Moves(c)
      PROVE  \E d \in Cmd : pc'[d] = "write" /\ name'[d] = n
  <2>1. \A d \in Cmd \ {c} : pc'[d] = pc[d] /\ name'[d] = name[d]
    BY <1>1, OthersWait
  <2>2. ~Kill(c) /\ faults' = faults
    BY <1>1, RemotesAssumption, DiskAndHistory DEF Kill
  <2>3. CASE Open(c) /\ name[c] = n
    BY <2>3 DEF Open, Goto, mine
  <2>4. CASE ~(Open(c) /\ name[c] = n)
    <3>1. files'[n] = files[n] \/ (Write(c) /\ name[c] = n)
      BY <1>1, <2>4, DiskAndHistory DEF Open, Write
    <3>2. ~(Write(c) /\ name[c] = n)
      <4>1. ASSUME Write(c), name[c] = n PROVE files'[n].is \in {"doc", "garbled"}
        <5>1. files'[n] = Saved(c) \/ files'[n] = Raw("garbled")
          BY <4>1 DEF Write
        <5> QED BY <5>1 DEF Saved, MessageToDict, Raw
      <4> QED BY <4>1
    <3>3. PICK d \in Cmd : pc[d] = "write" /\ name[d] = n
      BY <2>2, <3>1, <3>2 DEF EmptyIfKilled
    <3>4. d # c
      <4>1. ASSUME pc[c] = "write" PROVE Write(c) \/ Kill(c)
        <5>1. Step(c) => Write(c)
          BY <4>1 DEF Step, CreateLocalConfig, Store, LoadConfig, GetTargetEnv, Answer, Compare,
                      Open, ExistsDefault, IsSymlink, Unlink, SymlinkTo, PrintImage
        <5> QED BY <1>1, <5>1 DEF Moves
      <4> QED BY <2>2, <3>2, <3>3, <4>1
    <3> QED BY <2>1, <3>3, <3>4
  <2> QED BY <2>3, <2>4
<1>2. CASE World \/ UNCHANGED vars
  <2>1. UNCHANGED <<faults, pc, name>>
    BY <1>2, WorldWaits
  <2>2. files[n].is = "empty"
    <3>1. CASE Paste
      <4>1. printed.doc.is = "doc"
        BY <3>1 DEF Paste, PrintedIs, Prints, MessageToDict
      <4>2. default \in Name
        BY <3>1, AtDefault DEF Paste, Exists, Raw
      <4> QED BY <3>1, <4>1, <4>2 DEF Paste
    <3>2. ASSUME NEW m \in Name, Delete(m) PROVE files[n].is = "empty"
      BY <3>2 DEF Delete, Raw
    <3>3. CASE Midnight \/ UNCHANGED vars
      BY <3>3 DEF Midnight, vars, disk
    <3> QED BY <1>2, <3>1, <3>2, <3>3 DEF World, User
  <2> QED BY <2>1, <2>2 DEF EmptyIfKilled
<1> QED BY <1>1, <1>2 DEF Next, Moves, World

LEMMA AloneStep == RmInv /\ Alone /\ [Next]_vars => Alone'
<1> SUFFICES ASSUME RmInv, Alone, [Next]_vars PROVE Alone'
  OBVIOUS
<1>0. calm \subseteq Cmd
  BY DEF RmInv, TypeOK
<1>1. ASSUME NEW c \in Cmd, Moves(c) PROVE Alone'
  <2>1. pc'[c] # "new" /\ \A d \in Cmd \ {c} : pc'[d] = pc[d]
    BY <1>1, OthersWait, WhereTo DEF RmInv
  <2>2. CASE Overlaps(c)
    <3>1. CASE \A d \in Cmd : ~Active(d)
      BY <1>0, <2>1, <2>2, <3>1 DEF Overlaps, Alone, Active
    <3>2. CASE ~(\A d \in Cmd : ~Active(d))
      <4>1. calm' = {d \in calm : ~Active(d)}
        BY <2>2, <3>2 DEF Overlaps
      <4>2. CASE pc[c] = "new"
        BY <1>0, <2>1, <4>1, <4>2 DEF Alone, Active
      <4>3. CASE pc[c] # "new"
        BY <1>0, <1>1, <2>1, <4>1, <4>3, DiskAndHistory DEF Alone, Active
      <4> QED BY <4>2, <4>3
    <3> QED BY <3>1, <3>2
  <2>3. CASE Active(c) /\ calm' = calm
    BY <1>0, <2>1, <2>3 DEF Alone, Active
  <2> QED BY <1>1, <2>2, <2>3, DiskAndHistory
<1>2. CASE World \/ UNCHANGED vars
  BY <1>2, WorldWaits DEF Alone, Active
<1> QED BY <1>1, <1>2 DEF Next, Moves, World

\* What a process on its own has done is not undone by another's step.
LEMMA OthersSoFar ==
  ASSUME RmInv, Alone, NEW c \in Cmd, Moves(c), NEW x \in calm', x # c
  PROVE  pc'[x] = "done"
<1>1. calm \subseteq Cmd
  BY DEF RmInv, TypeOK
<1>2. \A d \in Cmd \ {c} : pc'[d] = pc[d]
  BY OthersWait DEF RmInv
<1>3. x \in calm /\ ~Active(x)
  <2>1. CASE Overlaps(c)
    BY <1>1, <2>1 DEF Overlaps
  <2>2. CASE Active(c) /\ calm' = calm
    BY <1>1, <2>2 DEF Alone
  <2> QED BY <2>1, <2>2, DiskAndHistory
<1> QED BY <1>1, <1>2, <1>3 DEF Alone, Active

\* The steps of an rx init on its own: the file that is saved and the link,
LEMMA SavedSteps ==
  ASSUME RmInv, RmInv', NEW c \in Cmd, Moves(c), SavedSoFar(c) PROVE SavedSoFar(c)'
<1> USE DEF SavedSoFar, Linking
<1>0. /\ pc'[c] \in {"open", "write"} \cup Linking => name'[c] \in Name
      /\ pc'[c] \in {"compare", "open", "write"} \cup Linking => env'[c].repo # "none"
  BY DEF RmInv, NameSet, EnvSet
<1>1. CASE pc'[c] \in {"done", "store", "target", "answer", "compare", "open"}
  BY <1>0, <1>1
<1>2. CASE Open(c) /\ pc'[c] = "write"
  <2>1. name' = name /\ files'[name[c]] = Raw("empty")
    BY <1>0, <1>2 DEF Open, mine, RmInv, TypeOK
  <2> QED BY <1>0, <1>2, <2>1 DEF Raw
<1>3. CASE Write(c) /\ pc'[c] = "exists"
  <2>1. name' = name /\ env' = env /\ pc[c] = "write"
    BY <1>3 DEF Write, mine
  <2>2. files'[name[c]] = Saved(c)
    BY <1>0, <1>3, <2>1 DEF Write, RmInv, TypeOK
  <2> QED BY <1>0, <1>3, <2>1, <2>2 DEF Saved, MessageToDict
<1>4. CASE /\ \/ ExistsDefault(c) /\ pc'[c] = "islink"
              \/ IsSymlink(c)
           /\ pc'[c] \in {"islink", "unlink", "symlink"}
  <2>1. /\ UNCHANGED <<name, env, files, default>> /\ pc[c] \in {"exists", "islink"}
        /\ ~Exists(Default)
        /\ pc'[c] = "symlink" => default = NoLink
    BY <1>4 DEF ExistsDefault, IsSymlink, mine, disk, Goto, Return, RmInv, TypeOK
  <2>2. Exists(Default)' = Exists(Default)
    BY <2>1 DEF Exists, At, Followed, Raw
  <2>3. files'[name'[c]] = MessageToDict(env[c], TRUE)
    BY <2>1
  <2> QED BY <1>0, <1>4, <2>1, <2>2, <2>3 DEF MessageToDict
<1>5. CASE Unlink(c) /\ pc'[c] = "symlink"
  <2>1. UNCHANGED <<name, env, files>> /\ default' = NoLink /\ pc[c] = "unlink"
    BY <1>5 DEF Unlink, mine
  <2>2. ~Exists(Default)'
    BY <2>1, Paths DEF Exists, At, Followed, Raw
  <2>3. files'[name'[c]] = MessageToDict(env[c], TRUE)
    BY <2>1
  <2> QED BY <1>0, <1>5, <2>1, <2>2, <2>3 DEF MessageToDict
<1> QED BY <1>1, <1>2, <1>3, <1>4, <1>5, WhereTo DEF RmInv

\* and what was asked for, where there is no --remote.
LEMMA AskedSteps ==
  ASSUME RmInv, RmInv', NEW c \in Cmd, Moves(c), remote[c] = Default, AskedSoFar(c)
  PROVE  AskedSoFar(c)'
<1> USE DEF AskedSoFar
<1>1. CASE pc'[c] \notin {"answer", "compare", "open", "write", "exists"}
  BY <1>1
<1>2. CASE GetTargetEnv(c) /\ pc'[c] = "answer"
  <2>1. /\ At(Default).is # "garbled" /\ want'[c] = env_dict_to_pb(At(Default))
        /\ UNCHANGED <<files, default>>
    BY <1>2 DEF GetTargetEnv, Return, disk, RmInv, TypeOK
  <2>2. At(Default)' = At(Default)
    BY <2>1 DEF At, Followed, Raw
  <2> QED BY <1>2, <2>1, <2>2 DEF env_dict_to_pb
<1>3. CASE Answer(c) /\ pc[c] = "answer" /\ pc'[c] = "compare"
  <2>1. Answers(want[c], env'[c]) /\ UNCHANGED <<files, default>>
    BY <1>3 DEF Answer, Return, disk, RmInv, TypeOK
  <2>2. At(Default)' = At(Default)
    BY <2>1 DEF At, Followed, Raw
  <2> QED BY <1>3, <2>1, <2>2 DEF env_dict_to_pb, Answers
<1>4. CASE Compare(c) /\ pc[c] = "compare" /\ pc'[c] = "open"
  <2>1. UNCHANGED <<files, default, env>>
    BY <1>4 DEF Compare, disk
  <2>2. At(Default)' = At(Default)
    BY <2>1 DEF At, Followed, Raw
  <2> QED BY <1>4, <2>1, <2>2 DEF env_dict_to_pb, Answers
<1>5. CASE (Open(c) \/ Write(c)) /\ pc[c] \in {"open", "write"} /\ pc'[c] \in {"write", "exists"}
  <2>1. /\ UNCHANGED <<default, env, name>>
        /\ \A n \in Name : n # name[c] => files'[n] = files[n]
    BY <1>5 DEF Open, Write, mine, RmInv, TypeOK
  <2>2. CASE default = name[c]
    BY <1>5, <2>1, <2>2
  <2>3. CASE default # name[c]
    <3>1. default \in Name \cup {NoLink, Astray}
      BY DEF RmInv, TypeOK
    <3>2. At(Default)' = At(Default)
      BY <2>1, <2>3, <3>1 DEF At, Followed, Raw
    <3>3. At(Default).is # "garbled" /\ Answers(env_dict_to_pb(At(Default)), env[c])
      BY <1>5, <2>3
    <3> QED BY <1>5, <2>1, <3>2, <3>3 DEF env_dict_to_pb, Answers
  <2> QED BY <2>2, <2>3
<1> QED BY <1>1, <1>2, <1>3, <1>4, <1>5, WhereTo DEF RmInv

LEMMA SoFarStep == RmInv /\ RmInv' /\ Alone /\ SoFar /\ [Next]_vars => SoFar'
<1> SUFFICES ASSUME RmInv, RmInv', Alone, SoFar, [Next]_vars, NEW x \in calm'
             PROVE  /\ SavedSoFar(x)'
                    /\ remote'[x] = Default => AskedSoFar(x)'
  BY DEF SoFar
<1> DEFINE Held == /\ SavedSoFar(x)'
                   /\ remote'[x] = Default => AskedSoFar(x)'
<1>1. ASSUME pc'[x] = "done" PROVE Held
  BY <1>1 DEF SavedSoFar, AskedSoFar, Active, Linking
<1>2. ASSUME NEW c \in Cmd, Moves(c) PROVE Held
  <2>1. CASE x # c
    BY <1>1, <1>2, <2>1, OthersSoFar
  <2>2. CASE x = c
    <3>1. remote' = remote
      BY <1>2, OthersWait DEF RmInv
    <3>2. SavedSoFar(c) /\ (remote[c] = Default => AskedSoFar(c))
      <4>1. CASE pc[c] = "new"
        BY <4>1 DEF SavedSoFar, AskedSoFar, Active, Linking
      <4>2. CASE calm' = calm
        BY <2>2, <4>2 DEF SoFar
      <4> QED BY <1>2, <4>1, <4>2, DiskAndHistory
    <3>4. SavedSoFar(c)'
      BY <1>2, <3>2, SavedSteps
    <3>5. remote[c] = Default => AskedSoFar(c)'
      BY <1>2, <3>2, AskedSteps
    <3> QED BY <2>2, <3>1, <3>4, <3>5
  <2> QED BY <2>1, <2>2
<1>3. CASE World \/ UNCHANGED vars
  <2>1. UNCHANGED <<local, default, remote, pc, name, env, want>>
    BY <1>3, WorldWaits
  <2>2. CASE calm' = {c \in calm : ~Active(c)}
    BY <1>1, <2>1, <2>2 DEF Alone, Active
  <2>3. CASE calm' = calm /\ files' = files
    <3>1. SavedSoFar(x) /\ (remote[x] = Default => AskedSoFar(x))
      BY <2>3 DEF SoFar
    <3>3. At(Default)' = At(Default)
      BY <2>1, <2>3 DEF At, Followed, Raw
    <3>4. SavedSoFar(x)'
      BY <2>1, <2>3, <3>1, <3>3 DEF SavedSoFar, Exists, MessageToDict
    <3>5. remote[x] = Default => AskedSoFar(x)'
      BY <2>1, <3>1, <3>3 DEF AskedSoFar, env_dict_to_pb, Answers
    <3> QED BY <2>1, <3>4, <3>5
  <2> QED BY <1>3, <2>2, <2>3, WorldWaits
<1> QED BY <1>2, <1>3 DEF Next, Moves, World

LEMMA CalmInvariant == Spec => [](Alone /\ SoFar /\ EmptyIfKilled)
<1>1. Init => Alone /\ SoFar
  BY DEF Init, Alone, SoFar
<1>2. Init => EmptyIfKilled
  <2> SUFFICES ASSUME Init, NEW n \in Name PROVE files[n].is # "empty"
    BY DEF EmptyIfKilled
  <2>1. PICK d \in [is : {"absent", "doc"}, env : Env, camel : {FALSE}], r \in Repo :
             files = [m \in Name |-> IF m = <<r, 1>> THEN d ELSE Raw("absent")]
    BY DEF Init
  <2>2. files[n] = d \/ files[n] = Raw("absent")
    BY <2>1
  <2> QED BY <2>2 DEF Raw
<1> QED BY <1>1, <1>2, AloneStep, SoFarStep, EmptyStep, TypeInvariant, PrintedInvariant, PTL
        DEF Spec

(***************************************************************************)
(* The theorems                                                            *)
(***************************************************************************)

\* For any processes: what an rx init on its own has saved reads back as what it got.
THEOREM SavedReadsBack == Spec => []SavedIsGot
<1>1. RmInv /\ SoFar => SavedIsGot
  <2> SUFFICES ASSUME RmInv, SoFar, NEW c \in calm,
                      pc[c] \in {"exists", "islink", "unlink", "symlink"}
               PROVE  env_dict_to_pb(files[name[c]]) = env[c]
    BY DEF SavedIsGot
  <2>1. env[c] \in Env
    BY DEF RmInv, TypeOK
  <2>2. files[name[c]] = MessageToDict(env[c], TRUE)
    BY DEF SoFar, SavedSoFar, Linking
  <2> QED BY <2>1, <2>2, RoundTrip
<1> QED BY <1>1, CalmInvariant, TypeInvariant, PTL

\* For any processes: an rx init on its own moves the default only where it leads
\* nowhere, and to a file that is written, or nowhere where its --rxroot is relative.
THEOREM LinkMovesSafely == Spec => LinkIsSafe
<1> DEFINE Safe == \A c \in calm : Active(c) /\ default' # default =>
        /\ ~Exists(Default)
        /\ \/ default' = NoLink \/ At(Default)'.is = "doc"
           \/ rxroot[c] = "relative" /\ default' = Astray
<1>1. ASSUME RmInv, Alone, SoFar, [Next]_vars PROVE [Safe]_vars
  <2> SUFFICES ASSUME NEW c \in calm, Next, Active(c), default' # default
               PROVE  /\ ~Exists(Default)
                      /\ \/ default' = NoLink \/ At(Default)'.is = "doc"
                         \/ rxroot[c] = "relative" /\ default' = Astray
    BY <1>1
  <2>1. c \in Cmd
    BY <1>1 DEF RmInv, TypeOK
  <2>2. SavedSoFar(c)
    BY <1>1 DEF SoFar
  <2>3. Unlink(c) \/ SymlinkTo(c)
    <3>1. ASSUME NEW d \in Cmd, Moves(d) PROVE Unlink(c) \/ SymlinkTo(c)
      <4>1. Unlink(d) \/ SymlinkTo(d)
        BY <3>1, DiskAndHistory
      <4>2. Active(d)
        BY <4>1 DEF Unlink, SymlinkTo, Active
      <4> QED BY <1>1, <4>1, <4>2 DEF Alone
    <3>2. ~World
      BY WorldWaits
    <3> QED BY <3>1, <3>2 DEF Next, Moves, World
  <2>4. CASE Unlink(c)
    BY <2>2, <2>4 DEF Unlink, SavedSoFar
  <2>5. CASE SymlinkTo(c)
    <3>1. pc[c] = "symlink" /\ default' = Target(c) /\ files' = files
      BY <2>5 DEF SymlinkTo
    <3>2. ~Exists(Default) /\ files[name[c]] = MessageToDict(env[c], TRUE)
      BY <2>2, <3>1 DEF SavedSoFar, Linking
    <3>3. CASE rxroot[c] = "relative"
      BY <3>1, <3>2, <3>3 DEF Target
    <3>4. CASE rxroot[c] # "relative"
      <4>1. default' = name[c] /\ name[c] \in Name
        BY <2>2, <3>1, <3>4 DEF Target, SavedSoFar, Linking
      <4>2. At(Default)' = MessageToDict(env[c], TRUE)
        BY <3>1, <3>2, <4>1, Paths DEF At, Followed
      <4> QED BY <3>2, <4>2 DEF MessageToDict
    <3> QED BY <3>3, <3>4
  <2> QED BY <2>3, <2>4, <2>5
<1> QED BY <1>1, TypeInvariant, CalmInvariant, PTL DEF Spec, LinkIsSafe

\* An rx init returns 0 when there is nothing to save, when there is a default, or
\* when it has made one.
LEMMA HowInitEnds ==
  ASSUME TypeOK, NEW c \in Cmd, Next, kind[c] = "init", Ends(c, "0")
  PROVE  Compare(c) \/ ExistsDefault(c) \/ SymlinkTo(c)
<1> USE DEF Ends, Goto, Return, TypeOK
<1>1. ASSUME NEW d \in Cmd, Moves(d) PROVE Compare(c) \/ ExistsDefault(c) \/ SymlinkTo(c)
  <2>1. d = c
    BY <1>1, OthersWait
  <2>2. CASE CreateLocalConfig(c) \/ Store(c) \/ LoadConfig(c) \/ PrintImage(c) \/ Kill(c)
    BY <2>2 DEF CreateLocalConfig, Store, LoadConfig, PrintImage, Kill
  <2>3. CASE GetTargetEnv(c) \/ Answer(c) \/ Open(c) \/ Write(c)
    BY <2>3 DEF GetTargetEnv, Answer, Open, Write
  <2>4. CASE IsSymlink(c) \/ Unlink(c)
    BY <2>4 DEF IsSymlink, Unlink
  <2> QED BY <1>1, <2>1, <2>2, <2>3, <2>4 DEF Moves, Step
<1>2. CASE World
  BY <1>2, WorldWaits
<1> QED BY <1>1, <1>2 DEF Next, Moves, World

\* For any processes: after an rx init on its own without --remote the default can be
\* read and asks for what the workspace has, or a killed process has emptied it; unless
\* its --rxroot is relative and it has made a link that leads nowhere.
THEOREM DefaultAsks == Spec => DefaultAsksForIt
<1> DEFINE Asks == \A c \in calm : kind[c] = "init" /\ Ends(c, "0") /\ remote[c] = Default =>
        \/ /\ At(Default)'.is = "doc" \/ (faults > 0 /\ At(Default)'.is = "empty")
           /\ Answers(env_dict_to_pb(At(Default)'), env[c])
        \/ rxroot[c] = "relative" /\ ~Exists(Default) /\ default' = Astray
<1>1. ASSUME RmInv, Alone, SoFar, EmptyIfKilled, [Next]_vars PROVE [Asks]_vars
  <2> SUFFICES ASSUME NEW c \in calm, Next, kind[c] = "init", Ends(c, "0"), remote[c] = Default
               PROVE  \/ /\ At(Default)'.is = "doc" \/ (faults > 0 /\ At(Default)'.is = "empty")
                         /\ Answers(env_dict_to_pb(At(Default)'), env[c])
                      \/ rxroot[c] = "relative" /\ ~Exists(Default) /\ default' = Astray
    BY <1>1
  <2>1. c \in Cmd /\ env[c] \in Env
    BY <1>1 DEF RmInv, TypeOK
  <2>2. SavedSoFar(c) /\ AskedSoFar(c)
    BY <1>1 DEF SoFar
  <2>3. env[c].repo # "none" => Answers(env[c], env[c])
    BY DEF Answers
  <2>4. MessageToDict(env[c], TRUE).is = "doc" /\ env_dict_to_pb(MessageToDict(env[c], TRUE)) = env[c]
    BY <2>1, RoundTrip DEF MessageToDict
  <2>5. CASE Compare(c)
    <3>1. /\ pc[c] = "compare" /\ UNCHANGED <<files, default>>
          /\ env_dict_to_pb(At(Default)) = env[c]
      BY <1>1, <2>1, <2>5 DEF Compare, disk, Goto, Return, Ends, RmInv, TypeOK
    <3>2. env[c].repo # "none"
      BY <2>2, <3>1 DEF SavedSoFar
    <3>3. At(Default).is = "doc"
      BY <3>1, <3>2 DEF env_dict_to_pb, Environment
    <3>4. At(Default)' = At(Default)
      BY <3>1 DEF At, Followed, Raw
    <3> QED BY <2>3, <3>1, <3>2, <3>3, <3>4
  <2>6. CASE ExistsDefault(c)
    <3>1. pc[c] = "exists" /\ UNCHANGED <<files, default>> /\ Exists(Default)
      BY <1>1, <2>1, <2>6 DEF ExistsDefault, disk, Goto, Ends, RmInv, TypeOK
    <3>2. At(Default)' = At(Default)
      BY <3>1 DEF At, Followed, Raw
    <3>3. default \in Name /\ At(Default) = files[default] /\ At(Default) \in Doc
      BY <1>1, <3>1, AtDefault, AtType DEF Exists, Raw, RmInv, TypeOK
    <3>4. env[c].repo # "none" /\ files[name[c]] = MessageToDict(env[c], TRUE)
      BY <2>2, <3>1 DEF SavedSoFar, Linking
    <3>5. CASE default = name[c]
      BY <2>3, <2>4, <3>2, <3>3, <3>4, <3>5
    <3>6. CASE default # name[c]
      <4>1. At(Default).is # "garbled" /\ Answers(env_dict_to_pb(At(Default)), env[c])
        BY <2>2, <3>1, <3>6 DEF AskedSoFar
      <4>2. At(Default).is \in {"doc", "empty"}
        BY <3>1, <3>3, <4>1 DEF Exists, Doc
      <4>3. At(Default).is = "empty" => faults > 0
        <5>1. \A d \in Cmd : pc[d] # "write"
          BY <1>1, <2>1, <3>1 DEF Alone, Active
        <5> QED BY <1>1, <3>3, <5>1 DEF EmptyIfKilled
      <4> QED BY <3>2, <4>1, <4>2, <4>3
    <3> QED BY <3>5, <3>6
  <2>7. CASE SymlinkTo(c)
    <3>1. pc[c] = "symlink" /\ default' = Target(c) /\ files' = files
      BY <1>1, <2>1, <2>7 DEF SymlinkTo, Return, Ends, RmInv, TypeOK
    <3>2. /\ env[c].repo # "none" /\ name[c] \in Name
          /\ files[name[c]] = MessageToDict(env[c], TRUE)
      BY <2>2, <3>1 DEF SavedSoFar, Linking
    <3>3. CASE rxroot[c] = "relative"
      BY <2>2, <3>1, <3>3 DEF Target, SavedSoFar
    <3>4. CASE rxroot[c] # "relative"
      <4>1. At(Default)' = MessageToDict(env[c], TRUE)
        BY <3>1, <3>2, <3>4, Paths DEF At, Followed, Target
      <4> QED BY <2>3, <2>4, <3>2, <4>1
    <3> QED BY <3>3, <3>4
  <2> QED BY <1>1, <2>1, <2>5, <2>6, <2>7, HowInitEnds DEF RmInv
<1> QED BY <1>1, TypeInvariant, CalmInvariant, PTL DEF Spec, DefaultAsksForIt

(***************************************************************************)
(* Whatever overlaps: the default and the local config                     *)
(***************************************************************************)

\* Only rx init takes several steps, it has a result when it has ended, and a name
\* when it saves.
Progress ==
  \A c \in Cmd :
     /\ Active(c) => kind[c] = "init"
     /\ pc[c] # "done" => result[c] = "none"
     /\ pc[c] \in {"new", "store", "target", "answer", "compare"} => name[c] = NoLink

LEMMA ProgressStep == RmInv /\ Progress /\ [Next]_vars => Progress'
<1> SUFFICES ASSUME RmInv, Progress, [Next]_vars PROVE Progress'
  OBVIOUS
<1>1. ASSUME NEW c \in Cmd, Moves(c) PROVE Progress'
  <2> USE DEF RmInv, TypeOK
  <2>1. /\ kind' = kind
        /\ \A d \in Cmd \ {c} : pc'[d] = pc[d] /\ name'[d] = name[d] /\ result'[d] = result[d]
    BY <1>1, OthersWait
  <2>2. pc'[c] # "new" /\ (Active(c)' => kind[c] = "init")
    BY <1>1, WhereTo DEF Progress, Active, CreateLocalConfig
  <2>3. pc'[c] # "done" => result'[c] = "none"
    <3> USE DEF Goto, Return
    <3>1. pc[c] # "done" => result[c] = "none"
      BY DEF Progress
    <3>2. CASE CreateLocalConfig(c) \/ Store(c) \/ LoadConfig(c) \/ PrintImage(c) \/ Kill(c)
      BY <3>1, <3>2 DEF CreateLocalConfig, Store, LoadConfig, PrintImage, Kill
    <3>3. CASE GetTargetEnv(c) \/ Answer(c) \/ Compare(c)
      BY <3>1, <3>3 DEF GetTargetEnv, Answer, Compare
    <3>4. CASE Open(c) \/ Write(c) \/ ExistsDefault(c) \/ IsSymlink(c) \/ Unlink(c) \/ SymlinkTo(c)
      BY <3>1, <3>4 DEF Open, Write, ExistsDefault, IsSymlink, Unlink, SymlinkTo
    <3> QED BY <1>1, <3>2, <3>3, <3>4 DEF Moves, Step
  <2>4. pc'[c] \in {"store", "target", "answer", "compare"} => name'[c] = NoLink
    BY <1>1, WhereTo DEF Progress, CreateLocalConfig, Store, GetTargetEnv, Answer, mine
  <2> QED BY <2>1, <2>2, <2>3, <2>4 DEF Progress, Active
<1>2. CASE World \/ UNCHANGED vars
  <2>1. UNCHANGED <<kind, pc, name, result>>
    BY <1>2, WorldWaits DEF World, User, Paste, Delete, Midnight, vars
  <2> QED BY <2>1 DEF Progress, Active
<1> QED BY <1>1, <1>2 DEF Next, Moves, World

\* An rx init that is at p, or was killed, stays so, unless it goes on itself.
Stands(d, p) == kind[d] = "init" /\ (pc[d] = p \/ result[d] = "killed")
LEMMA Stays ==
  ASSUME RmInv, Progress, NEW c \in Cmd, Moves(c), NEW p, NEW d \in Cmd, Stands(d, p),
         d = c => Kill(c) \/ pc[c] # p
  PROVE  Stands(d, p)'
<1>1. kind' = kind /\ (d # c => pc'[d] = pc[d] /\ result'[d] = result[d])
  BY OthersWait DEF RmInv
<1>2. CASE d # c
  BY <1>1, <1>2 DEF Stands
<1>3. CASE d = c /\ Kill(c)
  BY <1>1, <1>3 DEF Stands, Kill, Return, RmInv, TypeOK
<1>4. CASE d = c /\ pc[c] # p
  <2>1. pc[c] = "done"
    BY <1>4 DEF Stands, Progress
  <2> QED BY <2>1, DiskAndHistory DEF Active
<1> QED BY <1>2, <1>3, <1>4

LEMMA StaysStep ==
  RmInv /\ Progress /\ DefaultStays /\ LocalKept /\ [Next]_vars => DefaultStays' /\ LocalKept'
<1> SUFFICES ASSUME RmInv, Progress, DefaultStays, LocalKept, [Next]_vars
             PROVE  DefaultStays' /\ LocalKept'
  OBVIOUS
<1>1. ASSUME NEW c \in Cmd, Moves(c) PROVE LocalKept'
  <2> SUFFICES ASSUME local'.is = "empty" PROVE \E d \in Cmd : Stands(d, "store")'
    BY DEF LocalKept, Stands
  <2>1. CASE CreateLocalConfig(c) /\ pc'[c] = "store"
    BY <1>1, <2>1, OthersWait DEF CreateLocalConfig, Stands, RmInv
  <2>2. CASE ~(CreateLocalConfig(c) /\ pc'[c] = "store")
    <3>1. ~Store(c)
      <4>1. ASSUME Store(c) PROVE local'.is \in {"doc", "garbled"}
        BY <4>1 DEF Store, RmInv, TypeOK
      <4> QED BY <4>1
    <3>2. local' = local
      BY <1>1, <2>2, <3>1, DiskAndHistory DEF CreateLocalConfig, Goto, RmInv, TypeOK
    <3>3. PICK d \in Cmd : Stands(d, "store")
      BY <3>2 DEF LocalKept, Stands
    <3>4. pc[c] = "store" => Kill(c)
      BY <1>1, <3>1
         DEF Moves, Step, CreateLocalConfig, LoadConfig, GetTargetEnv, Answer, Compare, Open, Write,
             ExistsDefault, IsSymlink, Unlink, SymlinkTo, PrintImage
    <3>5. Stands(d, "store")'
      BY <1>1, <3>3, <3>4, Stays
    <3> QED BY <3>5
  <2> QED BY <2>1, <2>2
<1>2. ASSUME NEW c \in Cmd, Moves(c) PROVE DefaultStays'
  <2> SUFFICES ASSUME default' = NoLink, NEW x \in Cmd, SavedBy(x)'
               PROVE  \E d \in Cmd : Stands(d, "symlink")'
    BY DEF DefaultStays, Stands
  <2>1. ~(SymlinkTo(c) /\ default = NoLink)
    <3>1. ASSUME SymlinkTo(c), default = NoLink PROVE default' \in Name \cup {Astray}
      BY <3>1 DEF SymlinkTo, Target, RmInv, NameSet, Linking
    <3> QED BY <3>1, Paths
  <2>2. CASE Unlink(c) /\ pc'[c] = "symlink"
    <3>1. kind'[c] = "init"
      BY <1>2, <2>2, OthersWait DEF Unlink, Progress, Active, RmInv
    <3> QED BY <2>2, <3>1 DEF Stands
  <2>3. CASE ~(Unlink(c) /\ pc'[c] = "symlink")
    <3>1. default = NoLink
      BY <1>2, <2>1, <2>3, DiskAndHistory DEF Unlink, SymlinkTo, Goto, RmInv, TypeOK
    <3>2. SavedBy(x)
      <4>1. CASE x # c
        BY <1>2, <4>1, OthersWait DEF SavedBy, RmInv
      <4>2. CASE x = c
        <5> USE DEF Goto, Return, RmInv, TypeOK
        <5>1. pc[c] # "done"
          BY <1>2, DiskAndHistory DEF Active
        <5>2. result[c] = "none" /\ result'[c] = "0"
          BY <4>2, <5>1 DEF Progress, SavedBy
        <5>3. CASE CreateLocalConfig(c) \/ Store(c) \/ Kill(c) \/ GetTargetEnv(c) \/ Answer(c)
          BY <5>2, <5>3 DEF CreateLocalConfig, Store, Kill, GetTargetEnv, Answer
        <5>4. CASE LoadConfig(c) \/ PrintImage(c) \/ Compare(c)
          <6>1. name[c] = NoLink /\ name'[c] = NoLink
            BY <5>2, <5>4 DEF LoadConfig, PrintImage, Compare, Progress, mine
          <6> QED BY <4>2, <6>1 DEF SavedBy
        <5>5. CASE Open(c) \/ Write(c) \/ IsSymlink(c) \/ Unlink(c)
          BY <5>2, <5>5 DEF Open, Write, IsSymlink, Unlink
        <5>6. CASE ExistsDefault(c)
          BY <3>1, <5>2, <5>6, AtDefault, Paths DEF ExistsDefault, Exists, Raw
        <5>7. CASE SymlinkTo(c)
          BY <2>1, <3>1, <5>7
        <5> QED BY <1>2, <5>3, <5>4, <5>5, <5>6, <5>7 DEF Moves, Step
      <4> QED BY <4>1, <4>2
    <3>3. PICK d \in Cmd : Stands(d, "symlink")
      BY <3>1, <3>2 DEF DefaultStays, Stands
    <3>4. pc[c] = "symlink" => Kill(c)
      BY <1>2, <2>1, <3>1
         DEF Moves, Step, CreateLocalConfig, Store, LoadConfig, GetTargetEnv, Answer, Compare, Open,
             Write, ExistsDefault, IsSymlink, Unlink, PrintImage
    <3>5. Stands(d, "symlink")'
      BY <1>2, <3>3, <3>4, Stays
    <3> QED BY <3>5
  <2> QED BY <2>2, <2>3
<1>3. CASE World \/ UNCHANGED vars
  <2>1. UNCHANGED <<local, default, kind, pc, name, result>>
    BY <1>3, WorldWaits DEF World, User, Paste, Delete, Midnight, vars
  <2> QED BY <2>1 DEF DefaultStays, SavedBy, LocalKept
<1> QED BY <1>1, <1>2, <1>3 DEF Next, Moves, World

LEMMA StaysInvariant == Spec => [](DefaultStays /\ LocalKept)
<1>1. Init => Progress /\ DefaultStays /\ LocalKept
  BY DEF Init, Progress, DefaultStays, SavedBy, LocalKept, Active
<1> QED BY <1>1, ProgressStep, StaysStep, TypeInvariant, PTL DEF Spec

\* For any processes, however they overlap: once an rx init has saved a file and
\* returned 0 there is a default, but while another one replaces it or was killed.
THEOREM DefaultIsKept == Spec => []DefaultStays
BY StaysInvariant, PTL

\* For any processes, however they overlap and fail: the local config is empty only
\* while an rx init writes it, or when one was killed.
THEOREM LocalIsKept == Spec => []LocalKept
BY StaysInvariant, PTL
=============================================================================
