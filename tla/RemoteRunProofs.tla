-------------------------- MODULE RemoteRunProofs --------------------------
(***************************************************************************)
(* Edits made between invocations are never lost, and outputs are copied    *)
(* back, for any number of invocations and files.                          *)
(***************************************************************************)
EXTENDS RemoteRun, TLAPS

(***************************************************************************)
(* The inductive invariants                                                *)
(***************************************************************************)

\* The workspace moves once for each time it was stowed.
HostInv == IF state = "frozen" THEN host < freezes ELSE host <= freezes

\* An invocation that copies to the worker has yet to read what is dirty, and
\* its list is right about it; after that, nothing is dirty.
EditInv ==
  \A c \in Cmd :
    /\ pc[c] = "push" => \A f \in dirty : f \in left[c] /\ (f \in list[c] <=> here[f] # "absent")
    /\ sync /\ pc[c] \in {"exec", "running"} => dirty = {}
    /\ pc[c] = "pull" => dirty = {}

\* An invocation that copies back, and has not failed, has a list that is right
\* about its outputs, and those it has passed are the same on both sides.
OutputInv ==
  \A c \in Cmd :
    /\ fresh[c] \subseteq wrote[c]
    /\ pc[c] = "pull" => c \notin alive
    /\ pc[c] = "pull" /\ ~bad[c] => \A f \in fresh[c] :
          /\ f \in list[c] <=> there[f] # "absent"
          /\ f \notin left[c] => here[f] = there[f]

\* A program runs for an invocation that waits for it, or that has ended; while a
\* calm invocation is active no other is, no other program runs, and the machine
\* it was answered is still the one.
CalmInv ==
  /\ \A c \in alive : pc[c] \in {"running", "done"}
  /\ \A c \in calm :
       /\ pc[c] # "new"
       /\ Active(c) => alive \subseteq {c} /\ \A d \in Cmd \ {c} : ~Active(d)
       /\ pc[c] = "save" => answer[c] = host

\* What a calm invocation has copied is the same on both sides, and so is what it
\* has yet to copy back and its program did not touch.
InSync(c) ==
  /\ pc[c] = "push" => list[c] = Names(here) /\ \A f \in File \ left[c] : there[f] = here[f]
  /\ pc[c] = "exec" => there = here
  /\ pc[c] = "running" => \A f \in File \ wrote[c] : there[f] = here[f]
  /\ pc[c] = "pull" => list[c] = Names(there) /\ \A f \in File \ left[c] : there[f] = here[f]
SyncInv == \A c \in calm : sync => InSync(c)

TypeInv == TypeOK /\ HostInv

\* What Goto and Return do to pc and result.
LEMMA GotoEffect ==
  ASSUME TypeOK, NEW c \in Cmd, NEW s \in PcState, Goto(c, s)
  PROVE  /\ pc' \in [Cmd -> PcState] /\ result' \in [Cmd -> Results]
         /\ pc'[c] = s /\ \A d \in Cmd \ {c} : pc'[d] = pc[d]
BY DEF TypeOK, Goto

LEMMA ReturnEffect ==
  ASSUME TypeOK, NEW c \in Cmd, NEW r \in Results, Return(c, r)
  PROVE  /\ pc' \in [Cmd -> PcState] /\ result' \in [Cmd -> Results]
         /\ pc'[c] = "done" /\ \A d \in Cmd \ {c} : pc'[d] = pc[d]
BY DEF TypeOK, Return, PcState

\* Where each action of an invocation takes it.
LEMMA CmdMoves ==
  ASSUME TypeOK, NEW c \in Cmd
  PROVE  /\ Start(c) => \E s \in {"push", "exec"} : Goto(c, s)
         /\ PushEnd(c) => \E s \in {"exec", "ask"} : Goto(c, s)
         /\ Exec(c) => Goto(c, "running")
         /\ Exit(c) => Goto(c, "pull") \/ \E r \in Results : Return(c, r)
         /\ Ask(c) => Goto(c, "unfreeze") \/ \E r \in Results : Return(c, r)
         /\ Unfreeze(c) => Goto(c, "save") \/ \E r \in Results : Return(c, r)
         /\ ExecRefused(c) \/ ExitError(c) \/ ExecLost(c) \/ PullEnd(c) \/ Interrupt(c) \/ Save(c)
              => \E r \in Results : Return(c, r)
<1> USE DEF Results, Exceptions
<1>1. Start(c) => \E s \in {"push", "exec"} : Goto(c, s)
  BY DEF Start
<1>2. PushEnd(c) => \E s \in {"exec", "ask"} : Goto(c, s)
  BY DEF PushEnd
<1>3. Exec(c) => Goto(c, "running")
  BY DEF Exec
<1>4. Exit(c) => Goto(c, "pull") \/ \E r \in Results : Return(c, r)
  BY DEF Exit
<1>5. Ask(c) => Goto(c, "unfreeze") \/ \E r \in Results : Return(c, r)
  BY DEF Ask
<1>6. Unfreeze(c) => Goto(c, "save") \/ \E r \in Results : Return(c, r)
  BY DEF Unfreeze
<1>7. ExecRefused(c) => \E r \in Results : Return(c, r)
  BY DEF ExecRefused
<1>8. ExitError(c) \/ ExecLost(c) \/ PullEnd(c) \/ Save(c) => \E r \in Results : Return(c, r)
  BY DEF ExitError, ExecLost, PullEnd, Save
<1>9. Interrupt(c) => \E r \in Results : Return(c, r)
  BY DEF Interrupt
<1> QED BY <1>1, <1>2, <1>3, <1>4, <1>5, <1>6, <1>7, <1>8, <1>9

\* What a program that changes the files W does.
ProgramEffect(c, W) ==
  \E v \in {c, "absent"} :
    /\ there' = [f \in File |-> IF f \in W THEN v ELSE there[f]]
    /\ wrote' = [wrote EXCEPT ![c] = W]
    /\ fresh' = [d \in Cmd |-> IF d = c THEN W ELSE fresh[d] \ W]

LEMMA ProgramWrites ==
  ASSUME NEW c \in Cmd, Program(c)
  PROVE  \E W \in SUBSET File : ProgramEffect(c, W)
<1>1. PICK W \in SUBSET File \ {{}} :
        \E v \in {c, "absent"} :
          /\ there' = [f \in File |-> IF f \in W THEN v ELSE there[f]]
          /\ wrote' = [wrote EXCEPT ![c] = W]
          /\ fresh' = [d \in Cmd |-> IF d = c THEN W ELSE fresh[d] \ W]
  BY Zenon DEF Program
<1> QED  BY <1>1, Zenon DEF ProgramEffect

\* The file list of an rsync.
LEMMA ListingType ==
  ASSUME TypeOK, NEW c \in Cmd, NEW src, Listing(c, src)
  PROVE  /\ list' \in [Cmd -> SUBSET File] /\ left' \in [Cmd -> SUBSET File]
         /\ bad' \in [Cmd -> BOOLEAN]
<1>1. Names(src) \in SUBSET File
  BY DEF Names
<1> QED BY <1>1 DEF TypeOK, Listing

\* Type correctness and HostInv are inductive.
LEMMA TypeStep == TypeInv /\ [Next]_vars => TypeInv'
<1> SUFFICES ASSUME TypeInv, [Next]_vars PROVE TypeInv'
  OBVIOUS
<1> DEFINE Moved == pc' \in [Cmd -> PcState] /\ result' \in [Cmd -> Results]
<1>0. \A c \in Cmd :
        \/ Start(c) \/ PushEnd(c) \/ Exec(c) \/ Exit(c) \/ Ask(c) \/ Unfreeze(c)
        \/ ExecRefused(c) \/ ExitError(c) \/ ExecLost(c) \/ PullEnd(c) \/ Interrupt(c) \/ Save(c)
        => Moved
  <2> {"push", "exec", "ask", "running", "pull", "unfreeze", "save"} \subseteq PcState
    BY DEF PcState
  <2> QED BY CmdMoves, GotoEffect, ReturnEffect DEF TypeInv
<1> HIDE DEF Moved
<1> USE RunAssumption DEF TypeInv, TypeOK, HostInv, disk, call, rsync, place
<1>1. ASSUME NEW c \in Cmd, Start(c) PROVE TypeInv'
  <2>2. /\ list' \in [Cmd -> SUBSET File] /\ left' \in [Cmd -> SUBSET File]
        /\ bad' \in [Cmd -> BOOLEAN]
    BY <1>1, ListingType DEF Start
  <2>3. at' \in [Cmd -> 0..MaxFreezes] /\ calm' \in SUBSET Cmd
    BY <1>1 DEF Start
  <2> QED BY <1>0, <1>1, <2>2, <2>3 DEF Start, Moved
<1>2. ASSUME NEW c \in Cmd, PushEnd(c) PROVE TypeInv'
  BY <1>0, <1>2 DEF PushEnd, Moved
<1>3. ASSUME NEW c \in Cmd, Exec(c) \/ ExecRefused(c) PROVE TypeInv'
  BY <1>0, <1>3 DEF Exec, ExecRefused, Moved
<1>4. ASSUME NEW c \in Cmd, ExecId(c) PROVE TypeInv'
  BY <1>4 DEF ExecId
<1>5. ASSUME NEW c \in Cmd, Exit(c) PROVE TypeInv'
  <2>2. /\ list' \in [Cmd -> SUBSET File] /\ left' \in [Cmd -> SUBSET File]
        /\ bad' \in [Cmd -> BOOLEAN]
    BY <1>5, ListingType DEF Exit
  <2> QED BY <1>0, <1>5, <2>2 DEF Exit, Moved
<1>6. ASSUME NEW c \in Cmd, ExitError(c) \/ ExecLost(c) PROVE TypeInv'
  BY <1>0, <1>6 DEF ExitError, ExecLost, Moved
<1>7. ASSUME NEW c \in Cmd, PullEnd(c) PROVE TypeInv'
  <2>1. bad' \in [Cmd -> BOOLEAN]
    BY <1>7 DEF PullEnd
  <2> QED BY <1>0, <1>7, <2>1 DEF PullEnd, Moved
<1>8. ASSUME NEW c \in Cmd, Interrupt(c) PROVE TypeInv'
  BY <1>0, <1>8 DEF Interrupt, Moved
<1>9. ASSUME NEW c \in Cmd, Ask(c) \/ Save(c) PROVE TypeInv'
  BY <1>0, <1>9 DEF Ask, Save, Moved
<1>10. ASSUME NEW c \in Cmd, Unfreeze(c) PROVE TypeInv'
  BY <1>0, <1>10 DEF Unfreeze, Moved
<1>11. ASSUME NEW c \in Cmd, NEW f \in File, PushFile(c, f) PROVE TypeInv'
  <2>1. Transfer(c, f, here, there) \in Content
    BY DEF Transfer, Content
  <2>2. left' \in [Cmd -> SUBSET File] /\ bad' \in [Cmd -> BOOLEAN] /\ list' = list
    BY <1>11 DEF PushFile, Copied, Vanished
  <2>3. fresh' \in [Cmd -> SUBSET File]
    BY <1>11 DEF PushFile
  <2> QED BY <1>11, <2>1, <2>2, <2>3 DEF PushFile
<1>12. ASSUME NEW c \in Cmd, NEW f \in File, PullFile(c, f) PROVE TypeInv'
  <2>1. Transfer(c, f, there, here) \in Content
    BY DEF Transfer, Content
  <2>2. left' \in [Cmd -> SUBSET File] /\ bad' \in [Cmd -> BOOLEAN] /\ list' = list
    BY <1>12 DEF PullFile, Copied, Vanished
  <2>3. fresh' \in [Cmd -> SUBSET File]
    BY <1>12 DEF PullFile
  <2> QED BY <1>12, <2>1, <2>2, <2>3 DEF PullFile
<1>13. ASSUME NEW c \in Cmd, Program(c) PROVE TypeInv'
  <2>1. PICK W \in SUBSET File : ProgramEffect(c, W)
    BY <1>13, ProgramWrites
  <2>2. PICK v \in {c, "absent"} :
          there' = [f \in File |-> IF f \in W THEN v ELSE there[f]]
    BY <2>1 DEF ProgramEffect
  <2>3. there' \in [File -> Content]
    BY <2>2 DEF Content
  <2>4. wrote' \in [Cmd -> SUBSET File] /\ fresh' \in [Cmd -> SUBSET File]
    BY <2>1 DEF ProgramEffect
  <2> QED BY <1>13, <2>3, <2>4 DEF Program
<1>14. ASSUME NEW c \in Cmd, Abandoned(c) PROVE TypeInv'
  BY <1>14 DEF Abandoned
<1>15. ASSUME NEW f \in File, Edit(f) PROVE TypeInv'
  <2>1. here' \in [File -> Content]
    BY <1>15 DEF Edit, Content
  <2>2. fresh' \in [Cmd -> SUBSET File]
    BY <1>15 DEF Edit
  <2> QED BY <1>15, <2>1, <2>2 DEF Edit
<1>16. CASE Freeze
  BY <1>16 DEF Freeze
<1>17. CASE UNCHANGED vars
  BY <1>17 DEF vars
<1> QED
  BY <1>1, <1>2, <1>3, <1>4, <1>5, <1>6, <1>7, <1>8, <1>9, <1>10, <1>11, <1>12, <1>13,
     <1>14, <1>15, <1>16, <1>17 DEF Next, CmdStep

\* The invariant is inductive where the user edits between invocations only.
LEMMA EditStep ==
  ASSUME Quiet
  PROVE  TypeOK /\ EditInv /\ [Next]_vars => EditInv' /\ [EditsKept]_vars
<1> SUFFICES ASSUME TypeOK, EditInv, [Next]_vars PROVE EditInv' /\ [EditsKept]_vars
  OBVIOUS
<1> USE DEF Goto, Return, disk, rsync
<1>1. ASSUME NEW c \in Cmd, Start(c) PROVE EditInv' /\ EditsKept
  <2>1. UNCHANGED <<sync, here, dirty>>
    BY <1>1 DEF Start
  <2>2. \A d \in Cmd \ {c} : pc'[d] = pc[d] /\ left'[d] = left[d] /\ list'[d] = list[d]
    BY <1>1 DEF Start, Listing, TypeOK
  <2>3. CASE sync
    <3>1. pc'[c] = "push" /\ left'[c] = File /\ list'[c] = Names(here)
      BY <1>1, <2>3 DEF Start, Listing, TypeOK
    <3> QED BY <2>1, <2>2, <3>1 DEF EditInv, EditsKept, Names, TypeOK
  <2>4. CASE ~sync
    <3>1. pc'[c] = "exec"
      BY <1>1, <2>4 DEF Start, TypeOK
    <3> QED BY <2>1, <2>2, <2>4, <3>1 DEF EditInv, EditsKept
  <2> QED BY <2>3, <2>4
<1>2. ASSUME NEW c \in Cmd, PushEnd(c) PROVE EditInv' /\ EditsKept
  <2>1. UNCHANGED <<sync, here, dirty, list, left>>
    BY <1>2 DEF PushEnd
  <2>2. pc'[c] \in {"exec", "ask"} /\ \A d \in Cmd \ {c} : pc'[d] = pc[d]
    BY <1>2 DEF PushEnd, TypeOK
  <2>3. pc'[c] = "exec" => dirty = {}
    BY <1>2 DEF PushEnd, EditInv, TypeOK
  <2> QED BY <2>1, <2>2, <2>3 DEF EditInv, EditsKept
<1>3. ASSUME NEW c \in Cmd, Exec(c) PROVE EditInv' /\ EditsKept
  <2>1. UNCHANGED <<sync, here, dirty, list, left>> /\ (sync => dirty = {})
    BY <1>3 DEF Exec, EditInv
  <2>2. pc'[c] = "running" /\ \A d \in Cmd \ {c} : pc'[d] = pc[d]
    BY <1>3 DEF Exec, TypeOK
  <2> QED BY <2>1, <2>2 DEF EditInv, EditsKept
<1>4. ASSUME NEW c \in Cmd, Exit(c) PROVE EditInv' /\ EditsKept
  <2>1. sync => dirty = {}
    BY <1>4 DEF Exit, EditInv
  <2>2. pc'[c] = "done" \/ (pc'[c] = "pull" /\ sync)
    BY <1>4 DEF Exit, TypeOK
  <2>3. \A d \in Cmd \ {c} : pc'[d] = pc[d] /\ left'[d] = left[d] /\ list'[d] = list[d]
    BY <1>4 DEF Exit, Listing, TypeOK
  <2>4. UNCHANGED <<sync, here, dirty>>
    BY <1>4 DEF Exit
  <2> QED BY <2>1, <2>2, <2>3, <2>4 DEF EditInv, EditsKept
<1>5. ASSUME NEW c \in Cmd,
             \/ ExecRefused(c) \/ ExitError(c) \/ ExecLost(c) \/ PullEnd(c) \/ Interrupt(c)
             \/ Ask(c) \/ Unfreeze(c) \/ Save(c)
      PROVE  EditInv' /\ EditsKept
  <2>1. UNCHANGED <<sync, here, dirty, list, left>>
    BY <1>5 DEF ExecRefused, ExitError, ExecLost, PullEnd, Interrupt, Ask, Unfreeze, Save
  <2>2. {"unfreeze", "save"} \subseteq PcState
    BY DEF PcState
  <2> HIDE DEF Goto, Return
  <2>3. pc'[c] \in {"unfreeze", "save", "done"} /\ \A d \in Cmd \ {c} : pc'[d] = pc[d]
    BY <1>5, <2>2, CmdMoves, GotoEffect, ReturnEffect
  <2> QED BY <2>1, <2>3 DEF EditInv, EditsKept
<1>6. ASSUME NEW c \in Cmd, ExecId(c) PROVE EditInv' /\ EditsKept
  <2>1. UNCHANGED <<sync, here, dirty, pc, list, left>>
    BY <1>6 DEF ExecId
  <2> QED BY <2>1 DEF EditInv, EditsKept
<1>7. ASSUME NEW c \in Cmd, NEW f \in File, PushFile(c, f) PROVE EditInv' /\ EditsKept
  <2>1. /\ UNCHANGED <<sync, here, pc, list>> /\ pc[c] = "push"
        /\ dirty' = dirty \ Read(c, f, here)
        /\ left'[c] = left[c] \ {f}
        /\ \A d \in Cmd \ {c} : left'[d] = left[d]
    BY <1>7 DEF PushFile, Copied, TypeOK
  <2>2. f \notin dirty'
    BY <2>1 DEF EditInv, Read, Vanished, Missed
  <2> QED BY <2>1, <2>2 DEF EditInv, EditsKept
<1>8. ASSUME NEW c \in Cmd, NEW f \in File, PullFile(c, f) PROVE EditInv' /\ EditsKept
  <2>1. dirty = {} /\ UNCHANGED <<sync, dirty, pc>>
    BY <1>8 DEF PullFile, EditInv
  <2> QED BY <2>1 DEF EditInv, EditsKept
<1>9. ASSUME NEW c \in Cmd, Program(c) \/ Abandoned(c) PROVE EditInv' /\ EditsKept
  <2>1. UNCHANGED <<sync, here, dirty, pc, list, left>>
    BY <1>9 DEF Program, Abandoned
  <2> QED BY <2>1 DEF EditInv, EditsKept
<1>10. ASSUME NEW f \in File, Edit(f) PROVE EditInv' /\ EditsKept
  <2>1. /\ UNCHANGED <<pc, sync>>
        /\ \A c \in Cmd : pc[c] \in {"new", "done"}
    BY <1>10 DEF Edit, Active
  <2>2. todo' # todo
    BY <1>10 DEF Edit
  <2> QED BY <2>1, <2>2 DEF EditInv, EditsKept
<1>11. CASE Freeze
  <2>1. UNCHANGED <<sync, here, dirty, pc, list, left>>
    BY <1>11 DEF Freeze
  <2> QED BY <2>1 DEF EditInv, EditsKept
<1>12. CASE UNCHANGED vars
  <2>1. UNCHANGED <<sync, here, dirty, pc, list, left>>
    BY <1>12 DEF vars
  <2> QED BY <1>12, <2>1 DEF EditInv
<1> QED
  BY <1>1, <1>2, <1>3, <1>4, <1>5, <1>6, <1>7, <1>8, <1>9, <1>10, <1>11, <1>12
     DEF Next, CmdStep

\* The outputs that a copy back has passed stay the same on both sides, and it ends
\* when it has passed them all.
LEMMA OutputStep == TypeOK /\ OutputInv /\ [Next]_vars => OutputInv' /\ [OutputsBack]_vars
<1> SUFFICES ASSUME TypeOK, OutputInv, [Next]_vars PROVE OutputInv' /\ [OutputsBack]_vars
  OBVIOUS
<1> USE DEF disk, rsync, call, place
<1> DEFINE Same == UNCHANGED <<here, there, fresh, wrote>>
           Others(c) == \A d \in Cmd \ {c} : /\ pc'[d] = pc[d] /\ left'[d] = left[d]
                                             /\ list'[d] = list[d] /\ bad'[d] = bad[d]
\* An action of c that neither starts nor goes on with a copy back.
<1>0. ASSUME NEW c \in Cmd, Same, Others(c), pc'[c] # "pull", alive' \subseteq alive \cup {c},
             pc'[c] = "done" /\ result'[c] = "exit" /\ sync /\ ~bad'[c]
               => \A f \in fresh[c] : here[f] = there[f]
      PROVE  OutputInv' /\ OutputsBack
  <2>1. OutputInv'
    BY <1>0 DEF OutputInv
  <2>2. OutputsBack
    BY <1>0 DEF OutputsBack
  <2> QED BY <2>1, <2>2
<1> HIDE DEF Same, Others
<1>1. ASSUME NEW c \in Cmd, Start(c) PROVE OutputInv' /\ OutputsBack
  <2>1. Same /\ alive' = alive
    BY <1>1 DEF Start, Same
  <2>2. pc'[c] \in {"push", "exec"} /\ Others(c)
    BY <1>1 DEF Start, Listing, Goto, TypeOK, Others
  <2> QED BY <1>0, <2>1, <2>2
<1>2. ASSUME NEW c \in Cmd, PushEnd(c) \/ Exec(c) PROVE OutputInv' /\ OutputsBack
  <2>1. Same /\ alive' \subseteq alive \cup {c}
    BY <1>2 DEF PushEnd, Exec, Same
  <2>2. pc'[c] \in {"exec", "ask", "running"} /\ Others(c)
    BY <1>2 DEF PushEnd, Exec, Goto, TypeOK, Others
  <2> QED BY <1>0, <2>1, <2>2
<1>3. ASSUME NEW c \in Cmd, Exit(c) PROVE OutputInv' /\ OutputsBack
  <2>1. Same /\ alive' = alive \ {c} /\ sync' = sync
    BY <1>3 DEF Exit, Same
  <2>2. Others(c)
    BY <1>3 DEF Exit, Listing, Goto, Return, TypeOK, Others
  <2>3. CASE sync /\ ~Unchanged(c)
    <3>1. pc'[c] = "pull" /\ left'[c] = File /\ list'[c] = Names(there)
      BY <1>3, <2>3 DEF Exit, Listing, Goto, TypeOK
    <3>2. fresh[c] \subseteq File
      BY DEF TypeOK
    <3>3. OutputInv'
      BY <2>1, <2>2, <3>1, <3>2 DEF OutputInv, Names, Same, Others
    <3>4. OutputsBack
      BY <2>2, <3>1 DEF OutputsBack, Others
    <3> QED BY <3>3, <3>4
  <2>4. CASE ~sync \/ Unchanged(c)
    <3>1. pc'[c] = "done"
      BY <1>3, <2>4 DEF Exit, Return, TypeOK
    <3>2. sync => fresh[c] = {}
      BY <2>4 DEF Unchanged, OutputInv
    <3> QED BY <1>0, <2>1, <2>2, <3>1, <3>2
  <2> QED BY <2>3, <2>4
<1>4. ASSUME NEW c \in Cmd, PullEnd(c) PROVE OutputInv' /\ OutputsBack
  <2>1. Same /\ alive' = alive
    BY <1>4 DEF PullEnd, Same
  <2>2. pc'[c] = "done" /\ Others(c)
    BY <1>4 DEF PullEnd, Return, TypeOK, Others
  <2>3. ~bad'[c] => ~bad[c] /\ left[c] = {}
    BY <1>4 DEF PullEnd, TypeOK
  <2>4. ~bad'[c] => \A f \in fresh[c] : here[f] = there[f]
    BY <1>4, <2>3 DEF PullEnd, OutputInv
  <2> QED BY <1>0, <2>1, <2>2, <2>4
<1>5. ASSUME NEW c \in Cmd,
             \/ ExecRefused(c) \/ ExitError(c) \/ ExecLost(c) \/ Interrupt(c)
             \/ Ask(c) \/ Unfreeze(c) \/ Save(c)
      PROVE  OutputInv' /\ OutputsBack
  <2>1. Same /\ alive' \subseteq alive /\ UNCHANGED <<list, left, bad>>
    BY <1>5 DEF ExecRefused, ExitError, ExecLost, Interrupt, Ask, Unfreeze, Save, Same
  <2>2. /\ pc'[c] \in {"unfreeze", "save", "done"}
        /\ pc'[c] = "done" => result'[c] # "exit"
        /\ \A d \in Cmd \ {c} : pc'[d] = pc[d]
    <3>1. CASE ExecRefused(c) \/ ExitError(c) \/ ExecLost(c)
      BY <3>1 DEF ExecRefused, ExitError, ExecLost, Return, TypeOK
    <3>2. CASE Interrupt(c)
      BY <3>2 DEF Interrupt, Return, TypeOK
    <3>3. CASE Ask(c) \/ Unfreeze(c) \/ Save(c)
      BY <3>3 DEF Ask, Unfreeze, Save, Goto, Return, TypeOK
    <3> QED BY <1>5, <3>1, <3>2, <3>3
  <2>3. Others(c)
    BY <2>1, <2>2 DEF Others
  <2> QED BY <1>0, <2>1, <2>2, <2>3
<1>6. ASSUME NEW c \in Cmd, ExecId(c) \/ Abandoned(c) PROVE OutputInv' /\ OutputsBack
  <2>1. Same /\ alive' \subseteq alive /\ UNCHANGED <<pc, list, left, bad>>
    BY <1>6 DEF ExecId, Abandoned, Same
  <2> QED BY <2>1 DEF OutputInv, OutputsBack, Same
<1>7. ASSUME NEW c \in Cmd, NEW f \in File, PushFile(c, f) PROVE OutputInv' /\ OutputsBack
  <2>1. /\ UNCHANGED <<pc, here, list, alive, wrote>> /\ pc[c] = "push"
        /\ \A g \in File \ {f} : there'[g] = there[g]
        /\ \A d \in Cmd \ {c} : left'[d] = left[d] /\ bad'[d] = bad[d]
    BY <1>7 DEF PushFile, Copied, TypeOK
  <2>2. \A d \in Cmd : /\ fresh'[d] \subseteq fresh[d] /\ fresh[d] \subseteq File
                       /\ there'[f] # there[f] => f \notin fresh'[d]
    BY <1>7 DEF PushFile, TypeOK
  <2> QED BY <2>1, <2>2 DEF OutputInv, OutputsBack
<1>8. ASSUME NEW c \in Cmd, NEW f \in File, PullFile(c, f) PROVE OutputInv' /\ OutputsBack
  <2>1. /\ UNCHANGED <<pc, list, alive, wrote, there>> /\ pc[c] = "pull"
        /\ left'[c] = left[c] \ {f} /\ bad'[c] = (bad[c] \/ Vanished(c, f, there))
        /\ \A d \in Cmd \ {c} : left'[d] = left[d] /\ bad'[d] = bad[d]
    BY <1>8 DEF PullFile, Copied, TypeOK
  <2>2. /\ here'[f] = Transfer(c, f, there, here)
        /\ \A g \in File \ {f} : here'[g] = here[g]
        /\ \A d \in Cmd : fresh'[d] = IF Removes(c, f, d) THEN fresh[d] \ {f} ELSE fresh[d]
    BY <1>8 DEF PullFile, TypeOK
  <2>3. ~bad'[c] /\ f \in fresh[c] => here'[f] = there[f]
    BY <2>1, <2>2 DEF OutputInv, Transfer, Vanished
  <2>4. ASSUME NEW d \in Cmd \ {c}, pc[d] = "pull", f \in fresh'[d], f \notin left[d],
               here[f] = there[f]
        PROVE  here'[f] = there[f]
    BY <2>2, <2>4 DEF Removes, Missed, Transfer
  <2>5. ~Removes(c, f, c) /\ \A d \in Cmd : fresh[d] \subseteq File
    BY DEF Removes, TypeOK
  <2>6. ASSUME NEW d \in Cmd, pc[d] = "pull", ~bad'[d], NEW g \in fresh'[d]
        PROVE  /\ g \in list[d] <=> there[g] # "absent"
               /\ g \notin left'[d] => here'[g] = there[g]
    <3>1. g \in fresh[d] /\ g \in File /\ ~bad[d]
      BY <2>1, <2>2, <2>5, <2>6
    <3>2. g \in list[d] <=> there[g] # "absent"
      BY <2>6, <3>1 DEF OutputInv
    <3>3. ASSUME g \notin left'[d] PROVE here'[g] = there[g]
      <4>1. CASE g = f /\ d = c
        BY <2>3, <2>6, <3>1, <4>1
      <4>2. CASE g = f /\ d # c
        <5>1. f \notin left[d] /\ here[f] = there[f]
          BY <2>1, <2>6, <3>1, <3>3, <4>2 DEF OutputInv
        <5> QED BY <2>4, <2>6, <4>2, <5>1
      <4>3. CASE g # f
        <5>1. g \notin left[d]
          BY <2>1, <3>3, <4>3
        <5> QED BY <2>2, <2>6, <3>1, <4>3, <5>1 DEF OutputInv
      <4> QED BY <4>1, <4>2, <4>3
    <3> QED BY <3>2, <3>3
  <2>7. OutputInv'
    <3>1. \A d \in Cmd : fresh'[d] \subseteq wrote'[d]
      BY <2>1, <2>2 DEF OutputInv
    <3>2. \A d \in Cmd : pc'[d] = "pull" => d \notin alive'
      BY <2>1 DEF OutputInv
    <3>3. \A d \in Cmd : pc'[d] = "pull" /\ ~bad'[d] =>
            \A g \in fresh'[d] : /\ g \in list'[d] <=> there'[g] # "absent"
                                 /\ g \notin left'[d] => here'[g] = there'[g]
      BY <2>1, <2>6
    <3> QED BY <3>1, <3>2, <3>3 DEF OutputInv
  <2>8. OutputsBack
    BY <2>1 DEF OutputsBack
  <2> QED BY <2>7, <2>8
<1>9. ASSUME NEW c \in Cmd, Program(c) PROVE OutputInv' /\ OutputsBack
  <2>1. UNCHANGED <<pc, here, list, left, bad, alive>> /\ c \in alive
    BY <1>9 DEF Program
  <2>2. PICK W \in SUBSET File : ProgramEffect(c, W)
    BY <1>9, ProgramWrites
  <2>3. /\ wrote'[c] = W /\ fresh'[c] = W
        /\ \A f \in File \ W : there'[f] = there[f]
        /\ \A d \in Cmd \ {c} : wrote'[d] = wrote[d] /\ fresh'[d] = fresh[d] \ W
    BY <2>2 DEF TypeOK, ProgramEffect
  <2>4. pc[c] # "pull" /\ \A d \in Cmd : fresh[d] \subseteq File
    BY <2>1 DEF OutputInv, TypeOK
  <2> QED BY <2>1, <2>3, <2>4 DEF OutputInv, OutputsBack
<1>10. ASSUME NEW f \in File, Edit(f) PROVE OutputInv' /\ OutputsBack
  <2>1. UNCHANGED <<there, wrote, pc, list, left, bad, alive>>
    BY <1>10 DEF Edit
  <2>2. /\ \A c \in Cmd : fresh'[c] = fresh[c] \ {f} /\ fresh[c] \subseteq File
        /\ \A g \in File \ {f} : here'[g] = here[g]
    BY <1>10 DEF Edit, TypeOK
  <2> QED BY <2>1, <2>2 DEF OutputInv, OutputsBack
<1>11. CASE Freeze
  <2>1. Same /\ UNCHANGED <<pc, list, left, bad, alive>>
    BY <1>11 DEF Freeze, Same
  <2> QED BY <2>1 DEF OutputInv, OutputsBack, Same
<1>12. CASE UNCHANGED vars
  <2>1. Same /\ UNCHANGED <<pc, list, left, bad, alive>>
    BY <1>12 DEF vars, Same
  <2> QED BY <1>12, <2>1 DEF OutputInv, Same
<1> QED
  BY <1>1, <1>2, <1>3, <1>4, <1>5, <1>6, <1>7, <1>8, <1>9, <1>10, <1>11, <1>12
     DEF Next, CmdStep

\* While a calm invocation is active nothing else is: CalmInv is inductive.
LEMMA CalmStep == TypeOK /\ CalmInv /\ [Next]_vars => CalmInv'
<1> SUFFICES ASSUME TypeOK, CalmInv, [Next]_vars PROVE CalmInv'
  OBVIOUS
<1> USE DEF disk, rsync, call, place
<1> DEFINE Others(c) == \A d \in Cmd \ {c} : pc'[d] = pc[d] /\ answer'[d] = answer[d]
\* An active c moves on, and starts no program but its own.
<1>0. ASSUME NEW c \in Cmd, Active(c), Others(c), pc'[c] # "new", UNCHANGED calm,
             alive' \subseteq alive \cup {c}, c \in alive' => pc'[c] \in {"running", "done"},
             pc'[c] = "save" => answer'[c] = host'
      PROVE  CalmInv'
  <2>1. \A d \in alive' : pc'[d] \in {"running", "done"}
    BY <1>0 DEF CalmInv, TypeOK
  <2>2. ASSUME NEW d \in calm'
        PROVE  /\ pc'[d] # "new"
               /\ Active(d)' => alive' \subseteq {d} /\ \A e \in Cmd \ {d} : ~Active(e)'
               /\ pc'[d] = "save" => answer'[d] = host'
    <3>1. d \in Cmd /\ d \in calm
      BY <1>0, <2>2 DEF TypeOK
    <3>2. CASE d = c
      BY <1>0, <3>1, <3>2 DEF CalmInv, Active
    <3>3. CASE d # c
      <4>1. pc'[d] = pc[d] /\ pc[d] = "done"
        BY <1>0, <3>1, <3>3 DEF CalmInv, Active
      <4> QED BY <4>1 DEF Active
    <3> QED BY <3>2, <3>3
  <2> QED BY <2>1, <2>2 DEF CalmInv
<1> HIDE DEF Others
<1>1. ASSUME NEW c \in Cmd, Start(c) PROVE CalmInv'
  <2>1. /\ pc[c] = "new" /\ pc'[c] \in {"push", "exec"} /\ \A d \in Cmd \ {c} : pc'[d] = pc[d]
        /\ UNCHANGED <<alive, host, answer>>
    BY <1>1 DEF Start, Goto, TypeOK
  <2>2. calm' = IF alive = {} /\ \A d \in Cmd : ~Active(d) THEN calm \cup {c}
                ELSE {d \in calm : ~Active(d)}
    BY <1>1 DEF Start
  <2>3. \A d \in alive' : pc'[d] \in {"running", "done"}
    BY <2>1 DEF CalmInv, TypeOK
  <2>4. c \notin calm /\ calm \subseteq Cmd /\ \A d \in calm : pc[d] # "new"
    BY <2>1 DEF CalmInv, TypeOK
  <2>5. CASE alive = {} /\ \A d \in Cmd : ~Active(d)
    BY <2>1, <2>2, <2>3, <2>4, <2>5 DEF CalmInv, Active
  <2>6. CASE ~(alive = {} /\ \A d \in Cmd : ~Active(d))
    <3>1. \A d \in calm' : d \in Cmd /\ pc'[d] = "done"
      BY <2>1, <2>2, <2>4, <2>6 DEF Active
    <3> QED BY <2>3, <3>1 DEF CalmInv, Active
  <2> QED BY <2>5, <2>6
<1>2. ASSUME NEW c \in Cmd, PushEnd(c) \/ Exec(c) \/ Exit(c) PROVE CalmInv'
  <2>1. /\ Active(c) /\ pc'[c] \in {"exec", "ask", "running", "pull", "done"}
        /\ \A d \in Cmd \ {c} : pc'[d] = pc[d]
    BY <1>2 DEF PushEnd, Exec, Exit, Goto, Return, TypeOK, Active
  <2>2. UNCHANGED <<answer, host, calm>>
    BY <1>2 DEF PushEnd, Exec, Exit
  <2>3. alive' \subseteq alive \cup {c} /\ (c \in alive' => pc'[c] \in {"running", "done"})
    BY <1>2 DEF PushEnd, Exec, Exit, Goto, TypeOK, CalmInv
  <2>4. Others(c)
    BY <2>1, <2>2 DEF Others
  <2> QED BY <1>0, <2>1, <2>2, <2>3, <2>4
<1>3. ASSUME NEW c \in Cmd,
             \/ ExecRefused(c) \/ ExitError(c) \/ ExecLost(c) \/ PullEnd(c) \/ Interrupt(c)
             \/ Ask(c) \/ Save(c)
      PROVE  CalmInv'
  <2>1. Active(c)
    BY <1>3 DEF ExecRefused, ExitError, ExecLost, PullEnd, Interrupt, Ask, Save, Active
  <2>2. UNCHANGED <<answer, host, calm>> /\ alive' \subseteq alive
    BY <1>3 DEF ExecRefused, ExitError, ExecLost, PullEnd, Interrupt, Ask, Save
  <2>3. pc'[c] \in {"unfreeze", "done"} /\ \A d \in Cmd \ {c} : pc'[d] = pc[d]
    <3>1. "unfreeze" \in PcState
      BY DEF PcState
    <3> QED BY <1>3, <3>1, CmdMoves, GotoEffect, ReturnEffect
  <2>4. c \in alive' => pc'[c] = "done"
    BY <1>3, <2>1, <2>2, <2>3 DEF CalmInv, Ask, ExecRefused, ExitError, ExecLost, PullEnd,
       Interrupt, Save, Return, TypeOK
  <2>5. Others(c)
    BY <2>2, <2>3 DEF Others
  <2> QED BY <1>0, <2>1, <2>2, <2>3, <2>4, <2>5
<1>4. ASSUME NEW c \in Cmd, Unfreeze(c) PROVE CalmInv'
  <2>1. Active(c) /\ UNCHANGED <<calm, alive>> /\ c \notin alive
    BY <1>4 DEF Unfreeze, Active, CalmInv
  <2>2. /\ pc'[c] \in {"save", "done"} /\ \A d \in Cmd \ {c} : pc'[d] = pc[d] /\ answer'[d] = answer[d]
        /\ pc'[c] = "save" => answer'[c] = host'
    BY <1>4 DEF Unfreeze, Goto, Return, TypeOK
  <2>3. Others(c)
    BY <2>2 DEF Others
  <2> QED BY <1>0, <2>1, <2>2, <2>3
<1>5. ASSUME UNCHANGED <<pc, calm, answer, host>>, alive' \subseteq alive PROVE CalmInv'
  BY <1>5 DEF CalmInv, Active
<1>6. ASSUME NEW c \in Cmd, ExecId(c) \/ Program(c) \/ Abandoned(c) PROVE CalmInv'
  BY <1>5, <1>6 DEF ExecId, Program, Abandoned
<1>7. ASSUME NEW c \in Cmd, NEW f \in File, PushFile(c, f) \/ PullFile(c, f) PROVE CalmInv'
  BY <1>5, <1>7 DEF PushFile, PullFile
<1>8. ASSUME NEW f \in File, Edit(f) PROVE CalmInv'
  BY <1>5, <1>8 DEF Edit
<1>9. CASE Freeze \/ UNCHANGED vars
  BY <1>5, <1>9 DEF Freeze, vars
<1> QED BY <1>1, <1>2, <1>3, <1>4, <1>6, <1>7, <1>8, <1>9 DEF Next, CmdStep

\* What an invocation leaves alone, whichever step it makes.
LEMMA OtherCmds ==
  ASSUME TypeOK, NEW c \in Cmd, CmdStep(c)
  PROVE  sync' = sync /\ todo' = todo /\ \A d \in Cmd \ {c} : pc'[d] = pc[d]
<1> USE DEF disk
<1>1. ASSUME NEW f \in File, PushFile(c, f) \/ PullFile(c, f)
      PROVE  UNCHANGED <<sync, todo, pc>>
  BY <1>1 DEF PushFile, PullFile
<1>2. ASSUME ExecId(c) PROVE UNCHANGED <<sync, todo, pc>>
  BY <1>2 DEF ExecId
<1>3. ASSUME \/ Start(c) \/ PushEnd(c) \/ Exec(c) \/ ExecRefused(c) \/ Exit(c) \/ ExitError(c)
             \/ ExecLost(c) \/ PullEnd(c) \/ Interrupt(c) \/ Ask(c) \/ Unfreeze(c) \/ Save(c)
      PROVE  sync' = sync /\ todo' = todo /\ \A d \in Cmd \ {c} : pc'[d] = pc[d]
  <2>1. {"push", "exec", "ask", "running", "pull", "unfreeze", "save"} \subseteq PcState
    BY DEF PcState
  <2>2. \A d \in Cmd \ {c} : pc'[d] = pc[d]
    BY <1>3, <2>1, CmdMoves, GotoEffect, ReturnEffect
  <2>3. UNCHANGED <<sync, todo>>
    BY <1>3 DEF Start, PushEnd, Exec, ExecRefused, Exit, ExitError, ExecLost, PullEnd, Interrupt,
                Ask, Unfreeze, Save
  <2> QED BY <2>2, <2>3
<1> QED BY <1>1, <1>2, <1>3 DEF CmdStep

\* A calm invocation that saves the address it was answered saves the right one.
LEMMA AddressStep == TypeOK /\ CalmInv /\ [Next]_vars => [AddressFound]_vars
<1> SUFFICES ASSUME TypeOK, CalmInv, Next,
                    NEW c \in calm, pc[c] = "save", pc'[c] = "done", result'[c] = "restored"
             PROVE  addr' = host
  BY DEF AddressFound
<1>1. c \in Cmd
  BY DEF TypeOK
<1>2. CmdStep(c)
  <2>1. ASSUME NEW d \in Cmd, CmdStep(d) PROVE d = c
    BY <1>1, <2>1, OtherCmds
  <2>2. ASSUME NEW d \in Cmd, Program(d) \/ Abandoned(d) PROVE FALSE
    BY <2>2 DEF Program, Abandoned
  <2>3. ASSUME NEW f \in File, Edit(f) PROVE FALSE
    BY <2>3 DEF Edit
  <2>4. ~Freeze
    BY DEF Freeze
  <2> QED BY <2>1, <2>2, <2>3, <2>4 DEF Next
<1>3. Save(c) \/ Interrupt(c)
  BY <1>2 DEF CmdStep, Start, PushEnd, Exec, ExecRefused, ExecId, Exit, ExitError, ExecLost, PullEnd,
              Ask, Unfreeze, PushFile, PullFile
<1>4. ~Interrupt(c)
  BY <1>1 DEF Interrupt, Return, TypeOK
<1> QED BY <1>3, <1>4 DEF Save, CalmInv

\* What a calm invocation has copied stays the same on both sides, where the user
\* edits between invocations only.
LEMMA SyncStep ==
  ASSUME Quiet
  PROVE  TypeOK /\ TypeOK' /\ CalmInv /\ CalmInv' /\ SyncInv /\ [Next]_vars
           => SyncInv' /\ [SameFiles]_vars
<1> SUFFICES ASSUME TypeOK, TypeOK', CalmInv, CalmInv', SyncInv, [Next]_vars
             PROVE  SyncInv' /\ [SameFiles]_vars
  OBVIOUS
<1> USE DEF disk, rsync, call, place
<1> DEFINE Done(c) == pc[c] # "done" /\ pc'[c] = "done" /\ result'[c] = "exit" /\ ~bad'[c]
\* Two directories are the same if all their files are.
<1>0. (\A f \in File : there[f] = here[f]) => there = here
  BY DEF TypeOK
\* Only the invocation that moves has to be looked at.
<1>1. ASSUME NEW c \in Cmd, CmdStep(c),
             Active(c)' \/ (Active(c) /\ calm' = calm),
             c \in calm' /\ sync => InSync(c)',
             c \in calm /\ sync /\ ((pc[c] = "exec" /\ pc'[c] = "running") \/ Done(c))
               => there = here
      PROVE  SyncInv' /\ SameFiles
  <2>1. sync' = sync /\ \A d \in Cmd \ {c} : pc'[d] = pc[d]
    BY <1>1, OtherCmds
  <2>2. ASSUME NEW d \in calm', sync' PROVE InSync(d)'
    <3>1. d \in Cmd
      BY <2>2 DEF TypeOK
    <3>2. CASE d # c
      <4>1. ~Active(d)'
        BY <1>1, <2>1, <2>2, <3>1, <3>2 DEF CalmInv, Active
      <4> QED BY <4>1 DEF Active, InSync
    <3> QED BY <1>1, <2>1, <2>2, <3>2
  <2>3. SameFiles
    <3>1. calm \subseteq Cmd
      BY DEF TypeOK
    <3> QED BY <1>1, <2>1, <3>1 DEF SameFiles
  <2> QED BY <2>2, <2>3 DEF SyncInv
<1> HIDE DEF Done
<1>2. ASSUME NEW c \in Cmd, Start(c) PROVE SyncInv' /\ SameFiles
  <2>1. /\ pc[c] = "new" /\ pc'[c] = (IF sync THEN "push" ELSE "exec") /\ UNCHANGED <<sync, here, there>>
        /\ sync => list'[c] = Names(here) /\ left'[c] = File
    BY <1>2 DEF Start, Goto, Listing, TypeOK
  <2>2. sync => InSync(c)'
    BY <2>1 DEF InSync, Names
  <2>3. Active(c)' /\ ~Done(c)
    BY <2>1 DEF Active, Done
  <2>4. CmdStep(c)
    BY <1>2 DEF CmdStep
  <2> QED BY <1>1, <2>1, <2>2, <2>3, <2>4
<1>3. ASSUME NEW c \in Cmd, PushEnd(c) PROVE SyncInv' /\ SameFiles
  <2>1. /\ pc[c] = "push" /\ UNCHANGED <<sync, here, there, calm>>
        /\ (pc'[c] = "exec" /\ left[c] = {}) \/ pc'[c] = "ask"
    BY <1>3 DEF PushEnd, Goto, TypeOK
  <2>2. c \in calm' /\ sync => InSync(c)'
    BY <1>0, <2>1 DEF InSync, SyncInv
  <2>3. Active(c)' /\ ~Done(c) /\ CmdStep(c)
    BY <1>3, <2>1 DEF Active, Done, CmdStep
  <2> QED BY <1>1, <2>1, <2>2, <2>3
<1>4. ASSUME NEW c \in Cmd, Exec(c) PROVE SyncInv' /\ SameFiles
  <2>1. pc[c] = "exec" /\ pc'[c] = "running" /\ UNCHANGED <<sync, here, there, calm>>
    BY <1>4 DEF Exec, Goto, TypeOK
  <2>2. c \in calm /\ sync => there = here
    BY <2>1 DEF InSync, SyncInv
  <2>3. c \in calm' /\ sync => InSync(c)'
    BY <2>1, <2>2 DEF InSync
  <2>4. Active(c)' /\ CmdStep(c)
    BY <1>4, <2>1 DEF Active, CmdStep
  <2> QED BY <1>1, <2>1, <2>2, <2>3, <2>4
<1>5. ASSUME NEW c \in Cmd, Exit(c) PROVE SyncInv' /\ SameFiles
  <2>1. /\ pc[c] = "running" /\ UNCHANGED <<sync, here, there, calm>>
        /\ \/ pc'[c] = "pull" /\ list'[c] = Names(there) /\ left'[c] = File
           \/ pc'[c] = "done" /\ (sync => wrote[c] = {})
    BY <1>5 DEF Exit, Goto, Return, Listing, Unchanged, TypeOK
  <2>2. c \in calm' /\ sync => InSync(c)'
    BY <2>1 DEF InSync, Names
  <2>3. c \in calm /\ sync /\ Done(c) => there = here
    BY <1>0, <2>1 DEF InSync, SyncInv, Done
  <2>4. Active(c) /\ CmdStep(c)
    BY <1>5, <2>1 DEF Active, CmdStep
  <2> QED BY <1>1, <2>1, <2>2, <2>3, <2>4
<1>6. ASSUME NEW c \in Cmd, PullEnd(c) PROVE SyncInv' /\ SameFiles
  <2>1. /\ pc[c] = "pull" /\ pc'[c] = "done" /\ UNCHANGED calm
        /\ ~bad'[c] => left[c] = {}
    BY <1>6 DEF PullEnd, Return, TypeOK
  <2>2. c \in calm /\ sync /\ Done(c) => there = here
    BY <1>0, <2>1 DEF InSync, SyncInv, Done
  <2>3. Active(c) /\ CmdStep(c) /\ InSync(c)'
    BY <1>6, <2>1 DEF Active, CmdStep, InSync
  <2> QED BY <1>1, <2>1, <2>2, <2>3
<1>7. ASSUME NEW c \in Cmd,
             \/ ExecRefused(c) \/ ExitError(c) \/ ExecLost(c) \/ Interrupt(c)
             \/ Ask(c) \/ Unfreeze(c) \/ Save(c)
      PROVE  SyncInv' /\ SameFiles
  <2>1. Active(c) /\ CmdStep(c) /\ UNCHANGED calm
    BY <1>7 DEF ExecRefused, ExitError, ExecLost, Interrupt, Ask, Unfreeze, Save, Active, CmdStep
  <2>2. pc'[c] \in {"unfreeze", "save", "done"} /\ (pc'[c] = "done" => result'[c] # "exit")
    <3>1. CASE ExecRefused(c) \/ ExitError(c) \/ ExecLost(c)
      BY <3>1 DEF ExecRefused, ExitError, ExecLost, Return, TypeOK
    <3>2. CASE Interrupt(c)
      BY <3>2 DEF Interrupt, Return, TypeOK
    <3>3. CASE Ask(c) \/ Unfreeze(c) \/ Save(c)
      BY <3>3 DEF Ask, Unfreeze, Save, Goto, Return, TypeOK
    <3> QED BY <1>7, <3>1, <3>2, <3>3
  <2>3. InSync(c)' /\ ~Done(c)
    BY <2>2 DEF InSync, Done
  <2> QED BY <1>1, <2>1, <2>2, <2>3
<1>8. ASSUME NEW c \in Cmd, NEW f \in File, PushFile(c, f) PROVE SyncInv' /\ SameFiles
  <2>1. /\ pc[c] = "push" /\ UNCHANGED <<pc, sync, here, calm, list>>
        /\ there' = [there EXCEPT ![f] = Transfer(c, f, here, there)]
        /\ left'[c] = left[c] \ {f}
    BY <1>8 DEF PushFile, Copied, TypeOK
  <2>2. c \in calm' /\ sync => InSync(c)'
    <3>1. ASSUME c \in calm, sync PROVE Transfer(c, f, here, there) = here[f]
      BY <2>1, <3>1 DEF SyncInv, InSync, Transfer, Names
    <3> QED BY <2>1, <3>1 DEF InSync, SyncInv, TypeOK, Names
  <2>3. Active(c)' /\ CmdStep(c) /\ ~Done(c)
    BY <1>8, <2>1 DEF Active, CmdStep, Done
  <2> QED BY <1>1, <2>1, <2>2, <2>3
<1>9. ASSUME NEW c \in Cmd, NEW f \in File, PullFile(c, f) PROVE SyncInv' /\ SameFiles
  <2>1. /\ pc[c] = "pull" /\ UNCHANGED <<pc, sync, there, calm, list>>
        /\ here' = [here EXCEPT ![f] = Transfer(c, f, there, here)]
        /\ left'[c] = left[c] \ {f}
    BY <1>9 DEF PullFile, Copied, TypeOK
  <2>2. c \in calm' /\ sync => InSync(c)'
    <3>1. ASSUME c \in calm, sync PROVE Transfer(c, f, there, here) = there[f]
      BY <2>1, <3>1 DEF SyncInv, InSync, Transfer, Names
    <3> QED BY <2>1, <3>1 DEF InSync, SyncInv, TypeOK, Names
  <2>3. Active(c)' /\ CmdStep(c) /\ ~Done(c)
    BY <1>9, <2>1 DEF Active, CmdStep, Done
  <2> QED BY <1>1, <2>1, <2>2, <2>3
<1>10. ASSUME NEW c \in Cmd, Program(c) PROVE SyncInv' /\ SameFiles
  <2>1. c \in alive /\ wrote[c] = {} /\ UNCHANGED <<pc, sync, here, calm, list, left>>
    BY <1>10 DEF Program
  <2>2. PICK W \in SUBSET File : ProgramEffect(c, W)
    BY <1>10, ProgramWrites
  <2>3. wrote'[c] = W /\ \A f \in File \ W : there'[f] = there[f]
    BY <2>2 DEF TypeOK, ProgramEffect
  <2>4. ASSUME NEW d \in calm', sync' PROVE InSync(d)'
    <3>1. d \in Cmd /\ d \in calm
      BY <2>1, <2>4 DEF TypeOK
    <3>2. CASE ~Active(d)
      BY <2>1, <3>2 DEF Active, InSync
    <3>3. CASE Active(d)
      <4>1. d = c /\ pc[c] = "running"
        BY <2>1, <3>1, <3>3 DEF CalmInv, Active
      <4> QED BY <2>1, <2>3, <2>4, <3>1, <4>1 DEF InSync, SyncInv
    <3> QED BY <3>2, <3>3
  <2> QED BY <2>1, <2>4 DEF SyncInv, SameFiles
<1>11. ASSUME NEW f \in File, Edit(f) PROVE SyncInv' /\ SameFiles
  <2>1. UNCHANGED <<pc, calm>> /\ \A c \in Cmd : ~Active(c)
    BY <1>11 DEF Edit
  <2>2. calm \subseteq Cmd
    BY DEF TypeOK
  <2> QED BY <2>1, <2>2 DEF SyncInv, InSync, SameFiles, Active
<1>12. ASSUME UNCHANGED <<pc, sync, here, there, list, left, wrote, calm>>
       PROVE  SyncInv' /\ SameFiles
  BY <1>12 DEF SyncInv, InSync, SameFiles, Names
<1>13. ASSUME NEW c \in Cmd, ExecId(c) \/ Abandoned(c) PROVE SyncInv' /\ SameFiles
  BY <1>12, <1>13 DEF ExecId, Abandoned
<1>14. CASE Freeze \/ UNCHANGED vars
  BY <1>12, <1>14 DEF Freeze, vars
<1> QED
  BY <1>2, <1>3, <1>4, <1>5, <1>6, <1>7, <1>8, <1>9, <1>10, <1>11, <1>13, <1>14
     DEF Next, CmdStep

\* The variables keep their types in every behaviour; above all, no address is
\* invented: the scheduler moves the workspace once per freeze.
THEOREM RunTypeCorrect == Spec => []TypeOK
<1>1. Init => TypeInv
  BY RunAssumption DEF Init, TypeInv, TypeOK, HostInv, Content, PcState, Results
<1>2. TypeInv => TypeOK
  BY DEF TypeInv
<1> QED BY <1>1, <1>2, TypeStep, PTL DEF Spec

\* For any number of invocations and files: where the user edits files between
\* invocations only, no invocation writes over an edit that has not been copied
\* to the worker.
THEOREM QuietEditsSurvive == ASSUME Quiet PROVE Spec => NoLostEdit
<1>1. Init => EditInv
  BY DEF Init, EditInv
<1> QED BY <1>1, EditStep, RunTypeCorrect, PTL DEF Spec, NoLostEdit

\* For any number of invocations and files, and however they overlap: when an
\* invocation returns the exit code after an rsync that did not fail, the local
\* directory has what its program changed, unless another has changed it in the
\* workspace since, or removed it by a copy back with an older list.
THEOREM OutputsReturn == Spec => OutputsComeBack
<1>1. Init => OutputInv
  BY DEF Init, OutputInv
<1> QED BY <1>1, OutputStep, RunTypeCorrect, PTL DEF Spec, OutputsComeBack

\* For any number of invocations, files and freezes: an invocation that runs on its
\* own and restores the workspace leaves the address of the machine it is on now,
\* although the scheduler may stow it again before the address is saved.
THEOREM RestoredAddressHolds == Spec => RestoredIsFound
<1>1. Init => CalmInv
  BY DEF Init, CalmInv
<1> QED BY <1>1, CalmStep, AddressStep, RunTypeCorrect, PTL DEF Spec, RestoredIsFound

\* For any number of invocations and files, where the user edits between
\* invocations only: an invocation that nothing overlaps starts its program on the
\* local files, and leaves what the program has left if rsync does not fail.
THEOREM AloneStaysInSync == ASSUME Quiet PROVE Spec => RunsInSync
<1>1. Init => CalmInv /\ SyncInv
  BY DEF Init, CalmInv, SyncInv
<1> QED BY <1>1, CalmStep, SyncStep, RunTypeCorrect, PTL DEF Spec, RunsInSync
=============================================================================
