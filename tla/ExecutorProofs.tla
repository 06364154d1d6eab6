--------------------------- MODULE ExecutorProofs ---------------------------
(***************************************************************************)
(* What is typed reaches the worker complete and in order, no wake-up is    *)
(* lost, the terminal is put back, and input that is not rx's is left       *)
(* alone: for any number of keys and responses.                             *)
(***************************************************************************)
EXTENDS Executor, TLAPS

(***************************************************************************)
(* The inductive invariants                                                *)
(***************************************************************************)

\* The key after the last one that was sent or waits to be.
EndOf == IF buffer = <<>> THEN sent.hi ELSE buffer[Len(buffer)].hi

\* Until the gRPC thread has ended, what was sent and what waits are one
\* uninterrupted stretch of keys, and so is what was read last, unless it could
\* not be decoded.
Chain ==
  next # "ended" =>
    /\ buffer # <<>> => buffer[1].lo = sent.hi
    /\ \A i \in 1..Len(buffer) : i > 1 => buffer[i].lo = buffer[i - 1].hi
    /\ loop = "put" => held.lo = EndOf /\ held.hi = read + 1
    /\ loop \notin {"put", "undecoded"} => EndOf = read + 1

\* How far the main thread has come with the terminal.
Progress ==
  /\ main \in {"init"} \cup Entering => next = "none" /\ loop = "none" /\ sigint = "none"
  /\ sigint \notin Entering \cup Leaving =>
       /\ main \in {"init", "setfl", "stop", "done"} => ~nonblock
       /\ main \in {"init", "setfl", "setcbreak", "resetfl", "stop", "done"} => ~cbreak
       /\ main \notin {"thread", "unregister"} \cup Body => ~registered

\* What __enter__ has done before the threads start.
EnterInv ==
  /\ main \in {"init"} \cup Entering => running /\ next = "none"
  /\ main \in {"setcbreak", "register", "thread"} => nonblock
  /\ main \in {"register", "thread"} => cbreak
  /\ main = "thread" => registered

\* What a step of the main thread, the user or the network leaves alone.
Elsewhere == UNCHANGED <<held, read, sent, buffer>> /\ (main # "thread" => UNCHANGED <<loop, next>>)

\* The steps of the main thread, of gRPC and of the user leave the queue alone.
LEMMA MainElsewhere ==
  MainStep \/ Response \/ CallEnds \/ Sigint \/ Type => Elsewhere
<1> USE DEF Elsewhere, loopVars, nextVars, mainVars
<1>1. ASSUME NEW x, NEW y, Do(x, y) PROVE Elsewhere
  BY <1>1 DEF Do
<1>2. MainStep => Elsewhere
  BY <1>1 DEF MainStep, Terminal, Setfl, Setcbreak, Register, Enter, Write, BodyEnds,
              Unregister, Tcsetattr, Resetfl, Stop
<1>3. Response \/ CallEnds \/ Sigint \/ Type => Elsewhere
  BY DEF Response, CallEnds, Sigint, Type
<1> QED  BY <1>2, <1>3

\* Appending to the buffer.
LEMMA Appended ==
  ASSUME NEW s \in Seq(Request), NEW x \in Request
  PROVE  /\ Append(s, x) \in Seq(Request) /\ Len(Append(s, x)) = Len(s) + 1
         /\ Append(s, x)[Len(s) + 1] = x
         /\ \A i \in 1..Len(s) : Append(s, x)[i] = s[i]
  OBVIOUS

\* Taking the first request of the buffer.
LEMMA Popped ==
  ASSUME NEW s \in Seq(Request), s # <<>>
  PROVE  /\ Tail(s) \in Seq(Request) /\ Len(Tail(s)) = Len(s) - 1 /\ Len(s) > 0
         /\ \A i \in 1..Len(Tail(s)) : Tail(s)[i] = s[i + 1]
         /\ Head(s) = s[1] /\ s[1] \in Request
  OBVIOUS

\* A statement of the main thread changes nothing but the terminal, what was typed
\* on it, and _running.
LEMMA DoTypes ==
  ASSUME TypeOK, NEW x, NEW y \in Main, Do(x, y),
         nonblock' \in BOOLEAN, cbreak' \in BOOLEAN, registered' \in BOOLEAN,
         running' \in BOOLEAN, typed' \in 0..MaxKeys
  PROVE  TypeOK'
<1>1. /\ main' = y /\ sigint' = sigint /\ responses' = responses /\ open' = open
      /\ buffer' = buffer
      /\ loop' = loop /\ held' = held /\ read' = read /\ next' = next /\ sent' = sent
  BY DEF Do, loopVars, nextVars
<1> QED  BY <1>1 DEF TypeOK

\* Type correctness is inductive.
LEMMA TypeStep == TypeOK /\ [Next]_vars => TypeOK'
<1> SUFFICES ASSUME TypeOK, [Next]_vars PROVE TypeOK'
  OBVIOUS
<1> USE ExecutorAssumption DEF TypeOK, Main, Entering, Body, Leaving, terminal, mainVars,
        loopVars, nextVars
<1>1. CASE MainStep
  <2>1. CASE Terminal
    BY <2>1 DEF Terminal, Do
  <2>2. CASE Setfl
    BY <2>2, DoTypes, Zenon DEF Setfl
  <2>3. CASE Setcbreak
    <3>1. 0 \in 0..MaxKeys
      OBVIOUS
    <3> QED  BY <2>3, <3>1, DoTypes, Zenon DEF Setcbreak
  <2>4. CASE Register
    BY <2>4, DoTypes, Zenon DEF Register
  <2>5. CASE Enter
    BY <2>5 DEF Enter
  <2>6. CASE Write \/ BodyEnds
    BY <2>6, DoTypes, Zenon DEF Write, BodyEnds
  <2>7. CASE Unregister
    BY <2>7, DoTypes, Zenon DEF Unregister
  <2>8. CASE Tcsetattr
    BY <2>8, DoTypes, Zenon DEF Tcsetattr
  <2>9. CASE Resetfl
    BY <2>9, DoTypes, Zenon DEF Resetfl
  <2>10. CASE Stop
    BY <2>10, DoTypes, Zenon DEF Stop
  <2> QED  BY <1>1, <2>1, <2>2, <2>3, <2>4, <2>5, <2>6, <2>7, <2>8, <2>9, <2>10 DEF MainStep
<1>2. CASE Response \/ CallEnds \/ Type
  <2>1. CASE Response
    BY <2>1 DEF Response
  <2>2. CASE CallEnds
    <3>1. open' \in BOOLEAN
      BY <2>2, Zenon DEF CallEnds
    <3>2. UNCHANGED <<main, nonblock, cbreak, registered, running, sigint, responses, loop, held,
                      read, next, sent, typed, buffer>>
      BY <2>2 DEF CallEnds
    <3> QED  BY <3>1, <3>2
  <2>3. CASE Type
    BY <2>3 DEF Type
  <2> QED  BY <1>2, <2>1, <2>2, <2>3
<1>3. CASE Sigint
  BY <1>3 DEF Sigint, AfterSigint
<1>4. CASE LoopStep
  <2>1. CASE Test \/ Select
    BY <2>1 DEF Test, Select
  <2>2. CASE Read
    BY <2>2 DEF Read, Request
  <2>3. CASE Put
    BY <2>3, Appended DEF Put
  <2> QED  BY <1>4, <2>1, <2>2, <2>3 DEF LoopStep
<1>5. CASE NextStep
  <2>1. CASE Check
    BY <2>1 DEF Check
  <2>2. CASE Get
    BY <2>2, Popped DEF Get
  <2> QED  BY <1>5, <2>1, <2>2 DEF NextStep
<1>6. CASE UNCHANGED vars
  BY <1>6 DEF vars
<1> QED  BY <1>1, <1>2, <1>3, <1>4, <1>5, <1>6 DEF Next

\* How far the main thread has come is inductive.
LEMMA ProgressStep == TypeOK /\ Progress /\ [Next]_vars => Progress'
<1> SUFFICES ASSUME TypeOK, Progress, [Next]_vars PROVE Progress'
  OBVIOUS
<1> USE DEF TypeOK, Progress, Main, Entering, Body, Leaving, terminal, mainVars, loopVars,
        nextVars
<1>1. CASE MainStep
  <2>1. CASE Terminal
    BY <2>1 DEF Terminal, Do
  <2>2. CASE Setfl \/ Setcbreak \/ Register
    BY <2>2 DEF Setfl, Setcbreak, Register, Do
  <2>3. CASE Enter
    BY <2>3 DEF Enter
  <2>4. CASE Write \/ BodyEnds
    BY <2>4 DEF Write, BodyEnds, Do
  <2>5. CASE Unregister
    BY <2>5 DEF Unregister, Do
  <2>6. CASE Tcsetattr
    BY <2>6 DEF Tcsetattr, Do
  <2>7. CASE Resetfl \/ Stop
    BY <2>7 DEF Resetfl, Stop, Do
  <2> QED  BY <1>1, <2>1, <2>2, <2>3, <2>4, <2>5, <2>6, <2>7 DEF MainStep
<1>2. CASE Response \/ CallEnds \/ Type
  BY <1>2 DEF Response, CallEnds, Type
<1>3. CASE Sigint
  BY <1>3 DEF Sigint, AfterSigint
<1>4. CASE LoopStep
  BY <1>4 DEF LoopStep, Test, Select, Read, Put
<1>5. CASE NextStep
  BY <1>5 DEF NextStep, Check, Get
<1>6. CASE UNCHANGED vars
  BY <1>6 DEF vars
<1> QED  BY <1>1, <1>2, <1>3, <1>4, <1>5, <1>6 DEF Next

\* The keys between the terminal and the worker stay one stretch.
LEMMA ChainStep == TypeOK /\ Progress /\ Chain /\ [Next]_vars => Chain'
<1> SUFFICES ASSUME TypeOK, Progress, Chain, [Next]_vars PROVE Chain'
  OBVIOUS
<1>1. CASE MainStep \/ Response \/ CallEnds \/ Sigint \/ Type
  <2>1. Elsewhere
    BY <1>1, MainElsewhere
  <2>2. CASE main # "thread"
    BY <2>1, <2>2 DEF Elsewhere, Chain, EndOf
  <2>3. CASE main = "thread"
    <3>1. next = "none" /\ loop = "none"
      BY <2>3 DEF Progress, Entering
    <3>2. loop' \in {"none", "test"}
      BY <1>1, <2>3, <3>1 DEF MainStep, Terminal, Setfl, Setcbreak, Register, Enter, Write,
         BodyEnds, Unregister, Tcsetattr, Resetfl, Stop, Do, Response, CallEnds, Sigint, Type,
         mainVars, loopVars
    <3> QED  BY <2>1, <3>1, <3>2 DEF Elsewhere, Chain, EndOf
  <2> QED  BY <2>2, <2>3
<1>2. CASE Test \/ Select \/ Check
  BY <1>2 DEF Test, Select, Check, Chain, EndOf, mainVars, nextVars, loopVars
<1>3. CASE Read
  BY <1>3 DEF Read, Chain, EndOf, TypeOK, Request, mainVars, nextVars, loopVars
<1>4. CASE Put
  <2> USE <1>4 DEF Put
  <2>1. SUFFICES ASSUME next' # "ended" PROVE Chain'
    BY DEF Chain
  <2>2. /\ next # "ended" /\ held \in Request /\ buffer \in Seq(Request) /\ Len(buffer) \in Nat
        /\ held.lo = EndOf /\ held.hi = read + 1 /\ UNCHANGED <<read, sent>> /\ loop' = "test"
    BY <2>1 DEF Chain, TypeOK
  <2>3. buffer' # <<>> /\ EndOf' = read + 1
    BY <2>2, Appended DEF EndOf
  <2>4. buffer'[1].lo = sent.hi
    <3>1. CASE buffer = <<>>
      BY <3>1, <2>2, Appended DEF EndOf
    <3>2. CASE buffer # <<>>
      BY <3>2, <2>1, <2>2, Appended DEF Chain
    <3> QED  BY <3>1, <3>2
  <2>5. ASSUME NEW i \in 1..Len(buffer'), i > 1 PROVE buffer'[i].lo = buffer'[i - 1].hi
    <3>1. Len(buffer') = Len(buffer) + 1
      BY <2>2, Appended
    <3>2. CASE i = Len(buffer) + 1
      BY <2>2, <2>5, <3>1, <3>2, Appended DEF EndOf
    <3>3. CASE i # Len(buffer) + 1
      <4>1. i \in 1..Len(buffer) /\ i - 1 \in 1..Len(buffer)
        BY <2>2, <2>5, <3>1, <3>3
      <4>2. buffer[i].lo = buffer[i - 1].hi
        BY <4>1, <2>2, <2>5 DEF Chain
      <4>3. buffer'[i] = buffer[i] /\ buffer'[i - 1] = buffer[i - 1]
        BY <4>1, <2>2, Appended
      <4> QED  BY <4>2, <4>3
    <3> QED  BY <3>2, <3>3
  <2> QED  BY <2>2, <2>3, <2>4, <2>5 DEF Chain
<1>5. CASE Get
  <2> USE <1>5 DEF Get
  <2>1. SUFFICES ASSUME next' # "ended" PROVE Chain'
    BY DEF Chain
  <2>2. UNCHANGED <<loop, held, read>> /\ next = "get"
    BY DEF loopVars
  <2>3. CASE buffer = <<>>
    BY <2>2, <2>3 DEF Chain, EndOf
  <2>4. CASE buffer # <<>>
    <3>1. buffer' = Tail(buffer) /\ sent' = Head(buffer)
      BY <2>1, <2>4
    <3>2. /\ Len(buffer') = Len(buffer) - 1 /\ Len(buffer) > 0 /\ Len(buffer) \in Nat
          /\ \A i \in 1..Len(buffer') : buffer'[i] = buffer[i + 1]
          /\ sent' = buffer[1] /\ buffer' \in Seq(Request)
      BY <3>1, <2>4, Popped DEF TypeOK
    <3>3. \A i \in 1..Len(buffer) : i > 1 => buffer[i].lo = buffer[i - 1].hi
      BY <2>2 DEF Chain
    <3>4. EndOf' = EndOf
      <4>1. CASE Len(buffer) = 1
        BY <4>1, <3>2, <2>4 DEF EndOf
      <4>2. CASE Len(buffer) # 1
        BY <4>2, <3>2, <2>4 DEF EndOf
      <4> QED  BY <4>1, <4>2
    <3>5. buffer' # <<>> => buffer'[1].lo = sent'.hi
      <4> SUFFICES ASSUME buffer' # <<>> PROVE buffer'[1].lo = sent'.hi
        OBVIOUS
      <4>1. 1 \in 1..Len(buffer') /\ 2 \in 1..Len(buffer)
        BY <3>2
      <4>2. buffer'[1] = buffer[2] /\ buffer[2].lo = buffer[1].hi
        BY <4>1, <3>2, <3>3
      <4> QED  BY <4>2, <3>2
    <3>6. ASSUME NEW i \in 1..Len(buffer'), i > 1 PROVE buffer'[i].lo = buffer'[i - 1].hi
      <4>1. i - 1 \in 1..Len(buffer') /\ i + 1 \in 1..Len(buffer) /\ i + 1 > 1
        BY <3>2, <3>6
      <4>2. buffer'[i] = buffer[i + 1] /\ buffer'[i - 1] = buffer[i]
        BY <4>1, <3>2, <3>6
      <4>3. buffer[i + 1].lo = buffer[i].hi
        BY <4>1, <3>3
      <4> QED  BY <4>2, <4>3
    <3> QED  BY <2>2, <3>4, <3>5, <3>6 DEF Chain
  <2> QED  BY <2>3, <2>4
<1>6. CASE UNCHANGED vars
  BY <1>6 DEF vars, Chain, EndOf, mainVars, nextVars, loopVars
<1> QED  BY <1>1, <1>2, <1>3, <1>4, <1>5, <1>6 DEF Next, LoopStep, NextStep

\* The three invariants hold in the initial state.
LEMMA InitHolds == Init => TypeOK /\ Progress /\ Chain
<1> SUFFICES ASSUME Init PROVE TypeOK /\ Progress /\ Chain
  OBVIOUS
<1>1. TypeOK
  <2>1. First \in Request /\ [lo |-> 0, hi |-> 0] \in Request
    BY DEF First, Request
  <2>2. <<First>> \in Seq(Request)
    BY <2>1
  <2>3. /\ nonblock \in BOOLEAN /\ cbreak \in BOOLEAN /\ registered \in BOOLEAN
        /\ running \in BOOLEAN /\ open \in BOOLEAN
    BY Zenon DEF Init
  <2>4. /\ main \in Main /\ sigint \in Main \cup {"none"} /\ responses \in 0..MaxResponses
        /\ typed \in 0..MaxKeys /\ read \in 0..MaxKeys
    BY ExecutorAssumption DEF Init, Main
  <2> QED  BY <2>1, <2>2, <2>3, <2>4 DEF Init, TypeOK
<1>2. Progress
  BY DEF Init, Progress, Entering, Leaving, Body
<1>3. Chain
  <2>1. buffer = <<First>> /\ Len(buffer) = 1 /\ buffer # <<>> /\ buffer[1] = First
    BY DEF Init
  <2> QED  BY <2>1 DEF Init, Chain, EndOf, First
<1> QED  BY <1>1, <1>2, <1>3

\* The variables of the executor keep their types, for any number of keys and
\* responses (rx/worker/executor.py).
THEOREM ExecutorTypeCorrect == Spec => []TypeOK
  BY InitHolds, TypeStep, PTL DEF Spec

\* All three invariants hold throughout.
LEMMA Invariants == Spec => [](TypeOK /\ Progress /\ Chain)
<1>1. TypeOK /\ Progress /\ Chain /\ [Next]_vars => (TypeOK /\ Progress /\ Chain)'
  BY TypeStep, ProgressStep, ChainStep
<1> QED  BY InitHolds, <1>1, PTL DEF Spec

\* The ExecRequest is sent first and then the keys, from the first one that
\* setcbreak has not flushed, once each, in order and without a gap, for any number
\* of keys and any interleaving of the three threads (got_stdin, __next__).
THEOREM KeysInOrder == Spec => StdinInOrder
<1>1. TypeOK /\ Progress /\ Chain /\ [Next]_vars => [sent' # sent => sent'.lo = sent.hi]_sent
  <2> SUFFICES ASSUME TypeOK, Chain, [Next]_vars, sent' # sent PROVE sent'.lo = sent.hi
    OBVIOUS
  <2>1. CASE MainStep \/ Response \/ CallEnds \/ Sigint \/ Type
    BY <2>1, MainElsewhere DEF Elsewhere
  <2>2. CASE LoopStep \/ Check \/ UNCHANGED vars
    BY <2>2 DEF LoopStep, Test, Select, Read, Put, Check, vars, nextVars
  <2>3. CASE Get
    <3>1. buffer # <<>> /\ sent' = Head(buffer) /\ next = "get"
      BY <2>3 DEF Get
    <3>2. Head(buffer) = buffer[1]
      BY <3>1, Popped DEF TypeOK
    <3> QED  BY <3>1, <3>2 DEF Chain
  <2> QED  BY <2>1, <2>2, <2>3 DEF Next, NextStep
<1> QED  BY Invariants, <1>1, PTL DEF Spec, StdinInOrder

\* The terminal is put back on every way out of the iterator, but for a Ctrl-C
\* inside __enter__ or __exit__ (StdinIterator.__exit__).
THEOREM TerminalIsRestored == Spec => []TerminalRestored
<1>1. Progress => TerminalRestored
  BY DEF Progress, TerminalRestored
<1> QED  BY Invariants, <1>1, PTL

\* After the main thread is done the loop thread begins no read of the terminal
\* (StdinIterator.loop).
THEOREM InputLeftAlone == Spec => LeavesInputAlone
<1> DEFINE Quiet == main = "done" /\ sigint \notin Entering \cup Leaving /\ loop # "read"
                      => loop' # "read" /\ read' = read
<1>1. TypeOK /\ Progress /\ Chain /\ [Next]_vars => [Quiet]_vars
  <2> SUFFICES ASSUME Progress, [Next]_vars, main = "done",
                      sigint \notin Entering \cup Leaving, loop # "read"
               PROVE  loop' # "read" /\ read' = read
    OBVIOUS
  <2>1. ~registered
    BY DEF Progress, Body
  <2>2. CASE MainStep \/ Response \/ CallEnds \/ Sigint \/ Type
    BY <2>2, MainElsewhere DEF Elsewhere
  <2>3. CASE LoopStep
    BY <2>1, <2>3 DEF LoopStep, Test, Select, Read, Put
  <2>4. CASE NextStep \/ UNCHANGED vars
    BY <2>4 DEF NextStep, Check, Get, vars, loopVars
  <2> QED  BY <2>2, <2>3, <2>4 DEF Next
<1> QED  BY Invariants, <1>1, PTL DEF Spec, LeavesInputAlone

\* Both invariants of the running iterator are inductive.
LEMMA CarriedStep ==
  TypeOK /\ EnterInv /\ Carried /\ [Next]_vars => EnterInv' /\ Carried'
<1> SUFFICES ASSUME TypeOK, EnterInv, Carried, [Next]_vars PROVE EnterInv' /\ Carried'
  OBVIOUS
<1> USE DEF EnterInv, Carried, Entering, Body, Leaving, terminal, mainVars, loopVars, nextVars
<1>1. CASE MainStep
  <2>1. CASE Terminal \/ Write \/ BodyEnds
    BY <2>1 DEF Terminal, Write, BodyEnds, Do
  <2>2. CASE Setfl \/ Setcbreak \/ Register
    BY <2>2 DEF Setfl, Setcbreak, Register, Do
  <2>3. CASE Enter
    BY <2>3 DEF Enter
  <2>4. CASE Unregister \/ Tcsetattr \/ Resetfl \/ Stop
    BY <2>4 DEF Unregister, Tcsetattr, Resetfl, Stop, Do
  <2> QED  BY <1>1, <2>1, <2>2, <2>3, <2>4 DEF MainStep
<1>2. CASE Response \/ CallEnds \/ Type
  BY <1>2 DEF Response, CallEnds, Type
<1>3. CASE Sigint
  BY <1>3 DEF Sigint, AfterSigint
<1>4. CASE LoopStep
  <2>1. CASE Test \/ Select
    BY <2>1 DEF Test, Select
  <2>2. CASE Read
    BY <2>2 DEF Read
  <2>3. CASE Put
    BY <2>3 DEF Put, TypeOK
  <2> QED  BY <1>4, <2>1, <2>2, <2>3 DEF LoopStep
<1>5. CASE NextStep
  BY <1>5 DEF NextStep, Check, Get
<1>6. CASE UNCHANGED vars
  BY <1>6 DEF vars
<1> QED  BY <1>1, <1>2, <1>3, <1>4, <1>5, <1>6 DEF Next

\* No wake-up is lost and no thread is missed: while the main thread is inside
\* the iterator, both threads that carry keys are alive, and the gRPC thread
\* waits only on an empty buffer (got_stdin's notify, __next__'s wait).
THEOREM KeysAreCarried == Spec => []Carried
<1>1. Init => EnterInv /\ Carried
  BY DEF Init, EnterInv, Carried, Entering, Body
<1> QED  BY <1>1, CarriedStep, ExecutorTypeCorrect, PTL DEF Spec
=============================================================================
