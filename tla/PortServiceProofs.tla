------------------------- MODULE PortServiceProofs -------------------------
(***************************************************************************)
(* No forwarder leaks, all are listed, and a refused port was opened, for   *)
(* any number of calls and ports.                                          *)
(***************************************************************************)
EXTENDS PortService, TLAPS

(***************************************************************************)
(* The inductive invariants                                                *)
(***************************************************************************)

\* No two forwarders hold a local port.
OneHolder == \A f, e \in Call : \A p \in Port : Holds(f, p) /\ Holds(e, p) => f = e

\* A forwarder exists from the bind of its call on, and is filed at its end.
Filed ==
  /\ \A p \in Port : ports[p] # "none" =>
        LocalPort(ports[p]) = p /\ pc[ports[p]] = "done"
  /\ \A c \in Call : pc[c] \in {"new", "bind"} => fwd[c] = "none"
  /\ \A c \in Call : pc[c] = "insert" => fwd[c] = "accepting"
  /\ \A f \in old : pc[f] = "done"

\* What is in _ports and does not listen was closed.
ListensUnlessClosed ==
  /\ \A p \in Port : ports[p] # "none" => fwd[ports[p]] = "accepting" \/ WasClosed(p)
  /\ \A c \in Call : /\ pc[c] # "done" => code[c] = "none"
                     /\ pc[c] = "stop" => op[c] = "close"

LeakInv == NoLeak /\ ClosedOnExit /\ OneHolder /\ Filed

\* The inputs of a call do not change, nor does its local port.
LEMMA LocalPortType == ASSUME TypeOK, NEW c \in Call PROVE LocalPort(c) \in Port
<1>1. local[c] \in Port \cup {0} /\ port[c] \in Port
  BY DEF TypeOK
<1> QED BY <1>1 DEF LocalPort

\* The effect of Stop on each forwarder.
LEMMA StopEffect ==
  ASSUME TypeOK, NEW F, Stop(F)
  PROVE  /\ fwd' \in [Call -> FwdState]
         /\ \A f \in Call : /\ f \notin F => fwd'[f] = fwd[f]
                            /\ fwd'[f] = "accepting" => f \notin F /\ fwd[f] = "accepting"
                            /\ fwd'[f] \in {"accepting", "lingering"}
                                 => fwd[f] \in {"accepting", "lingering"}
                            /\ fwd[f] = "none" => fwd'[f] = "none"
<1>1. PICK G \in SUBSET F :
        fwd' = [f \in Call |->
                  CASE f \in F /\ fwd[f] = "accepting" /\ f \in G -> "lingering"
                    [] f \in F /\ fwd[f] = "accepting" -> "closed"
                    [] OTHER -> fwd[f]]
  BY DEF Stop
<1>2. ASSUME NEW f \in Call, f \in F, fwd[f] = "accepting"
      PROVE  fwd'[f] \in {"lingering", "closed"}
  BY <1>1, <1>2
<1>3. ASSUME NEW f \in Call, ~(f \in F /\ fwd[f] = "accepting")
      PROVE  fwd'[f] = fwd[f]
  BY <1>1, <1>3
<1>4. fwd \in [Call -> FwdState]
  BY DEF TypeOK
<1>5. ASSUME NEW f \in Call PROVE fwd'[f] \in FwdState
  BY <1>2, <1>3, <1>4 DEF FwdState
<1>6. fwd' \in [Call -> FwdState]
  BY <1>1, <1>5
<1> QED BY <1>2, <1>3, <1>6

\* Type correctness is inductive.
LEMMA TypeStep == TypeOK /\ [Next]_vars => TypeOK'
<1> SUFFICES ASSUME TypeOK, [Next]_vars PROVE TypeOK'
  OBVIOUS
<1> USE ServiceAssumption DEF TypeOK, Goto, Return, Codes, inputs, sockets, closing
<1>1. ASSUME NEW c \in Call, Accept(c) PROVE TypeOK'
  <2>1. conns[c] + 1 \in 0..MaxConn
    BY <1>1 DEF Accept
  <2>2. conns' \in [Call -> 0..MaxConn]
    BY <1>1, <2>1 DEF Accept
  <2>3. fwd' \in [Call -> FwdState]
    BY <1>1 DEF Accept, FwdState
  <2> QED BY <1>1, <2>2, <2>3 DEF Accept
<1>2. ASSUME NEW c \in Call, Open(c) PROVE TypeOK'
  BY <1>2 DEF Open
<1>3. ASSUME NEW c \in Call, Bind(c) \/ BindFails(c) PROVE TypeOK'
  BY <1>3 DEF Bind, BindFails, FwdState
<1>4. ASSUME NEW c \in Call, Insert(c) PROVE TypeOK'
  <2>1. grown' \in SUBSET (Call \cup {"sigint"})
    BY <1>4 DEF Insert, Iterators
  <2>2. ports' \in [Port -> Call \cup {"none"}]
    BY <1>4 DEF Insert
  <2> QED BY <1>4, <2>1, <2>2 DEF Insert
<1>5. ASSUME NEW c \in Call, Close(c) PROVE TypeOK'
  BY <1>5 DEF Close
<1>6. ASSUME NEW c \in Call, CloseStop(c) PROVE TypeOK'
  <2>1. fwd' \in [Call -> FwdState]
    BY <1>6, StopEffect DEF CloseStop
  <2>2. /\ pc' \in [Call -> {"new", "bind", "insert", "stop", "iterate", "done"}]
        /\ code' \in [Call -> Codes]
    BY <1>6 DEF CloseStop
  <2> QED BY <1>6, <2>1, <2>2 DEF CloseStop
<1>7. ASSUME NEW c \in Call, GetPorts(c) PROVE TypeOK'
  <2>1. Entries \in SUBSET Port
    BY DEF Entries
  <2> QED BY <1>7, <2>1 DEF GetPorts
<1>8. ASSUME NEW c \in Call, GetPortsEnd(c) PROVE TypeOK'
  BY <1>8 DEF GetPortsEnd
<1>9. CASE Sigint
  BY <1>9 DEF Sigint, Entries
<1>10. ASSUME NEW p \in Port, CloseNext(p) PROVE TypeOK'
  BY <1>10, StopEffect DEF CloseNext
<1>11. CASE CloseAbort \/ CloseDone
  BY <1>11 DEF CloseAbort, CloseDone
<1>12. CASE UNCHANGED vars
  BY <1>12 DEF vars
<1> QED
  BY <1>1, <1>2, <1>3, <1>4, <1>5, <1>6, <1>7, <1>8, <1>9, <1>10, <1>11, <1>12
     DEF Next, RpcStep, HandlerStep

\* What a step that leaves _ports, the inputs and the handler alone, and stops
\* or ends forwarders of finished calls, does to the invariant.
LEMMA QuietStep ==
  ASSUME TypeOK, LeakInv, UNCHANGED <<inputs, ports, server, todo, old>>,
         \A c \in Call : /\ pc[c] = "insert" => pc'[c] = "insert"
                         /\ pc'[c] \in {"new", "insert"} => pc'[c] = pc[c]
                         /\ pc'[c] = "bind" => pc[c] \in {"new", "bind"}
                         /\ pc[c] = "done" => pc'[c] = "done",
         \A f \in Call : /\ fwd'[f] = "accepting" => fwd[f] = "accepting"
                         /\ fwd'[f] = "lingering" => fwd[f] \in {"accepting", "lingering"}
                         /\ fwd[f] = "none" => fwd'[f] = "none"
                         /\ pc[f] = "insert" => fwd'[f] = fwd[f]
  PROVE  LeakInv'
<1>1. \A f \in Call : LocalPort(f)' = LocalPort(f)
  BY DEF inputs, LocalPort
<1>2. NoLeak' /\ ClosedOnExit'
  BY <1>1 DEF LeakInv, NoLeak, ClosedOnExit, TypeOK
<1>3. OneHolder'
  BY <1>1 DEF LeakInv, OneHolder, Holds
<1>4. Filed'
  <2>1. \A p \in Port : ports[p] # "none" => ports[p] \in Call
    BY DEF TypeOK
  <2> QED BY <1>1, <2>1 DEF LeakInv, Filed, TypeOK
<1> QED BY <1>2, <1>3, <1>4 DEF LeakInv

\* A new forwarder is alone on its port, and about to be filed.
LEMMA BindStep ==
  ASSUME TypeOK, LeakInv, NEW c \in Call, Bind(c)
  PROVE  LeakInv'
<1> USE DEF Goto
<1>1. \A f \in Call : LocalPort(f)' = LocalPort(f)
  BY DEF Bind, inputs, LocalPort
<1>2. /\ fwd'[c] = "accepting" /\ pc'[c] = "insert"
      /\ \A f \in Call \ {c} : fwd'[f] = fwd[f] /\ pc'[f] = pc[f]
      /\ UNCHANGED <<ports, server, todo, old>>
  BY DEF Bind, TypeOK, closing
<1>3. NoLeak'
  BY <1>1, <1>2 DEF LeakInv, NoLeak
<1>4. c \notin old
  BY DEF LeakInv, Filed, Bind
<1>5. ClosedOnExit'
  BY <1>1, <1>2, <1>4 DEF LeakInv, ClosedOnExit, TypeOK
<1>6. OneHolder'
  <2>1. \A f \in Call : \A p \in Port :
          Holds(f, p)' => (f = c /\ p = LocalPort(c)) \/ (f # c /\ Holds(f, p))
    BY <1>1, <1>2 DEF Holds
  <2>2. \A f \in Call : ~Holds(f, LocalPort(c))
    BY DEF Bind, InUse
  <2> QED BY <2>1, <2>2 DEF LeakInv, OneHolder
<1>7. Filed'
  <2>1. \A p \in Port : ports[p] # "none" => ports[p] \in Call \ {c}
    BY DEF TypeOK, LeakInv, Filed, Bind
  <2> QED BY <1>1, <1>2, <1>4, <2>1 DEF LeakInv, Filed, TypeOK
<1> QED BY <1>3, <1>5, <1>6, <1>7 DEF LeakInv

\* Filing a forwarder replaces none that accepts connections: that one would
\* hold the same local port.
LEMMA InsertStep ==
  ASSUME TypeOK, LeakInv, NEW c \in Call, Insert(c)
  PROVE  LeakInv'
<1> USE DEF Return, Key
<1>1. \A f \in Call : LocalPort(f)' = LocalPort(f)
  BY DEF Insert, inputs, LocalPort
<1>2. /\ pc[c] = "insert" /\ pc'[c] = "done"
      /\ \A f \in Call \ {c} : pc'[f] = pc[f]
      /\ LocalPort(c) \in Port /\ ports'[LocalPort(c)] = c
      /\ \A p \in Port \ {LocalPort(c)} : ports'[p] = ports[p]
      /\ UNCHANGED <<fwd, server, todo, old>>
  BY LocalPortType DEF Insert, TypeOK, sockets
<1>3. ASSUME NEW f \in Call, fwd[f] = "accepting", LocalPort(f) = LocalPort(c)
      PROVE  f = c
  <2>1. fwd[c] = "accepting"
    BY <1>2 DEF LeakInv, Filed
  <2> QED BY <1>2, <1>3, <2>1 DEF LeakInv, OneHolder, Holds
<1>4. NoLeak'
  <2> SUFFICES ASSUME server # "stopped", NEW f \in Call, fwd[f] = "accepting"
               PROVE  ports'[LocalPort(f)] = f \/ pc'[f] = "insert"
    BY <1>1, <1>2 DEF NoLeak
  <2>1. CASE LocalPort(f) = LocalPort(c)
    BY <1>2, <1>3, <2>1
  <2>2. CASE LocalPort(f) # LocalPort(c)
    <3>1. f # c /\ LocalPort(f) \in Port
      BY <2>2, LocalPortType
    <3> QED BY <1>2, <2>2, <3>1 DEF LeakInv, NoLeak
  <2> QED BY <2>1, <2>2
<1>5. c \notin old
  BY <1>2 DEF LeakInv, Filed
<1>6. OneHolder'
  BY <1>1, <1>2 DEF LeakInv, OneHolder, Holds
<1>7. ClosedOnExit'
  <2> SUFFICES ASSUME server # "up", NEW f \in old, fwd[f] = "accepting"
               PROVE  /\ server # "stopped"
                      /\ LocalPort(f) \in todo /\ ports'[LocalPort(f)] = f
    BY <1>1, <1>2 DEF ClosedOnExit, TypeOK
  <2>1. f \in Call /\ f # c /\ LocalPort(f) \in Port
    BY <1>5, LocalPortType DEF TypeOK
  <2>2. LocalPort(f) # LocalPort(c)
    BY <1>3, <2>1
  <2> QED BY <1>2, <2>1, <2>2 DEF LeakInv, ClosedOnExit
<1>8. Filed'
  <2>1. \A p \in Port : ports[p] # "none" => ports[p] \in Call
    BY DEF TypeOK
  <2>2. \A p \in Port : ports'[p] # "none" =>
           LocalPort(ports'[p]) = p /\ pc'[ports'[p]] = "done" /\ ports'[p] \in Call
    BY <1>2, <2>1 DEF LeakInv, Filed
  <2>3. \A p \in Port : ports'[p] # "none" => LocalPort(ports[p])' = p
    BY <1>1, <2>2
  <2> QED BY <1>1, <1>2, <1>5, <2>2, <2>3 DEF LeakInv, Filed, TypeOK
<1> QED BY <1>4, <1>6, <1>7, <1>8 DEF LeakInv

\* Stopping the forwarder at a key of _ports leaves those about to be filed alone.
LEMMA StopFiled ==
  ASSUME TypeOK, LeakInv, NEW p \in Port, Stop({ports[p]}), NEW f \in Call
  PROVE  /\ fwd'[f] = "accepting" => fwd[f] = "accepting" /\ f # ports[p]
         /\ fwd'[f] = "lingering" => fwd[f] \in {"accepting", "lingering"}
         /\ fwd[f] = "none" => fwd'[f] = "none"
         /\ pc[f] = "insert" => fwd'[f] = fwd[f]
<1>1. pc[f] = "insert" => f # ports[p]
  BY ServiceAssumption DEF LeakInv, Filed
<1> QED BY <1>1, StopEffect

\* The invariant is inductive.
LEMMA LeakStep == TypeOK /\ LeakInv /\ [Next]_vars => LeakInv'
<1> SUFFICES ASSUME TypeOK, LeakInv, [Next]_vars PROVE LeakInv'
  OBVIOUS
<1>1. ASSUME NEW c \in Call, Accept(c) PROVE LeakInv'
  <2>1. \A f \in Call : /\ fwd'[f] = "accepting" => fwd[f] = "accepting"
                        /\ fwd'[f] = "lingering" => fwd[f] \in {"accepting", "lingering"}
                        /\ fwd[f] = "none" => fwd'[f] = "none"
                        /\ pc[f] = "insert" => fwd'[f] = fwd[f]
    BY <1>1 DEF Accept, TypeOK, LeakInv, Filed
  <2> QED BY <1>1, <2>1, QuietStep DEF Accept, closing
<1>2. ASSUME NEW c \in Call,
             Open(c) \/ BindFails(c) \/ Close(c) \/ GetPorts(c) \/ GetPortsEnd(c)
      PROVE  LeakInv'
  <2>1. UNCHANGED <<inputs, ports, fwd, server, todo, old>>
    BY <1>2 DEF Open, BindFails, Close, GetPorts, GetPortsEnd, closing, sockets
  <2>2. \A d \in Call : /\ pc[d] = "insert" => pc'[d] = "insert"
                        /\ pc'[d] \in {"new", "insert"} => pc'[d] = pc[d]
                        /\ pc'[d] = "bind" => pc[d] \in {"new", "bind"}
                        /\ pc[d] = "done" => pc'[d] = "done"
    BY <1>2 DEF Open, BindFails, Close, GetPorts, GetPortsEnd, Goto, Return, TypeOK
  <2> QED BY <2>1, <2>2, QuietStep
<1>3. ASSUME NEW c \in Call, CloseStop(c) PROVE LeakInv'
  <2>1. UNCHANGED <<inputs, ports, server, todo, old>>
    BY <1>3 DEF CloseStop, closing
  <2>2. \A d \in Call : /\ pc[d] = "insert" => pc'[d] = "insert"
                        /\ pc'[d] \in {"new", "insert"} => pc'[d] = pc[d]
                        /\ pc'[d] = "bind" => pc[d] \in {"new", "bind"}
                        /\ pc[d] = "done" => pc'[d] = "done"
    BY <1>3 DEF CloseStop, Return, TypeOK
  <2>3. port[c] \in Port
    BY DEF TypeOK
  <2>4. UNCHANGED fwd \/ Stop({ports[port[c]]})
    BY <1>3 DEF CloseStop
  <2>5. CASE UNCHANGED fwd
    BY <2>1, <2>2, <2>5, QuietStep
  <2>6. CASE Stop({ports[port[c]]})
    BY <2>1, <2>2, <2>3, <2>6, StopFiled, QuietStep
  <2> QED BY <2>4, <2>5, <2>6
<1>4. CASE Sigint
  <2>1. /\ UNCHANGED <<inputs, ports, fwd, pc>> /\ server = "up" /\ server' = "closing"
        /\ todo' = Entries /\ old' = {ports[p] : p \in Entries}
    BY <1>4 DEF Sigint, sockets
  <2>2. \A f \in Call : LocalPort(f)' = LocalPort(f)
    BY <2>1 DEF inputs, LocalPort
  <2>3. NoLeak' /\ OneHolder'
    BY <2>1, <2>2 DEF LeakInv, NoLeak, OneHolder, Holds
  <2>4. \A f \in old' : f \in Call /\ pc[f] = "done" /\ LocalPort(f) \in Entries
                       /\ ports[LocalPort(f)] = f
    BY <2>1 DEF LeakInv, Filed, Entries, TypeOK
  <2>5. ClosedOnExit'
    BY <2>1, <2>2, <2>4 DEF ClosedOnExit
  <2>6. Filed'
    <3>1. \A p \in Port : ports[p] # "none" => ports[p] \in Call
      BY DEF TypeOK
    <3> QED BY <2>1, <2>2, <2>4, <3>1 DEF LeakInv, Filed
  <2> QED BY <2>3, <2>5, <2>6 DEF LeakInv
<1>5. ASSUME NEW p \in Port, CloseNext(p) PROVE LeakInv'
  <2>1. /\ UNCHANGED <<inputs, ports, pc, server, old>> /\ server = "closing"
        /\ todo' = todo \ {p} /\ Stop({ports[p]})
    BY <1>5 DEF CloseNext
  <2>2. \A f \in Call : LocalPort(f)' = LocalPort(f)
    BY <2>1 DEF inputs, LocalPort
  <2>3. NoLeak' /\ OneHolder'
    <3>1. NoLeak'
      BY <2>1, <2>2, StopFiled DEF LeakInv, NoLeak
    <3>2. OneHolder'
      BY <2>1, <2>2, StopFiled, StopEffect DEF LeakInv, OneHolder, Holds
    <3> QED BY <3>1, <3>2
  <2>4. ClosedOnExit'
    BY <2>1, <2>2, StopFiled DEF LeakInv, ClosedOnExit, TypeOK
  <2>5. Filed'
    <3>1. \A q \in Port : ports[q] # "none" => ports[q] \in Call
      BY DEF TypeOK
    <3> QED BY <2>1, <2>2, <3>1, StopFiled DEF LeakInv, Filed
  <2> QED BY <2>3, <2>4, <2>5 DEF LeakInv
<1>6. CASE CloseAbort
  <2>1. UNCHANGED <<inputs, ports, fwd, pc, todo, old>> /\ server = "closing" /\ server' = "aborted"
    BY <1>6 DEF CloseAbort, sockets
  <2>2. \A f \in Call : LocalPort(f)' = LocalPort(f)
    BY <2>1 DEF inputs, LocalPort
  <2>3. \A p \in Port : ports[p] # "none" => ports[p] \in Call
    BY DEF TypeOK
  <2>4. NoLeak' /\ OneHolder' /\ Filed'
    BY <2>1, <2>2, <2>3 DEF LeakInv, NoLeak, OneHolder, Filed, Holds
  <2>5. old \subseteq Call
    BY DEF TypeOK
  <2>6. ClosedOnExit'
    BY <2>1, <2>2, <2>5 DEF LeakInv, ClosedOnExit
  <2> QED BY <2>4, <2>6 DEF LeakInv
<1>7. CASE CloseDone
  <2>1. /\ UNCHANGED <<inputs, fwd, pc, todo, old>> /\ server = "closing" /\ server' = "stopped"
        /\ todo = {} /\ ports' = [p \in Port |-> "none"]
    BY <1>7 DEF CloseDone, sockets
  <2>2. \A f \in Call : LocalPort(f)' = LocalPort(f)
    BY <2>1 DEF inputs, LocalPort
  <2>3. ClosedOnExit'
    BY <2>1 DEF LeakInv, ClosedOnExit
  <2> QED BY <2>1, <2>2, <2>3
          DEF LeakInv, NoLeak, OneHolder, Filed, Holds
<1>8. CASE UNCHANGED vars
  BY <1>8, QuietStep DEF vars, closing, sockets
<1> QED
  BY <1>1, <1>2, <1>3, <1>4, <1>5, <1>6, <1>7, <1>8, BindStep, InsertStep
     DEF Next, RpcStep, HandlerStep

\* The variables of the service keep their types in every behaviour.
THEOREM ServiceTypeCorrect == Spec => []TypeOK
<1>1. Init => TypeOK
  BY ServiceAssumption DEF Init, TypeOK, FwdState, Codes
<1> QED BY <1>1, TypeStep, PTL DEF Spec

LEMMA LeakInvariant == Spec => []LeakInv
<1>1. Init => LeakInv
  BY DEF Init, LeakInv, NoLeak, ClosedOnExit, OneHolder, Filed, Holds
<1> QED BY <1>1, LeakStep, ServiceTypeCorrect, PTL DEF Spec

\* For any number of calls and ports: OpenPort leaks no forwarder, whatever the
\* calls and the SIGINT handler do between its check, its bind and its insert.
THEOREM ForwardersAreFiled == Spec => []NoLeak
<1>1. LeakInv => NoLeak
  BY DEF LeakInv
<1> QED BY <1>1, LeakInvariant, PTL

\* For any number of calls and ports: what close_ports found in _ports and has not
\* told to stop is at a key it has yet to reach, also where RuntimeError cuts its
\* loop short; so nothing that it found is left when it returns.
THEOREM ClosePortsStopsAll == Spec => []ClosedOnExit
<1>1. LeakInv => ClosedOnExit
  BY DEF LeakInv
<1> QED BY <1>1, LeakInvariant, PTL

\* For any number of calls and ports: GetPorts lists every open port.
THEOREM ForwardersAreListed == Spec => ListsForwarders
<1> DEFINE Listed == \A c, f \in Call :
       pc[c] = "new" /\ pc'[c] = "iterate" /\ pc[f] = "done" /\ fwd[f] = "accepting"
       => LocalPort(f) \in listed'[c]
<1>1. ASSUME TypeOK, LeakInv, [Next]_vars PROVE [Listed]_vars
  <2> SUFFICES ASSUME NEW c \in Call, NEW f \in Call, Next,
                      pc[c] = "new", pc'[c] = "iterate", pc[f] = "done", fwd[f] = "accepting"
               PROVE  LocalPort(f) \in listed'[c]
    BY <1>1
  <2> TypeOK /\ LeakInv
    BY <1>1
  <2> USE DEF Goto, Return, TypeOK
  <2>1. GetPorts(c)
    <3>1. ASSUME NEW d \in Call, RpcStep(d) PROVE GetPorts(c)
      <4>1. CASE Open(d) \/ Bind(d) \/ BindFails(d)
        BY <4>1 DEF Open, Bind, BindFails
      <4>2. CASE Insert(d) \/ Close(d) \/ CloseStop(d)
        BY <4>2 DEF Insert, Close, CloseStop
      <4>3. CASE GetPorts(d) \/ GetPortsEnd(d)
        BY <4>3 DEF GetPorts, GetPortsEnd
      <4> QED BY <3>1, <4>1, <4>2, <4>3 DEF RpcStep
    <3>2. ASSUME NEW d \in Call, Accept(d) PROVE FALSE
      BY <3>2 DEF Accept
    <3>3. CASE Sigint \/ HandlerStep
      BY <3>3 DEF Sigint, HandlerStep, CloseNext, CloseAbort, CloseDone
    <3> QED BY <3>1, <3>2, <3>3 DEF Next
  <2>2. listed'[c] = Entries /\ Serving
    BY <2>1 DEF GetPorts
  <2>3. ports[LocalPort(f)] = f
    BY <2>2 DEF LeakInv, NoLeak, Serving
  <2>4. LocalPort(f) \in Entries
    BY <2>3, LocalPortType, ServiceAssumption DEF Entries
  <2> QED BY <2>2, <2>4
<1> QED BY <1>1, ServiceTypeCorrect, LeakInvariant, PTL DEF Spec, ListsForwarders

\* While no SIGINT has come, a port that was closed stays so.
LEMMA StaysClosed ==
  ASSUME TypeOK, ListensUnlessClosed, NEW p \in Port, WasClosed(p),
         UNCHANGED inputs, server # "up" => server' # "up",
         \A d \in Call : pc[d] = "done" => code'[d] = code[d]
  PROVE  WasClosed(p)'
BY DEF WasClosed, ListensUnlessClosed, inputs, TypeOK

\* What is in _ports listens unless it was closed: inductive.
LEMMA ListensStep ==
  TypeOK /\ LeakInv /\ ListensUnlessClosed /\ [Next]_vars => ListensUnlessClosed'
<1> SUFFICES ASSUME TypeOK, LeakInv, ListensUnlessClosed, [Next]_vars
             PROVE  ListensUnlessClosed'
  OBVIOUS
<1> USE DEF Goto, Return
<1>0. \A p \in Port : ports[p] # "none" => ports[p] \in Call
  BY DEF TypeOK
<1>1. ASSUME NEW c \in Call,
             Open(c) \/ Bind(c) \/ BindFails(c) \/ Close(c) \/ GetPorts(c) \/ GetPortsEnd(c)
      PROVE  ListensUnlessClosed'
  <2>1. /\ UNCHANGED <<inputs, ports, server>> /\ pc[c] # "done"
        /\ \A d \in Call \ {c} : pc'[d] = pc[d] /\ code'[d] = code[d]
        /\ \A d \in Call : fwd[d] = "accepting" => fwd'[d] = "accepting"
        /\ pc'[c] # "done" => code'[c] = code[c]
        /\ pc'[c] = "stop" => op[c] = "close"
    BY <1>1 DEF Open, Bind, BindFails, Close, GetPorts, GetPortsEnd, closing, sockets, TypeOK
  <2>2. \A p \in Port : WasClosed(p) => WasClosed(p)'
    BY <2>1, StaysClosed
  <2> QED BY <1>0, <2>1, <2>2 DEF ListensUnlessClosed, inputs
<1>2. ASSUME NEW c \in Call, Insert(c) PROVE ListensUnlessClosed'
  <2>1. /\ UNCHANGED <<inputs, fwd, server>> /\ pc[c] = "insert" /\ pc'[c] = "done"
        /\ \A d \in Call \ {c} : pc'[d] = pc[d] /\ code'[d] = code[d]
        /\ \A p \in Port : ports'[p] = ports[p] \/ ports'[p] = c
    BY <1>2 DEF Insert, sockets, TypeOK
  <2>2. \A p \in Port : WasClosed(p) => WasClosed(p)'
    BY <2>1, StaysClosed
  <2>3. fwd[c] = "accepting"
    BY <2>1 DEF LeakInv, Filed
  <2> QED BY <1>0, <2>1, <2>2, <2>3 DEF ListensUnlessClosed, inputs
<1>3. ASSUME NEW c \in Call, CloseStop(c) PROVE ListensUnlessClosed'
  <2>1. /\ UNCHANGED <<inputs, ports, server>> /\ pc[c] = "stop" /\ pc'[c] = "done"
        /\ \A d \in Call \ {c} : pc'[d] = pc[d] /\ code'[d] = code[d]
    BY <1>3 DEF CloseStop, closing, TypeOK
  <2>2. \A p \in Port : WasClosed(p) => WasClosed(p)'
    BY <2>1, StaysClosed
  <2>3. CASE UNCHANGED fwd
    BY <1>0, <2>1, <2>2, <2>3 DEF ListensUnlessClosed, inputs
  <2>4. CASE Stop({ports[port[c]]}) /\ code' = [code EXCEPT ![c] = "OK"]
    <3>1. WasClosed(port[c])'
      BY <2>1, <2>4 DEF WasClosed, inputs, TypeOK, ListensUnlessClosed
    <3>2. ASSUME NEW p \in Port, p # port[c], ports[p] # "none"
          PROVE  fwd'[ports[p]] = fwd[ports[p]]
      <4>1. port[c] \in Port
        BY DEF TypeOK
      <4>2. ports[p] # ports[port[c]]
        BY <3>2, <4>1 DEF LeakInv, Filed
      <4> QED BY <1>0, <2>4, <3>2, <4>2, StopEffect
    <3> QED BY <1>0, <2>1, <2>2, <3>1, <3>2 DEF ListensUnlessClosed, inputs
  <2> QED BY <1>3, <2>3, <2>4 DEF CloseStop
<1>4. ASSUME NEW c \in Call, Accept(c) PROVE ListensUnlessClosed'
  <2>1. /\ UNCHANGED <<inputs, pc, code, ports, server>>
        /\ \A d \in Call : fwd[d] = "accepting" => fwd'[d] = "accepting"
    BY <1>4 DEF Accept, closing, TypeOK
  <2>2. \A p \in Port : WasClosed(p) => WasClosed(p)'
    BY <2>1, StaysClosed
  <2> QED BY <1>0, <2>1, <2>2 DEF ListensUnlessClosed, inputs
<1>5. CASE Sigint \/ HandlerStep
  <2>1. UNCHANGED <<inputs, pc, code>> /\ server' # "up"
    BY <1>5 DEF Sigint, HandlerStep, CloseNext, CloseAbort, CloseDone
  <2> QED BY <2>1 DEF ListensUnlessClosed, WasClosed, inputs
<1>6. CASE UNCHANGED vars
  BY <1>6 DEF vars, inputs, sockets, closing, ListensUnlessClosed, WasClosed
<1> QED
  BY <1>1, <1>2, <1>3, <1>4, <1>5, <1>6 DEF Next, RpcStep

LEMMA ListensInvariant == Spec => []ListensUnlessClosed
<1>1. Init => ListensUnlessClosed
  BY DEF Init, ListensUnlessClosed
<1> QED BY <1>1, ListensStep, ServiceTypeCorrect, LeakInvariant, PTL DEF Spec

\* For any number of calls and ports: OpenPort says "Already forwarding port" only
\* of a port that was opened, and that listens unless it was closed.
THEOREM RefusedPortsWereOpened == Spec => RefusedIfOpened
<1> DEFINE Refused == \A c \in Call : pc[c] = "new" /\ code'[c] = "EADDRINUSE" =>
        \E f \in Call :
          /\ LocalPort(f) = LocalPort(c) /\ pc[f] = "done"
          /\ fwd[f] = "accepting" \/ WasClosed(LocalPort(c))
<1>1. ASSUME TypeOK, LeakInv, ListensUnlessClosed, [Next]_vars PROVE [Refused]_vars
  <2> SUFFICES ASSUME NEW c \in Call, Next, pc[c] = "new", code'[c] = "EADDRINUSE"
               PROVE  \E f \in Call :
                        /\ LocalPort(f) = LocalPort(c) /\ pc[f] = "done"
                        /\ fwd[f] = "accepting" \/ WasClosed(LocalPort(c))
    BY <1>1
  <2> TypeOK /\ LeakInv /\ ListensUnlessClosed
    BY <1>1
  <2> USE DEF Goto, Return, TypeOK
  <2>1. code[c] = "none"
    BY DEF ListensUnlessClosed
  <2>2. ports[LocalPort(c)] # "none"
    <3>1. ASSUME NEW d \in Call, RpcStep(d) PROVE ports[LocalPort(c)] # "none"
      <4>1. CASE Open(d)
        BY <2>1, <4>1 DEF Open
      <4>2. CASE Bind(d) \/ BindFails(d) \/ Insert(d)
        BY <2>1, <4>2 DEF Bind, BindFails, Insert
      <4>3. CASE Close(d) \/ CloseStop(d) \/ GetPorts(d) \/ GetPortsEnd(d)
        BY <2>1, <4>3 DEF Close, CloseStop, GetPorts, GetPortsEnd
      <4> QED BY <3>1, <4>1, <4>2, <4>3 DEF RpcStep
    <3>2. ASSUME NEW d \in Call, Accept(d) PROVE FALSE
      BY <2>1, <3>2 DEF Accept
    <3>3. CASE Sigint \/ HandlerStep
      BY <2>1, <3>3 DEF Sigint, HandlerStep, CloseNext, CloseAbort, CloseDone
    <3> QED BY <3>1, <3>2, <3>3 DEF Next
  <2>3. LocalPort(c) \in Port
    BY LocalPortType
  <2>4. /\ ports[LocalPort(c)] \in Call
        /\ LocalPort(ports[LocalPort(c)]) = LocalPort(c) /\ pc[ports[LocalPort(c)]] = "done"
        /\ fwd[ports[LocalPort(c)]] = "accepting" \/ WasClosed(LocalPort(c))
    BY <2>2, <2>3 DEF LeakInv, Filed, ListensUnlessClosed
  <2> QED BY <2>4
<1> QED BY <1>1, ServiceTypeCorrect, LeakInvariant, ListensInvariant, PTL
        DEF Spec, RefusedIfOpened
=============================================================================
