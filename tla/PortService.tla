---------------------------- MODULE PortService ----------------------------
(***************************************************************************)
(* PortForwardingService and PortForwarder of the daemon                    *)
(* (rx/daemon/port_forwarding/{service,port_forwarder}.py): the RPC threads *)
(* that open, close and list ports, the accept thread of each forwarder,    *)
(* and close_ports, run by the SIGINT handler.                              *)
(*                                                                         *)
(* A call c of OpenPort makes at most one PortForwarder, so forwarder c is  *)
(* the one that call c made.  What a forwarder does with a connection is    *)
(* module Connection.                                                      *)
(***************************************************************************)
EXTENDS Naturals

CONSTANTS Call,      \* RPCs, and the forwarders that OpenPort makes for them
          Port,      \* port numbers, local and remote
          MaxConn    \* bound: connections each forwarder accepts

ASSUME ServiceAssumption == {"none", "sigint"} \cap Call = {} /\ MaxConn \in Nat

VARIABLES
  op, port, local,   \* inputs of a call: which RPC, request.port, local_port
  pc, code,          \* where the call is, and the code it returned
  listed,            \* the ports GetPorts answered
  ports,             \* _ports: ports[p] is a forwarder or "none"
  fwd,               \* fwd[f]: state of the listening socket of forwarder f
  conns,             \* conns[f]: connections accepted by forwarder f
  server, todo,      \* the SIGINT handler, and the ports close_ports has yet to stop
  old,               \* history: the forwarders that close_ports found in _ports
  grown              \* iterators ("sigint" or a GetPorts call) whose dict has grown

inputs  == <<op, port, local>>
sockets == <<fwd, conns>>
closing == <<server, todo, old, grown>>
vars    == <<inputs, pc, code, listed, ports, sockets, closing>>

\* request.local_port if request.local_port else request.port
LocalPort(c) == IF local[c] = 0 THEN port[c] ELSE local[c]

FwdState == {"none", "accepting", "lingering", "closed"}
Codes == {"none", "OK", "EADDRINUSE", "NOT_FOUND", "KeyError", "OSError", "RuntimeError"}

TypeOK ==
  /\ op \in [Call -> {"open", "close", "get"}]
  /\ port \in [Call -> Port]
  /\ local \in [Call -> Port \cup {0}]
  /\ pc \in [Call -> {"new", "bind", "insert", "stop", "iterate", "done"}]
  /\ code \in [Call -> Codes]
  /\ listed \in [Call -> SUBSET Port]
  /\ ports \in [Port -> Call \cup {"none"}]
  /\ fwd \in [Call -> FwdState]
  /\ conns \in [Call -> 0..MaxConn]
  /\ server \in {"up", "closing", "stopped", "aborted"}
  /\ todo \in SUBSET Port
  /\ old \in SUBSET Call
  /\ grown \in SUBSET (Call \cup {"sigint"})

Init ==
  /\ op \in [Call -> {"open", "close", "get"}]
  /\ port \in [Call -> Port]
  /\ local \in [Call -> Port \cup {0}]
  /\ pc = [c \in Call |-> "new"]
  /\ code = [c \in Call |-> "none"]
  /\ listed = [c \in Call |-> {}]
  /\ ports = [p \in Port |-> "none"]
  /\ fwd = [f \in Call |-> "none"]
  /\ conns = [f \in Call |-> 0]
  /\ server = "up"
  /\ todo = {}
  /\ old = {}
  /\ grown = {}

(***************************************************************************)
(* Forwarders                                                              *)
(***************************************************************************)

\* The kernel keeps a port bound while a thread is blocked in accept on it,
\* also after the file descriptor is closed.
Holds(f, p) == fwd[f] \in {"accepting", "lingering"} /\ LocalPort(f) = p
InUse(p) == \E f \in Call : Holds(f, p)

\* PortForwarder.stop on the forwarders of F: _done is set and the socket is
\* closed.  A thread blocked in accept stays there (Linux); one that is not,
\* or is on a system that aborts the accept, ends.
Stop(F) ==
  \E G \in SUBSET F :
    fwd' = [f \in Call |-> CASE f \in F /\ fwd[f] = "accepting" /\ f \in G -> "lingering"
                             [] f \in F /\ fwd[f] = "accepting" -> "closed"
                             [] OTHER -> fwd[f]]

\* accept_connection: a connection gets a handler thread.  run_forever then
\* looks at _done, which stop has set if the forwarder lingers.  Nothing makes
\* this step happen: a thread that died in create_authed_client leaves its
\* socket listening, and clients may never come.
Accept(f) ==
  /\ fwd[f] \in {"accepting", "lingering"} /\ conns[f] < MaxConn
  /\ conns' = [conns EXCEPT ![f] = @ + 1]
  /\ fwd' = [fwd EXCEPT ![f] = IF @ = "lingering" THEN "closed" ELSE @]
  /\ UNCHANGED <<inputs, pc, code, listed, ports, closing>>

(***************************************************************************)
(* RPCs                                                                    *)
(***************************************************************************)

Goto(c, label) == pc' = [pc EXCEPT ![c] = label] /\ UNCHANGED code
Return(c, k) == pc' = [pc EXCEPT ![c] = "done"] /\ code' = [code EXCEPT ![c] = k]

\* RPCs are taken until cleanup has called server.stop, also while close_ports runs.
Serving == server \in {"up", "closing"}

\* OpenPort: is the local port in _ports?
Open(c) ==
  /\ Serving /\ pc[c] = "new" /\ op[c] = "open"
  /\ IF ports[LocalPort(c)] # "none" THEN Return(c, "EADDRINUSE") ELSE Goto(c, "bind")
  /\ UNCHANGED <<inputs, listed, ports, sockets, closing>>

\* PortForwarder.start: bind, listen, and the accept thread starts.
Bind(c) ==
  /\ pc[c] = "bind" /\ ~InUse(LocalPort(c))
  /\ fwd' = [fwd EXCEPT ![c] = "accepting"]
  /\ Goto(c, "insert")
  /\ UNCHANGED <<inputs, listed, ports, conns, closing>>

\* Or bind fails: a forwarder or another program has the port
\* (AlreadyBoundError), or the error is another one and is raised again.
BindFails(c) ==
  /\ pc[c] = "bind"
  /\ \E k \in {"EADDRINUSE", "OSError"} : Return(c, k)
  /\ UNCHANGED <<inputs, listed, ports, sockets, closing>>

\* self._ports[local_port] = pf.  Mutant: it is filed under the remote port.
RemoteKey(c) == port[c]
Key(c) == LocalPort(c)

\* Those who iterate over _ports.
Iterators == {d \in Call : pc[d] = "iterate"} \cup (IF server = "closing" THEN {"sigint"} ELSE {})

\* A new key breaks the iterations under way, except those over the dict that
\* close_ports has replaced.
Insert(c) ==
  /\ pc[c] = "insert"
  /\ ports' = [ports EXCEPT ![Key(c)] = c]
  /\ grown' = IF ports[Key(c)] = "none" /\ server # "stopped" THEN grown \cup Iterators ELSE grown
  /\ Return(c, "OK")
  /\ UNCHANGED <<inputs, listed, sockets, server, todo, old>>

\* ClosePort: is the port in _ports?
Close(c) ==
  /\ Serving /\ pc[c] = "new" /\ op[c] = "close"
  /\ IF ports[port[c]] = "none" THEN Return(c, "NOT_FOUND") ELSE Goto(c, "stop")
  /\ UNCHANGED <<inputs, listed, ports, sockets, closing>>

\* self._ports[port].stop(); the entry stays in _ports.
CloseStop(c) ==
  /\ pc[c] = "stop"
  /\ IF ports[port[c]] = "none" THEN Return(c, "KeyError") /\ UNCHANGED fwd
     ELSE Stop({ports[port[c]]}) /\ Return(c, "OK")
  /\ UNCHANGED <<inputs, listed, ports, conns, closing>>

Entries == {p \in Port : ports[p] # "none"}

\* GetPorts iterates over _ports.items().  An entry is reported as its key; it is
\* filed under its local port, so that pf.local_port never differs from the key.
GetPorts(c) ==
  /\ Serving /\ pc[c] = "new" /\ op[c] = "get"
  /\ listed' = [listed EXCEPT ![c] = Entries]
  /\ Goto(c, "iterate")
  /\ UNCHANGED <<inputs, ports, sockets, closing>>

\* It answers what it has seen, or raises RuntimeError where _ports has grown.
GetPortsEnd(c) ==
  /\ pc[c] = "iterate"
  /\ \/ Return(c, "OK")
     \/ c \in grown /\ Return(c, "RuntimeError")
  /\ UNCHANGED <<inputs, listed, ports, sockets, closing>>

RpcStep(c) ==
  \/ Open(c) \/ Bind(c) \/ BindFails(c) \/ Insert(c) \/ Close(c) \/ CloseStop(c)
  \/ GetPorts(c) \/ GetPortsEnd(c)

(***************************************************************************)
(* The SIGINT handler                                                      *)
(***************************************************************************)

\* Mutant: self._ports = {} comes before the loop.
SigintResetsFirst ==
  /\ server = "up"
  /\ server' = "closing"
  /\ ports' = [p \in Port |-> "none"]
  /\ todo' = {}
  /\ old' = {ports[p] : p \in Entries}
  /\ UNCHANGED <<inputs, pc, code, listed, sockets, grown>>

\* close_ports begins to iterate over _ports.values().
Sigint ==
  /\ server = "up"
  /\ server' = "closing"
  /\ todo' = Entries
  /\ old' = {ports[p] : p \in Entries}
  /\ UNCHANGED <<inputs, pc, code, listed, ports, sockets, grown>>

\* The forwarder that is now at the next key is stopped.
CloseNext(p) ==
  /\ server = "closing" /\ "sigint" \notin grown /\ p \in todo
  /\ todo' = todo \ {p}
  /\ Stop({ports[p]})
  /\ UNCHANGED <<inputs, pc, code, listed, ports, conns, server, old, grown>>

\* Where _ports has grown the iterator raises RuntimeError, which leaves the
\* handler and ends the daemon.
CloseAbort ==
  /\ server = "closing" /\ "sigint" \in grown
  /\ server' = "aborted"
  /\ UNCHANGED <<inputs, pc, code, listed, ports, sockets, todo, old, grown>>

\* All are stopped: self._ports = {}, and the server is told to stop.
CloseDone ==
  /\ server = "closing" /\ "sigint" \notin grown /\ todo = {}
  /\ ports' = [p \in Port |-> "none"]
  /\ server' = "stopped"
  /\ UNCHANGED <<inputs, pc, code, listed, sockets, todo, old, grown>>

HandlerStep == (\E p \in Port : CloseNext(p)) \/ CloseAbort \/ CloseDone

Next == \/ \E c \in Call : RpcStep(c) \/ Accept(c)
        \/ Sigint \/ HandlerStep

Spec == Init /\ [][Next]_vars

(***************************************************************************)
(* Properties                                                              *)
(***************************************************************************)

\* A forwarder that accepts connections can be found: it is in _ports under its
\* local port, or the OpenPort that made it is about to put it there.  So
\* ClosePort and close_ports reach every forwarder, although OpenPort looks at
\* _ports, binds and files the forwarder in three steps that other calls and
\* the SIGINT handler run between (service.py, OpenPort and close_ports).  Once
\* close_ports has emptied _ports the daemon is ending.
NoLeak ==
  server # "stopped" =>
    \A f \in Call : fwd[f] = "accepting" => ports[LocalPort(f)] = f \/ pc[f] = "insert"

\* "Clean up sockets on close." (service.py).  Once the SIGINT handler has begun,
\* each forwarder that it found in _ports and that has not been told to stop (its
\* socket closed, _done set; a lingering one takes at most one connection more) is
\* still at the key close_ports will find it under, and that key is yet to be
\* reached, although calls go on opening and closing ports while close_ports
\* iterates.  So none is left when close_ports returns; and where RuntimeError cuts
\* the loop short, those that still listen are the ones it had not reached.
ClosedOnExit ==
  server # "up" =>
    \A f \in old : fwd[f] = "accepting" =>
      /\ server # "stopped"
      /\ LocalPort(f) \in todo /\ ports[LocalPort(f)] = f

\* "rx ports" shows every port that is open: a GetPorts call lists each forwarder
\* that accepts connections and whose OpenPort has returned, also when several
\* calls for one port have raced (service.py, GetPorts).
ListsForwarders ==
  [][\A c, f \in Call :
       pc[c] = "new" /\ pc'[c] = "iterate" /\ pc[f] = "done" /\ fwd[f] = "accepting"
       => LocalPort(f) \in listed'[c]]_vars

\* A ClosePort of port p has returned, or the handler is at work.
WasClosed(p) ==
  \/ server # "up"
  \/ \E d \in Call : op[d] = "close" /\ port[d] = p /\ code[d] = "OK"

\* "Already forwarding port" is answered for a port that an OpenPort has opened:
\* its forwarder listens, or a ClosePort of that port or the SIGINT handler has
\* stopped it; a ClosePort leaves it in _ports, so that the port stays refused
\* for as long as the daemon lives (service.py, OpenPort and ClosePort).
RefusedIfOpened ==
  [][\A c \in Call : pc[c] = "new" /\ code'[c] = "EADDRINUSE" =>
        \E f \in Call :
          /\ LocalPort(f) = LocalPort(c) /\ pc[f] = "done"
          /\ fwd[f] = "accepting" \/ WasClosed(LocalPort(c))]_vars
=============================================================================
