----------------------------- MODULE Connection -----------------------------
(***************************************************************************)
(* One forwarded TCP connection of the daemon (rx/daemon/port_forwarding/   *)
(* client_socket.py, _handle_request of port_forwarder.py, forward_to_port  *)
(* of rx/client/worker_client.py).  Four threads share two queues and two   *)
(* events:                                                                 *)
(*   L  recv_from_local: client socket -> request queue                     *)
(*   G  the gRPC thread that iterates _pull_from_req_queue                  *)
(*   H  the handler: RPC responses -> response queue, then joins and closes *)
(*   R  remote_to_local: response queue -> client socket                    *)
(* The local client and the worker are external.  Request frames, and the   *)
(* bytes of the responses, are numbered in the order they are written.      *)
(***************************************************************************)
EXTENDS Integers, Sequences

CONSTANTS MaxReq,     \* bound: request frames the client writes
          MaxResp,    \* bound: response frames the worker writes
          FrameLen,   \* bytes in a response frame
          SendSizes   \* how many bytes of a frame one send() may take

ASSUME ConnectionAssumption ==
  /\ MaxReq \in Nat /\ MaxResp \in Nat /\ FrameLen \in Nat \ {0}
  /\ SendSizes \subseteq 1..FrameLen

VARIABLES
  asked, client,      \* frames the client wrote; "open", "shut" or "gone"
  recvd, reqQ,        \* frames L has received; _request_queue
  doneReq, doneResp,  \* the events _done_with_requests, _done_with_responses
  stream, up,         \* the PortForward call; the frames G has given it
  answered, respQ,    \* frames H has received; _response_queue
  buf, x, down,       \* R: frame being sent, bytes counted, bytes sent
  sock,               \* the daemon's end of the client socket
  l, g, h, r,         \* where each thread is
  failed              \* h left handle with an exception

vars == <<asked, client, recvd, reqQ, doneReq, doneResp, stream, up, answered,
          respQ, buf, x, down, sock, l, g, h, r, failed>>

local  == <<asked, client>>
upward == <<recvd, reqQ, stream, up>>
downward == <<answered, respQ, buf, x, down>>

TypeOK ==
  /\ asked \in 0..MaxReq /\ client \in {"open", "shut", "gone"}
  /\ recvd \in 0..MaxReq /\ reqQ \in Seq(1..MaxReq)
  /\ doneReq \in BOOLEAN /\ doneResp \in BOOLEAN
  /\ stream \in {"none", "open", "over"} /\ up \in Seq(1..MaxReq)
  /\ answered \in 0..MaxResp /\ respQ \in Seq(1..MaxResp)
  /\ buf \in 0..MaxResp /\ x \in Nat /\ down \in Seq(Int)
  /\ sock \in {"open", "closed"}
  /\ l \in {"none", "check", "recv", "dead"}
  /\ g \in {"none", "pull", "dead"}
  /\ h \in {"start", "wait", "stream", "drain", "joinR", "joinL",
            "exit", "exitL", "exitR", "close", "done"}
  /\ r \in {"none", "qsize", "is_set", "get", "send", "dead", "crashed"}
  /\ failed \in BOOLEAN

Init ==
  /\ asked = 0 /\ client = "open"
  /\ recvd = 0 /\ reqQ = <<>>
  /\ doneReq = FALSE /\ doneResp = FALSE
  /\ stream = "none" /\ up = <<>>
  /\ answered = 0 /\ respQ = <<>>
  /\ buf = 0 /\ x = 0 /\ down = <<>>
  /\ sock = "open"
  /\ l = "none" /\ g = "none" /\ h = "start" /\ r = "none"
  /\ failed = FALSE

(***************************************************************************)
(* The local client (external): writes requests, may half-close or go away *)
(***************************************************************************)

ClientWrite ==
  /\ client = "open" /\ sock = "open" /\ asked < MaxReq
  /\ asked' = asked + 1
  /\ UNCHANGED <<client, upward, downward, doneReq, doneResp, sock, l, g, h, r, failed>>

ClientShut ==
  /\ client = "open"
  /\ client' = "shut"
  /\ UNCHANGED <<asked, upward, downward, doneReq, doneResp, sock, l, g, h, r, failed>>

ClientGone ==
  /\ client \in {"open", "shut"}
  /\ client' = "gone"
  /\ UNCHANGED <<asked, upward, downward, doneReq, doneResp, sock, l, g, h, r, failed>>

(***************************************************************************)
(* L: recv_from_local                                                      *)
(***************************************************************************)

\* while not _done_with_requests.is_set()
LCheck ==
  /\ l = "check"
  /\ l' = IF doneReq THEN "dead" ELSE "recv"
  /\ UNCHANGED <<local, upward, downward, doneReq, doneResp, sock, g, h, r, failed>>

\* recv returns a frame, which goes to the request queue.
LRecv ==
  /\ l = "recv" /\ recvd < asked
  /\ recvd' = recvd + 1
  /\ reqQ' = Append(reqQ, recvd + 1)
  /\ l' = "check"
  /\ UNCHANGED <<local, stream, up, downward, doneReq, doneResp, sock, g, h, r, failed>>

\* recv returns b'' or raises (the client is gone): the finally clause.
LEnd ==
  /\ l = "recv"
  /\ client = "gone" \/ (client = "shut" /\ recvd = asked)
  /\ l' = "dead"
  /\ doneReq' = TRUE
  /\ UNCHANGED <<local, upward, downward, doneResp, sock, g, h, r, failed>>

LStep == LCheck \/ LRecv \/ LEnd

(***************************************************************************)
(* G: _pull_from_req_queue, iterated by gRPC                               *)
(***************************************************************************)

\* A frame taken when the call is over already is dropped.
GPull ==
  /\ g = "pull" /\ ~doneReq /\ reqQ # <<>>
  /\ reqQ' = Tail(reqQ)
  /\ IF stream = "open" THEN up' = Append(up, Head(reqQ)) /\ g' = g
                        ELSE up' = up /\ g' = "dead"
  /\ UNCHANGED <<local, recvd, stream, downward, doneReq, doneResp, sock, l, h, r, failed>>

GEnd ==
  /\ g = "pull" /\ doneReq
  /\ g' = "dead"
  /\ UNCHANGED <<local, upward, downward, doneReq, doneResp, sock, l, h, r, failed>>

GStep == GPull \/ GEnd

(***************************************************************************)
(* R: remote_to_local                                                      *)
(***************************************************************************)

\* while _response_queue.qsize() > 0 or not _done_with_responses.is_set():
\* two reads, one after the other.
RQsize ==
  /\ r = "qsize"
  /\ r' = IF respQ # <<>> THEN "get" ELSE "is_set"
  /\ UNCHANGED <<local, upward, downward, doneReq, doneResp, sock, l, g, h, failed>>

RIsSet ==
  /\ r = "is_set"
  /\ r' = IF doneResp THEN "dead" ELSE "get"
  /\ UNCHANGED <<local, upward, downward, doneReq, doneResp, sock, l, g, h, failed>>

RGet ==
  /\ r = "get"
  /\ IF respQ = <<>>
     THEN r' = "qsize" /\ UNCHANGED <<respQ, buf, x>>
     ELSE /\ r' = "send"
          /\ respQ' = Tail(respQ)
          /\ buf' = Head(respQ)
          /\ x' = 0
  /\ UNCHANGED <<local, upward, answered, down, doneReq, doneResp, sock, l, g, h, failed>>

\* Mutant: the frame is sent from its second byte on.
BytesOffByOne(k, n) == [i \in 1..n |-> (k - 1) * FrameLen + i + 1]

\* The first n bytes of frame k, as send(buf) puts them on the wire.
Bytes(k, n) == [i \in 1..n |-> (k - 1) * FrameLen + i]

\* x += send(buf), which takes a prefix of buf (and not of buf[x:]).  Nothing makes
\* this step happen: send blocks once the client does not read and the buffers of
\* the socket are full.
RSend(n) ==
  /\ r = "send"
  /\ down' = down \o Bytes(buf, n)
  /\ x' = x + n
  /\ r' = IF x + n < FrameLen THEN "send" ELSE "qsize"
  /\ UNCHANGED <<local, upward, answered, respQ, buf, doneReq, doneResp, sock, l, g, h, failed>>

\* send raises: nothing catches it and the thread ends.
RCrash ==
  /\ r = "send" /\ client = "gone"
  /\ r' = "crashed"
  /\ UNCHANGED <<local, upward, downward, doneReq, doneResp, sock, l, g, h, failed>>

RSends == \E n \in SendSizes : RSend(n)
RStep == RQsize \/ RIsSet \/ RGet \/ RCrash \/ RSends

Ended(thread) == thread \in {"dead", "crashed"}

(***************************************************************************)
(* H: Connection.handle, then Connection.__exit__                          *)
(***************************************************************************)

\* handle clears both events and starts the threads.
HStart ==
  /\ h = "start"
  /\ doneReq' = FALSE /\ doneResp' = FALSE
  /\ l' = "check" /\ r' = "qsize"
  /\ h' = "wait"
  /\ UNCHANGED <<local, upward, downward, sock, g, failed>>

\* _has_requests returns True: the PortForward call is started.
HCall ==
  /\ h = "wait" /\ reqQ # <<>>
  /\ stream' = "open" /\ g' = "pull"
  /\ h' = "stream"
  /\ UNCHANGED <<local, recvd, reqQ, up, downward, doneReq, doneResp, sock, l, r, failed>>

\* _has_requests returns False.
HNothing ==
  /\ h = "wait" /\ doneReq /\ reqQ = <<>>
  /\ doneResp' = TRUE
  /\ h' = "joinR"
  /\ UNCHANGED <<local, upward, downward, doneReq, sock, l, g, r, failed>>

\* A response frame of the worker.
HFrame ==
  /\ h = "stream" /\ answered < MaxResp
  /\ answered' = answered + 1
  /\ respQ' = Append(respQ, answered + 1)
  /\ UNCHANGED <<local, upward, buf, x, down, doneReq, doneResp, sock, l, g, h, r, failed>>

\* The worker ends the call (forward_to_port then yields b''), or sends an
\* empty frame.
HEnd ==
  /\ h = "stream"
  /\ stream' = "over"
  /\ doneResp' = TRUE
  /\ h' = "drain"
  /\ UNCHANGED <<local, recvd, reqQ, up, downward, doneReq, sock, l, g, r, failed>>

\* The call fails: DisconnectionError or WorkerError leaves handle.
HFail ==
  /\ h = "stream"
  /\ stream' = "over"
  /\ h' = "exit"
  /\ failed' = TRUE
  /\ UNCHANGED <<local, recvd, reqQ, up, downward, doneReq, doneResp, sock, l, g, r>>

\* Mutant: the wait for the response queue is gone, and so is the join of R.
HDrainForgotten ==
  /\ h = "drain"
  /\ h' = "joinL"
  /\ UNCHANGED <<local, upward, downward, doneReq, doneResp, sock, l, g, r, failed>>

\* while _response_queue.qsize() > 0
HDrain ==
  /\ h = "drain" /\ respQ = <<>>
  /\ h' = "joinR"
  /\ UNCHANGED <<local, upward, downward, doneReq, doneResp, sock, l, g, r, failed>>

\* handle joins R, then L.
HJoin ==
  /\ \/ h = "joinR" /\ Ended(r) /\ h' = "joinL"
     \/ h = "joinL" /\ Ended(l) /\ h' = "exit"
  /\ UNCHANGED <<local, upward, downward, doneReq, doneResp, sock, l, g, r, failed>>

\* Mutants: __exit__ closes without joining; it forgets one of the events.
HExitCloses ==
  /\ h = "exit"
  /\ doneReq' = TRUE /\ doneResp' = TRUE
  /\ h' = "close"
  /\ UNCHANGED <<local, upward, downward, sock, l, g, r, failed>>
HExitOneEvent ==
  /\ h = "exit"
  /\ doneReq' = TRUE
  /\ h' = "exitL"
  /\ UNCHANGED <<local, upward, downward, doneResp, sock, l, g, r, failed>>

\* __exit__ sets both events, joins L, then R, and closes the socket.
HExit ==
  /\ h = "exit"
  /\ doneReq' = TRUE /\ doneResp' = TRUE
  /\ h' = "exitL"
  /\ UNCHANGED <<local, upward, downward, sock, l, g, r, failed>>

HExitJoin ==
  /\ \/ h = "exitL" /\ Ended(l) /\ h' = "exitR"
     \/ h = "exitR" /\ Ended(r) /\ h' = "close"
  /\ UNCHANGED <<local, upward, downward, doneReq, doneResp, sock, l, g, r, failed>>

HClose ==
  /\ h = "close"
  /\ sock' = "closed"
  /\ h' = "done"
  /\ UNCHANGED <<local, upward, downward, doneReq, doneResp, l, g, r, failed>>

HStep == HStart \/ HCall \/ HNothing \/ HDrain \/ HJoin \/ HExit \/ HExitJoin \/ HClose
Worker == HFrame \/ HEnd \/ HFail

Next == \/ ClientWrite \/ ClientShut \/ ClientGone
        \/ LStep \/ GStep \/ RStep \/ HStep \/ Worker

\* The threads run.  The worker ends its call once the requests have ended.
\* Nothing is assumed of the client: it need not write, close or read.
Fairness ==
  /\ WF_vars(LStep) /\ WF_vars(GStep) /\ WF_vars(HStep)
  /\ WF_vars(RQsize \/ RIsSet \/ RGet \/ RCrash)
  /\ WF_vars(g = "dead" /\ (HEnd \/ HFail))

Spec == Init /\ [][Next]_vars /\ Fairness

(***************************************************************************)
(* Properties                                                              *)
(***************************************************************************)

\* When send() takes whole frames, a connection implements two byte pipes: no
\* frame is lost in the middle, repeated, reordered or passed on after the
\* socket is closed, however the four threads interleave (client_socket.py).
P == INSTANCE Pipe WITH answered <- answered * FrameLen, closed <- (sock = "closed")
ImplementsPipe == P!Spec

\* No thread uses the client socket after __exit__ has closed it.
JoinedBeforeClose == sock = "closed" => Ended(l) /\ Ended(r)

\* Where the call ended normally and the client still reads, the socket is not
\* closed before every response is sent ("Wait for responses to be sent.",
\* client_socket.py, and the joins after it).
DeliveredBeforeClose ==
  sock = "closed" /\ ~failed /\ r # "crashed" =>
     respQ = <<>> /\ Len(down) = answered * FrameLen

\* R has stopped and left responses in the queue: the handler spins for ever.  R
\* stops so when send() raises, and also when it finds the queue empty, H then puts
\* the last response and sets the event, and R finds the event set.
Stranded == h = "drain" /\ Ended(r) /\ respQ # <<>>

\* How the handler may stay for ever.  R is blocked in send, by a client that has
\* not gone and does not read.  Or, where the worker ended or failed the call first,
\* the join of L waits for the client to close, while the client may wait for the
\* end of the response, which only the close of the socket would tell it.
SendBlocked == r = "send" /\ client # "gone"
WaitsForClient == h \in {"joinL", "exitL"} /\ client = "open"

\* Once the client has ended its requests the handler ends too, and so it does once
\* the call is over, except where it is stranded and where the client keeps it for
\* ever in one of the two ways above (Connection.handle, __exit__).
EndsUnlessStranded ==
  /\ client # "open" ~> h = "done" \/ Stranded \/ []SendBlocked
  /\ stream = "over" ~> h = "done" \/ Stranded \/ []SendBlocked \/ []WaitsForClient

\* The safety core of EndsUnlessStranded: no thread is left to wait for what nobody
\* will do.  Wherever the handler waits, the thread it waits for is alive (though the
\* client may block it) or has set the event on its way out (the finally clause of local_to_remote), or the
\* event that ends that thread's loop is set (handle, __exit__).  R ends only when
\* told to or when the client is gone.
WaitsAreMet ==
  /\ h = "wait" => doneReq \/ l \in {"check", "recv"}
  /\ h = "stream" => doneReq \/ g = "pull"
  /\ h \in {"drain", "joinR"} => doneResp
  /\ h \in {"exitL", "exitR"} => doneReq /\ doneResp
  /\ r = "dead" => doneResp
  /\ r = "crashed" => client = "gone"

(***************************************************************************)
(* What a comment of the code claims, and the code does not do              *)
(***************************************************************************)

\* client_socket.py, remote_to_local: "Sends bytes from the remote's queue to
\* the local sock."  They are sent once and in order, also when send() takes
\* only a part of the buffer.
SentOnce == \A i \in 1..Len(down) : down[i] = i
=============================================================================
