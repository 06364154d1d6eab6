------------------------------ MODULE Executor ------------------------------
(***************************************************************************)
(* Executor.run and StdinIterator (rx/worker/executor.py): while a program  *)
(* runs on the worker, what the user types is sent to it.  Three threads    *)
(* share the iterator: the main thread, which enters it, reads the          *)
(* responses and leaves it; the loop thread, which reads the terminal; and  *)
(* the thread of gRPC that pulls the requests with __next__.                *)
(*                                                                         *)
(* Keys are numbered as they are typed, anew from where the terminal is     *)
(* flushed; key 0 stands for the ExecRequest itself.  A request is the      *)
(* stretch of keys it carries.  The two critical sections of _stdin_avail   *)
(* are atomic: of the state they use only _running is written outside the   *)
(* lock, and only ever to False.                                           *)
(***************************************************************************)
EXTENDS Naturals, Sequences

CONSTANTS MaxKeys,       \* bound: keys typed
          MaxResponses   \* bound: responses

ASSUME ExecutorAssumption == MaxKeys \in Nat /\ MaxResponses \in Nat

VARIABLES
  main,                \* where the main thread is
  nonblock, cbreak,    \* the terminal: O_NONBLOCK set, echo and line mode off
  registered, running, \* stdin is in _selector; _running
  sigint,              \* where Ctrl-C caught the main thread, or "none"
  responses,           \* responses handled so far
  open,                \* the Exec call is open
  loop, held,          \* the loop thread, and the request it has made
  typed, read,         \* keys typed and not flushed, and how many were read
  next, buffer,        \* the gRPC thread, and _stdin_buffer
  sent                 \* history: the last request pulled while the call was open

terminal == <<nonblock, cbreak, registered>>
keys     == <<typed, read>>
mainVars == <<main, terminal, running, sigint, responses>>
loopVars == <<loop, held, read>>
nextVars == <<next, sent>>
vars     == <<mainVars, loopVars, nextVars, open, typed, buffer>>

Request == [lo : Nat, hi : Nat]
First == [lo |-> 0, hi |-> 1]

Entering == {"setfl", "setcbreak", "register", "thread"}
Body     == {"body", "write"}
Leaving  == {"unregister", "tcsetattr", "resetfl", "stop"}
Main     == {"init"} \cup Entering \cup Body \cup Leaving \cup {"done"}

TypeOK ==
  /\ main \in Main /\ sigint \in Main \cup {"none"}
  /\ nonblock \in BOOLEAN /\ cbreak \in BOOLEAN /\ registered \in BOOLEAN
  /\ running \in BOOLEAN /\ open \in BOOLEAN
  /\ responses \in 0..MaxResponses
  /\ loop \in {"none", "test", "select", "read", "put",
              "blocked", "died", "undecoded", "ended"}
  /\ typed \in 0..MaxKeys /\ read \in 0..MaxKeys
  /\ next \in {"none", "check", "get", "wait", "ended"}
  /\ held \in Request /\ sent \in Request /\ buffer \in Seq(Request)

\* StdinIterator.__init__
Init ==
  /\ main = "init" /\ sigint = "none"
  /\ nonblock = FALSE /\ cbreak = FALSE /\ registered = FALSE
  /\ running = TRUE /\ open = FALSE /\ responses = 0
  /\ loop = "none" /\ held = First /\ typed = 0 /\ read = 0
  /\ next = "none" /\ buffer = <<First>> /\ sent = [lo |-> 0, hi |-> 0]

(***************************************************************************)
(* The main thread                                                         *)
(***************************************************************************)

\* A statement of the main thread that changes at most the terminal.
Do(from, to) ==
  /\ main = from /\ main' = to
  /\ UNCHANGED <<sigint, responses, loopVars, nextVars, open, buffer>>

\* tcgetattr raises an error if stdin is not a terminal; nothing has been done.
Terminal ==
  (Do("init", "setfl") \/ Do("init", "done")) /\ UNCHANGED <<terminal, running, typed>>

\* __enter__
Setfl ==
  Do("setfl", "setcbreak") /\ nonblock' = TRUE
  /\ UNCHANGED <<cbreak, registered, running, typed>>

\* tty.setcbreak, with TCSAFLUSH: what has been typed so far is discarded.
Setcbreak ==
  Do("setcbreak", "register") /\ cbreak' = TRUE /\ typed' = 0
  /\ UNCHANGED <<nonblock, registered, running>>
Register ==
  Do("register", "thread") /\ registered' = TRUE
  /\ UNCHANGED <<nonblock, cbreak, running, typed>>

\* The thread is started and __enter__ returns; the Exec call starts another.
Enter ==
  /\ main = "thread" /\ main' = "body"
  /\ loop' = "test" /\ next' = "check" /\ open' = TRUE
  /\ UNCHANGED <<terminal, running, sigint, responses, held, read, sent, typed, buffer>>

\* A response is written to stdout and stderr, a loop that goes on while the
\* terminal does not take any more (EAGAIN).
Response ==
  /\ main = "body" /\ responses < MaxResponses /\ main' = "write"
  /\ responses' = responses + 1
  /\ UNCHANGED <<terminal, running, sigint, loopVars, nextVars, open, typed, buffer>>
Write == Do("write", "body") /\ UNCHANGED <<terminal, running, typed>>

\* The call ends, with the last response or an RpcError, and __exit__ begins.
CallEnds ==
  /\ open /\ open' = FALSE
  /\ UNCHANGED <<mainVars, loopVars, nextVars, typed, buffer>>
BodyEnds == ~open /\ Do("body", "unregister") /\ UNCHANGED <<terminal, running, typed>>

\* __exit__.  Mutant: the selector keeps stdin.
UnregisterNothing == Do("unregister", "tcsetattr") /\ UNCHANGED <<terminal, running, typed>>
Unregister ==
  Do("unregister", "tcsetattr") /\ registered' = FALSE
  /\ UNCHANGED <<nonblock, cbreak, running, typed>>
Tcsetattr ==
  Do("tcsetattr", "resetfl") /\ cbreak' = FALSE
  /\ UNCHANGED <<nonblock, registered, running, typed>>
Resetfl ==
  Do("resetfl", "stop") /\ nonblock' = FALSE
  /\ UNCHANGED <<cbreak, registered, running, typed>>
Stop == Do("stop", "done") /\ running' = FALSE /\ UNCHANGED <<terminal, typed>>

\* Ctrl-C.  In the body it leads to __exit__, and the call is cancelled when its
\* iterator goes; before and after that nothing restores the terminal.
\* Mutant: the body is left without __exit__.
AfterSigintNoExit == "done"
AfterSigint == IF main \in Body THEN "unregister" ELSE "done"
Sigint ==
  /\ main \notin {"init", "done"} /\ sigint = "none"
  /\ sigint' = main
  /\ main' = AfterSigint
  /\ UNCHANGED <<terminal, running, responses, loopVars, nextVars, open, typed, buffer>>

MainStep ==
  \/ Terminal \/ Setfl \/ Setcbreak \/ Register \/ Enter \/ Write
  \/ BodyEnds \/ Unregister \/ Tcsetattr \/ Resetfl \/ Stop

(***************************************************************************)
(* The loop thread                                                         *)
(***************************************************************************)

\* while self._running
Test ==
  /\ loop = "test"
  /\ loop' = IF running THEN "select" ELSE "ended"
  /\ UNCHANGED <<mainVars, held, read, nextVars, open, typed, buffer>>

\* select(timeout=0): stdin is readable, or there is nothing to do.
Select ==
  /\ loop = "select"
  /\ loop' = IF registered /\ typed > read THEN "read" ELSE "test"
  /\ UNCHANGED <<mainVars, held, read, nextVars, open, typed, buffer>>

\* got_stdin reads what there is.  Where that ends inside a character, decoding it
\* raises UnicodeDecodeError, nobody catches it and the thread dies.  Once __exit__
\* has turned line mode on again, there may be nothing to read any more, and the
\* thread dies; once it has also cleared O_NONBLOCK, read() waits for the end of
\* the file.
Read ==
  /\ loop = "read"
  /\ \/ /\ nonblock
        /\ loop' = "put" /\ read' = typed
        /\ held' = [lo |-> read + 1, hi |-> typed + 1]
     \/ nonblock /\ loop' = "undecoded" /\ read' = typed /\ UNCHANGED held
     \/ nonblock /\ ~cbreak /\ loop' = "died" /\ UNCHANGED <<read, held>>
     \/ ~nonblock /\ loop' = "blocked" /\ UNCHANGED <<read, held>>
  /\ UNCHANGED <<mainVars, nextVars, open, typed, buffer>>

\* With the lock: the request is appended, and __next__ is notified.
\* Mutants: it is not notified; the buffer is replaced.
PutSilent ==
  /\ loop = "put" /\ loop' = "test"
  /\ buffer' = Append(buffer, held)
  /\ UNCHANGED <<mainVars, held, read, nextVars, open, typed>>
PutOver ==
  /\ loop = "put" /\ loop' = "test"
  /\ buffer' = <<held>>
  /\ next' = IF next = "wait" THEN "get" ELSE next
  /\ UNCHANGED <<mainVars, held, read, sent, open, typed>>
Put ==
  /\ loop = "put" /\ loop' = "test"
  /\ buffer' = Append(buffer, held)
  /\ next' = IF next = "wait" THEN "get" ELSE next
  /\ UNCHANGED <<mainVars, held, read, sent, open, typed>>

LoopStep == Test \/ Select \/ Read \/ Put

(***************************************************************************)
(* __next__, called by the gRPC thread                                     *)
(***************************************************************************)

Check ==
  /\ next = "check"
  /\ next' = IF running THEN "get" ELSE "ended"
  /\ UNCHANGED <<mainVars, loopVars, sent, open, typed, buffer>>

\* With the lock: the first request, StopIteration, or wait.  The thread ends
\* with the call, and drops what it has pulled then.
Get ==
  /\ next = "get"
  /\ \/ /\ buffer # <<>>
        /\ buffer' = Tail(buffer)
        /\ IF open THEN next' = "check" /\ sent' = Head(buffer)
                   ELSE next' = "ended" /\ UNCHANGED sent
     \/ /\ buffer = <<>>
        /\ next' = IF running THEN "wait" ELSE "ended"
        /\ UNCHANGED <<buffer, sent>>
  /\ UNCHANGED <<mainVars, loopVars, open, typed>>

NextStep == Check \/ Get

\* The user types (external).
Type ==
  /\ typed < MaxKeys
  /\ typed' = typed + 1
  /\ UNCHANGED <<mainVars, loopVars, nextVars, open, buffer>>

Next == MainStep \/ Response \/ CallEnds \/ Sigint \/ LoopStep \/ NextStep \/ Type

\* The threads make progress; the program need not answer or end, and the user
\* need not type.
Fairness == WF_vars(MainStep) /\ WF_vars(LoopStep) /\ WF_vars(NextStep)

Spec == Init /\ [][Next]_vars /\ Fairness

(***************************************************************************)
(* Properties                                                              *)
(***************************************************************************)

\* The worker gets the ExecRequest first, and then the keys once each, in the order
\* they were typed and without a gap from the first one on that setcbreak has not
\* flushed, however the three threads interleave and however the keys are cut into
\* requests (got_stdin, __next__).
StdinInOrder == [][sent' # sent => sent'.lo = sent.hi]_sent

\* No wake-up is lost: a key that is typed once the terminal is in cbreak mode is
\* sent, unless the main thread leaves the iterator first, or a read that ended
\* inside a character has killed the loop thread (notify in got_stdin against the
\* wait in __next__).
TypedIsSent ==
  \A k \in 1..MaxKeys :
    cbreak /\ typed >= k
      ~> sent.hi > k \/ main \in Leaving \cup {"done"} \/ loop = "undecoded"

\* When the main thread is done the terminal is what it was, unless Ctrl-C came
\* inside __enter__ or __exit__ (which nothing protects).
TerminalRestored ==
  main = "done" /\ sigint \notin Entering \cup Leaving
    => ~nonblock /\ ~cbreak

\* What is typed after the main thread is done is left to the shell: the loop
\* thread reads no more, unless select had already returned when __exit__ began
\* (__exit__ unregisters stdin first; loop does not look again before it reads).
LeavesInputAlone ==
  [][main = "done" /\ sigint \notin Entering \cup Leaving /\ loop # "read"
       => loop' # "read" /\ read' = read]_vars

\* The safety core of TypedIsSent.  As long as the main thread is inside the
\* iterator the loop thread is alive and its next read neither blocks it nor ends
\* it but by an error of decoding, the gRPC thread is alive while the call is open,
\* and it sleeps only while there is nothing to send.
Carried ==
  main \in Body =>
    /\ loop \in {"test", "select", "read", "put", "undecoded"} /\ running
    /\ nonblock /\ cbreak /\ registered
    /\ open => next \in {"check", "get", "wait"}
    /\ next = "wait" => buffer = <<>>
=============================================================================
