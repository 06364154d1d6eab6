-------------------------------- MODULE Pipe --------------------------------
(***************************************************************************)
(* What a forwarded connection promises: two one-way byte pipes.  What one   *)
(* end has written comes out at the other end in order, each unit once and   *)
(* with no gap, and nothing comes out after the connection is closed.        *)
(* Units are numbered from 1 in the order in which they are written.         *)
(***************************************************************************)
EXTENDS Naturals, Sequences

VARIABLES
  asked,     \* number of request frames the local client has written
  up,        \* request frames handed to the remote machine
  answered,  \* number of response bytes the remote machine has written
  down,      \* response bytes handed to the local client
  closed

pipe == <<asked, up, answered, down, closed>>

\* t is s and then the next units, in order, of those numbered up to bound.
Extends(s, t, bound) ==
  /\ Len(s) <= Len(t) /\ Len(t) <= bound
  /\ t = s \o [i \in 1..(Len(t) - Len(s)) |-> Len(s) + i]

Init == /\ asked = 0 /\ answered = 0
        /\ up = <<>> /\ down = <<>>
        /\ closed = FALSE

Ask    == asked' = asked + 1 /\ UNCHANGED <<up, answered, down, closed>>
Answer == answered' > answered /\ UNCHANGED <<asked, up, down, closed>>
Up     == ~closed /\ Extends(up, up', asked) /\ UNCHANGED <<asked, answered, down, closed>>
Down   == ~closed /\ Extends(down, down', answered) /\ UNCHANGED <<asked, up, answered, closed>>
Close  == ~closed /\ closed' = TRUE /\ UNCHANGED <<asked, up, answered, down>>

Next == Ask \/ Answer \/ Up \/ Down \/ Close

Spec == Init /\ [][Next]_pipe
=============================================================================
