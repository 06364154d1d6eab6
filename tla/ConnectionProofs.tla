-------------------------- MODULE ConnectionProofs --------------------------
(***************************************************************************)
(* A connection implements two byte pipes (module Pipe) and closes its      *)
(* socket only when no thread uses it, for any number and length of frames. *)
(***************************************************************************)
EXTENDS Connection, SequenceTheorems, TLAPS

\* The queue q holds the consecutive units that follow unit n.
Consecutive(q, n) == \A i \in 1..Len(q) : q[i] = n + i

\* Every request received is on its way, in order, while the call may run.
UpInv ==
  /\ recvd <= asked
  /\ stream # "over" => Consecutive(reqQ, Len(up)) /\ Len(up) + Len(reqQ) = recvd

\* The responses not queued any more have been sent, but for the one in hand.
DownInv ==
  /\ Len(respQ) <= answered
  /\ Consecutive(respQ, answered - Len(respQ))
  /\ r \notin {"send", "crashed"} => Len(down) = (answered - Len(respQ)) * FrameLen
  /\ r = "send" => /\ buf = answered - Len(respQ) /\ buf > 0
                   /\ Len(down) = (buf - 1) * FrameLen

\* What the handler has waited for at each point.
ControlInv ==
  /\ h = "start" => l = "none" /\ r = "none"
  /\ h \in {"start", "wait"} => stream = "none"
  /\ stream = "none" => g = "none"
  /\ stream = "open" => h = "stream"
  /\ h \in {"exitR", "close", "done"} => Ended(l)
  /\ h \in {"joinL", "close", "done"} => Ended(r)
  /\ sock = "closed" => h = "done"

\* The handler has queued no response yet, or has seen the queue drained.
DrainInv ==
  ~failed /\ h \in {"start", "wait", "joinR", "joinL", "exit", "exitL", "exitR",
                 "close", "done"}
    => respQ = <<>>

\* A thread runs from HStart on, and L and G do not end before the event is set.
ThreadInv ==
  /\ h # "start" => l # "none" /\ r # "none"
  /\ Ended(l) => doneReq
  /\ h = "stream" => stream = "open" /\ g # "none"

\* send() takes whole frames.
WholeFrames == SendSizes = {FrameLen}

\* Type correctness is inductive.
LEMMA TypeStep == TypeOK /\ [Next]_vars => TypeOK'
<1> SUFFICES ASSUME TypeOK, [Next]_vars PROVE TypeOK'
  OBVIOUS
<1> USE ConnectionAssumption DEF TypeOK, local, upward, downward
<1>1. CASE ClientWrite
  BY <1>1 DEF ClientWrite
<1>2. CASE ClientShut
  BY <1>2 DEF ClientShut
<1>3. CASE ClientGone
  BY <1>3 DEF ClientGone
<1>4. CASE LCheck
  BY <1>4 DEF LCheck
<1>5. CASE LEnd
  BY <1>5 DEF LEnd
<1>6. CASE GEnd
  BY <1>6 DEF GEnd
<1>7. CASE RQsize
  BY <1>7 DEF RQsize
<1>8. CASE RIsSet
  BY <1>8 DEF RIsSet
<1>9. CASE RCrash
  BY <1>9 DEF RCrash
<1>10. CASE HStart
  BY <1>10 DEF HStart
<1>11. CASE HCall
  BY <1>11 DEF HCall
<1>12. CASE HNothing
  BY <1>12 DEF HNothing
<1>13. CASE HDrain
  BY <1>13 DEF HDrain
<1>14. CASE HJoin
  BY <1>14 DEF HJoin
<1>15. CASE HExit
  BY <1>15 DEF HExit
<1>16. CASE HExitJoin
  BY <1>16 DEF HExitJoin
<1>17. CASE HClose
  BY <1>17 DEF HClose
<1>18. CASE HEnd
  BY <1>18 DEF HEnd
<1>19. CASE HFail
  BY <1>19 DEF HFail
<1>20. CASE LRecv
  <2>1. recvd + 1 \in 1..MaxReq
    BY <1>20 DEF LRecv
  <2>2. reqQ' \in Seq(1..MaxReq) /\ recvd' \in 0..MaxReq
    BY <1>20, <2>1 DEF LRecv
  <2> QED BY <1>20, <2>2 DEF LRecv
<1>21. CASE GPull
  <2>1. Head(reqQ) \in 1..MaxReq /\ Tail(reqQ) \in Seq(1..MaxReq)
    BY <1>21 DEF GPull
  <2>2. reqQ' \in Seq(1..MaxReq) /\ up' \in Seq(1..MaxReq) /\ g' \in {"none", "pull", "dead"}
    <3>1. CASE stream = "open"
      <4>1. reqQ' = Tail(reqQ) /\ up' = Append(up, Head(reqQ)) /\ g' = g
        BY <1>21, <3>1 DEF GPull
      <4> QED BY <2>1, <4>1
    <3>2. CASE stream # "open"
      <4>1. reqQ' = Tail(reqQ) /\ up' = up /\ g' = "dead"
        BY <1>21, <3>2 DEF GPull
      <4> QED BY <2>1, <4>1
    <3> QED BY <3>1, <3>2
  <2> QED BY <1>21, <2>2 DEF GPull
<1>22. CASE RGet
  <2>1. respQ # <<>> => Head(respQ) \in 1..MaxResp /\ Tail(respQ) \in Seq(1..MaxResp)
    OBVIOUS
  <2>2. /\ respQ' \in Seq(1..MaxResp) /\ buf' \in 0..MaxResp /\ x' \in Nat
        /\ r' \in {"qsize", "send"}
    <3>1. CASE respQ = <<>>
      <4>1. UNCHANGED <<respQ, buf, x>> /\ r' = "qsize"
        BY <1>22, <3>1 DEF RGet
      <4> QED BY <4>1
    <3>2. CASE respQ # <<>>
      <4>1. respQ' = Tail(respQ) /\ buf' = Head(respQ) /\ x' = 0 /\ r' = "send"
        BY <1>22, <3>2 DEF RGet
      <4> QED BY <2>1, <3>2, <4>1
    <3> QED BY <3>1, <3>2
  <2> QED BY <1>22, <2>2 DEF RGet
<1>23. ASSUME NEW n \in SendSizes, RSend(n) PROVE TypeOK'
  <2>1. n \in Nat /\ buf \in Int /\ FrameLen \in Int
    OBVIOUS
  <2>2. Bytes(buf, n) \in Seq(Int)
    BY <2>1 DEF Bytes
  <2>3. down' \in Seq(Int) /\ x' \in Nat /\ r' \in {"send", "qsize"}
    BY <1>23, <2>1, <2>2 DEF RSend
  <2> QED BY <1>23, <2>3 DEF RSend
<1>24. CASE HFrame
  <2>1. answered + 1 \in 1..MaxResp
    BY <1>24 DEF HFrame
  <2>2. respQ' \in Seq(1..MaxResp) /\ answered' \in 0..MaxResp
    BY <1>24, <2>1 DEF HFrame
  <2> QED BY <1>24, <2>2 DEF HFrame
<1>25. CASE UNCHANGED vars
  BY <1>25 DEF vars
<1> QED
  BY <1>1, <1>2, <1>3, <1>4, <1>5, <1>6, <1>7, <1>8, <1>9, <1>10, <1>11,
     <1>12, <1>13, <1>14, <1>15, <1>16, <1>17, <1>18, <1>19, <1>20, <1>21,
     <1>22, <1>23, <1>24, <1>25
     DEF Next, LStep, GStep, RStep, RSends, HStep, Worker

\* So are the points the handler has passed.
LEMMA ControlStep == TypeOK /\ ControlInv /\ [Next]_vars => ControlInv'
<1> SUFFICES ASSUME TypeOK, ControlInv, [Next]_vars PROVE ControlInv'
  OBVIOUS
<1> USE DEF ControlInv, Ended, local, upward, downward
<1>1. CASE ClientWrite \/ ClientShut \/ ClientGone
  BY <1>1 DEF ClientWrite, ClientShut, ClientGone
<1>2. CASE LCheck \/ LRecv \/ LEnd
  BY <1>2 DEF LCheck, LRecv, LEnd
<1>3. CASE GPull \/ GEnd
  BY <1>3 DEF GPull, GEnd
<1>4. CASE RQsize \/ RIsSet \/ RCrash \/ RGet
  BY <1>4 DEF RQsize, RIsSet, RCrash, RGet
<1>5. ASSUME NEW n \in SendSizes, RSend(n) PROVE ControlInv'
  BY <1>5 DEF RSend
<1>6. CASE HStart \/ HCall \/ HNothing \/ HDrain \/ HJoin
  BY <1>6 DEF HStart, HCall, HNothing, HDrain, HJoin
<1>7. CASE HExit \/ HExitJoin \/ HClose
  BY <1>7 DEF HExit, HExitJoin, HClose
<1>8. CASE HFrame \/ HEnd \/ HFail
  BY <1>8 DEF HFrame, HEnd, HFail
<1>9. CASE UNCHANGED vars
  BY <1>9 DEF vars
<1> QED
  BY <1>1, <1>2, <1>3, <1>4, <1>5, <1>6, <1>7, <1>8, <1>9
     DEF Next, LStep, GStep, RStep, RSends, HStep, Worker

\* The requests on their way stay consecutive.
LEMMA UpStep == TypeOK /\ ControlInv /\ UpInv /\ [Next]_vars => UpInv'
<1> SUFFICES ASSUME TypeOK, ControlInv, UpInv, [Next]_vars PROVE UpInv'
  OBVIOUS
<1> USE DEF local, upward, downward
<1>1. CASE ClientWrite
  BY <1>1 DEF ClientWrite, UpInv, TypeOK, Consecutive
<1>2. CASE UNCHANGED <<asked, recvd, reqQ, stream, up>>
  BY <1>2 DEF UpInv, Consecutive
<1>3. CASE LRecv
  <2>1. reqQ \in Seq(1..MaxReq) /\ recvd \in Nat /\ asked \in Nat /\ Len(up) \in Nat
    BY DEF TypeOK
  <2>2. reqQ' = Append(reqQ, recvd + 1) /\ recvd' = recvd + 1 /\ recvd < asked
        /\ UNCHANGED <<asked, stream, up>>
    BY <1>3 DEF LRecv
  <2>3. CASE stream # "over"
    BY <2>1, <2>2, <2>3 DEF UpInv, Consecutive
  <2>4. CASE stream = "over"
    BY <2>1, <2>2, <2>4 DEF UpInv
  <2> QED BY <2>3, <2>4
<1>4. CASE GPull
  <2>1. /\ reqQ \in Seq(1..MaxReq) /\ up \in Seq(1..MaxReq) /\ recvd \in Nat
        /\ reqQ # <<>> /\ stream \in {"none", "open", "over"}
    BY <1>4 DEF TypeOK, GPull
  <2>2. reqQ' = Tail(reqQ) /\ UNCHANGED <<asked, recvd, stream>>
    BY <1>4 DEF GPull
  <2>3. CASE stream = "open"
    <3>1. up' = Append(up, Head(reqQ))
      BY <1>4, <2>3 DEF GPull
    <3>2. Len(reqQ') = Len(reqQ) - 1 /\ \A i \in 1..Len(reqQ') : reqQ'[i] = reqQ[i + 1]
      BY <2>1, <2>2
    <3>3. Len(up') = Len(up) + 1 /\ Len(up) \in Nat /\ Len(reqQ) \in Nat
      BY <2>1, <3>1
    <3>4. Consecutive(reqQ', Len(up'))
      BY <2>3, <3>2, <3>3 DEF UpInv, Consecutive
    <3>5. Len(up') + Len(reqQ') = recvd' /\ recvd' <= asked'
      BY <2>1, <2>2, <2>3, <3>2, <3>3 DEF UpInv
    <3> QED BY <2>2, <2>3, <3>4, <3>5 DEF UpInv, Consecutive
  <2>4. CASE stream = "over"
    BY <2>2, <2>4 DEF UpInv
  <2>5. CASE stream = "none"
    BY <1>4, <2>5 DEF GPull, ControlInv
  <2> QED BY <2>1, <2>3, <2>4, <2>5
<1>5. CASE HCall
  <2>1. stream = "none" /\ UNCHANGED <<asked, recvd, reqQ, up>>
    BY <1>5 DEF HCall, ControlInv
  <2> QED BY <2>1 DEF UpInv, Consecutive
<1>6. CASE HEnd \/ HFail
  BY <1>6 DEF HEnd, HFail, UpInv
<1> QED
  BY <1>1, <1>2, <1>3, <1>4, <1>5, <1>6
     DEF Next, LStep, GStep, RStep, RSends, HStep, Worker, vars, ClientShut, ClientGone,
         LCheck, LEnd, GEnd, RQsize, RIsSet, RGet, RSend, RCrash, HStart, HNothing,
         HFrame, HDrain, HJoin, HExit, HExitJoin, HClose

\* Multiplication, as the steps below need it.
LEMMA TimesFrame ==
  /\ \A a \in Int : (a + 1) * FrameLen = a * FrameLen + FrameLen
  /\ \A a, b \in Int : a <= b => a * FrameLen <= b * FrameLen
BY ConnectionAssumption

\* What is put on the wire is the whole frame in hand, and no more.
LEMMA BytesAre ==
  ASSUME NEW k \in Int
  PROVE  /\ Bytes(k, FrameLen) \in Seq(Int) /\ Len(Bytes(k, FrameLen)) = FrameLen
         /\ Bytes(k, FrameLen) = [i \in 1..FrameLen |-> (k - 1) * FrameLen + i]
BY ConnectionAssumption DEF Bytes

\* The responses on their way stay consecutive.
LEMMA DownStep ==
  ASSUME WholeFrames, TypeOK, ControlInv, DownInv, [Next]_vars
  PROVE  DownInv'
<1> USE DEF local, upward, downward
<1>0. /\ answered \in Nat /\ respQ \in Seq(1..MaxResp) /\ Len(respQ) \in Nat
      /\ down \in Seq(Int) /\ Len(down) \in Nat /\ buf \in Nat /\ FrameLen \in Nat
  BY ConnectionAssumption DEF TypeOK
<1>1. CASE UNCHANGED downward /\ r' = r
  BY <1>1 DEF DownInv, Consecutive
<1>2. CASE UNCHANGED downward /\ r # "send" /\ r # "crashed" /\ r' # "send"
  BY <1>2 DEF DownInv, Consecutive
<1>3. CASE RCrash
  BY <1>3 DEF RCrash, DownInv, Consecutive
<1>4. CASE RGet
  <2>1. CASE respQ = <<>>
    <3>1. UNCHANGED downward /\ r = "get" /\ r' = "qsize"
      BY <1>4, <2>1 DEF RGet
    <3> QED BY <3>1, <1>2
  <2>2. CASE respQ # <<>>
    <3>1. /\ respQ' = Tail(respQ) /\ buf' = Head(respQ) /\ r = "get" /\ r' = "send"
          /\ UNCHANGED <<answered, down>>
      BY <1>4, <2>2 DEF RGet
    <3>2. /\ Len(respQ') = Len(respQ) - 1 /\ Len(respQ) > 0
          /\ \A i \in 1..Len(respQ') : respQ'[i] = respQ[i + 1]
          /\ buf' = respQ[1]
      BY <1>0, <2>2, <3>1
    <3>3. buf' = answered' - Len(respQ') /\ buf' > 0
      BY <1>0, <3>1, <3>2 DEF DownInv, Consecutive
    <3>4. Len(down') = (buf' - 1) * FrameLen
      <4>1. Len(down) = (answered - Len(respQ)) * FrameLen
        BY <3>1 DEF DownInv
      <4>2. buf' - 1 = answered - Len(respQ)
        BY <1>0, <3>1, <3>2, <3>3
      <4> QED BY <3>1, <4>1, <4>2
    <3>5. Consecutive(respQ', answered' - Len(respQ'))
      <4> SUFFICES ASSUME NEW i \in 1..Len(respQ')
                   PROVE  respQ'[i] = answered' - Len(respQ') + i
        BY DEF Consecutive
      <4>1. i + 1 \in 1..Len(respQ) /\ respQ'[i] = respQ[i + 1]
        BY <1>0, <3>2
      <4>2. respQ[i + 1] = answered - Len(respQ) + (i + 1)
        BY <4>1 DEF DownInv, Consecutive
      <4>3. answered' = answered /\ Len(respQ') = Len(respQ) - 1
        BY <3>1, <3>2
      <4> HIDE DEF Consecutive
      <4> QED
        <5> DEFINE m == Len(respQ)
                   m1 == Len(respQ')
        <5>1. m \in Nat /\ m1 = m - 1 /\ i \in Int /\ answered \in Int
          BY <1>0, <4>3
        <5>2. respQ'[i] = answered - m + (i + 1)
          BY <4>1, <4>2
        <5> HIDE DEF m, m1
        <5>3. answered - m + (i + 1) = answered - m1 + i
          BY <5>1
        <5> QED BY <4>3, <5>2, <5>3 DEF m1
    <3>6. Len(respQ') <= answered'
      BY <1>0, <3>1, <3>2 DEF DownInv
    <3> QED BY <3>1, <3>3, <3>4, <3>5, <3>6 DEF DownInv
  <2> QED BY <2>1, <2>2
<1>5. ASSUME NEW n \in SendSizes, RSend(n) PROVE DownInv'
  <2>1. n = FrameLen
    BY DEF WholeFrames
  <2>2. /\ r = "send" /\ down' = down \o Bytes(buf, FrameLen)
        /\ UNCHANGED <<answered, respQ>>
    BY <1>5, <2>1 DEF RSend
  <2>3. r' = "qsize"
    <3>1. x \in Nat /\ ~(x + FrameLen < FrameLen)
      BY <1>0 DEF TypeOK
    <3>2. r' = IF x + FrameLen < FrameLen THEN "send" ELSE "qsize"
      BY <1>5, <2>1 DEF RSend
    <3> QED BY <3>1, <3>2
  <2>4. Len(down') = Len(down) + FrameLen
    <3> DEFINE b == Bytes(buf, FrameLen)
    <3>1. b \in Seq(Int) /\ Len(b) = FrameLen
      BY <1>0, BytesAre
    <3>2. down' = down \o b
      BY <2>2
    <3> HIDE DEF b
    <3> QED BY <1>0, <3>1, <3>2, ConcatProperties
  <2>5. (buf - 1) * FrameLen + FrameLen = buf * FrameLen
    <3>1. buf - 1 \in Int /\ (buf - 1) + 1 = buf
      BY <1>0
    <3> QED BY <3>1, TimesFrame
  <2>6. Len(down') = (answered' - Len(respQ')) * FrameLen
    BY <1>0, <2>2, <2>4, <2>5 DEF DownInv
  <2> QED BY <2>2, <2>3, <2>6 DEF DownInv, Consecutive
<1>6. CASE HFrame
  <2>1. /\ respQ' = Append(respQ, answered + 1) /\ answered' = answered + 1
        /\ UNCHANGED <<buf, down, r>>
    BY <1>6 DEF HFrame
  <2>2. Len(respQ') = Len(respQ) + 1 /\ answered' - Len(respQ') = answered - Len(respQ)
    BY <1>0, <2>1
  <2>3. Consecutive(respQ', answered' - Len(respQ')) /\ Len(respQ') <= answered'
    BY <1>0, <2>1, <2>2 DEF DownInv, Consecutive
  <2> QED BY <2>1, <2>2, <2>3 DEF DownInv
<1>7. CASE HStart
  BY <1>2, <1>7 DEF HStart, ControlInv
<1>8. CASE RQsize \/ RIsSet
  BY <1>2, <1>8 DEF RQsize, RIsSet
<1> QED
  BY <1>1, <1>3, <1>4, <1>5, <1>6, <1>7, <1>8
     DEF Next, LStep, GStep, RStep, RSends, HStep, Worker, vars, ClientWrite, ClientShut,
         ClientGone, LCheck, LRecv, LEnd, GPull, GEnd, HCall,
         HNothing, HEnd, HFail, HDrain, HJoin, HExit, HExitJoin, HClose

\* So does what is known after the drain.
LEMMA DrainStep == TypeOK /\ DrainInv /\ [Next]_vars => DrainInv'
<1> SUFFICES ASSUME TypeOK, DrainInv, [Next]_vars PROVE DrainInv'
  OBVIOUS
<1> USE DEF DrainInv, local, upward, downward
<1>1. CASE UNCHANGED <<respQ, h, failed>>
  BY <1>1
<1>2. CASE RGet
  BY <1>2 DEF RGet
<1>3. CASE HStart \/ HCall \/ HNothing \/ HDrain \/ HJoin
  BY <1>3 DEF HStart, HCall, HNothing, HDrain, HJoin
<1>4. CASE HExit \/ HExitJoin \/ HClose
  BY <1>4 DEF HExit, HExitJoin, HClose
<1>5. CASE HFrame \/ HEnd \/ HFail
  BY <1>5 DEF HFrame, HEnd, HFail
<1> QED
  BY <1>1, <1>2, <1>3, <1>4, <1>5
     DEF Next, LStep, GStep, RStep, RSends, HStep, Worker, vars, ClientWrite, ClientShut,
         ClientGone, LCheck, LRecv, LEnd, GPull, GEnd, RQsize, RIsSet, RSend, RCrash

\* Nobody waits in vain: inductive with what each thread has seen before it ends.
LEMMA WaitStep ==
  TypeOK /\ ControlInv /\ ThreadInv /\ WaitsAreMet /\ [Next]_vars
    => (ThreadInv /\ WaitsAreMet)'
<1> SUFFICES ASSUME TypeOK, ControlInv, ThreadInv, WaitsAreMet, [Next]_vars
             PROVE  (ThreadInv /\ WaitsAreMet)'
  OBVIOUS
<1> USE DEF TypeOK, ControlInv, ThreadInv, WaitsAreMet, Ended, local, upward, downward
<1>1. CASE ClientWrite \/ ClientShut \/ ClientGone
  BY <1>1 DEF ClientWrite, ClientShut, ClientGone
<1>2. CASE LStep
  BY <1>2 DEF LStep, LCheck, LRecv, LEnd
<1>3. CASE GPull
  BY <1>3 DEF GPull
<1>4. CASE GEnd
  BY <1>4 DEF GEnd
<1>5. CASE RQsize \/ RIsSet \/ RGet \/ RCrash
  BY <1>5 DEF RQsize, RIsSet, RGet, RCrash
<1>6. ASSUME NEW n \in SendSizes, RSend(n) PROVE (ThreadInv /\ WaitsAreMet)'
  BY <1>6 DEF RSend
<1>7. CASE HStart \/ HCall \/ HNothing
  BY <1>7 DEF HStart, HCall, HNothing
<1>8. CASE Worker
  BY <1>8 DEF Worker, HFrame, HEnd, HFail
<1>9. CASE HDrain \/ HJoin
  BY <1>9 DEF HDrain, HJoin
<1>10. CASE HExit \/ HExitJoin \/ HClose
  BY <1>10 DEF HExit, HExitJoin, HClose
<1>11. CASE UNCHANGED vars
  BY <1>11 DEF vars
<1> QED BY <1>1, <1>2, <1>3, <1>4, <1>5, <1>6, <1>7, <1>8, <1>9, <1>10, <1>11
        DEF Next, GStep, RStep, RSends, HStep

(***************************************************************************)
(* The inductive invariant                                                 *)
(***************************************************************************)

\* What holds whatever send() does, and what holds when it takes whole frames.
SafeInv == TypeOK /\ ControlInv /\ UpInv
WholeInv == SafeInv /\ DownInv /\ DrainInv

LEMMA InitInv == Init => WholeInv
<1> SUFFICES ASSUME Init PROVE WholeInv
  OBVIOUS
<1>1. TypeOK
  <2>1. \A S : <<>> \in Seq(S)
    OBVIOUS
  <2>2. 0 \in 0..MaxReq /\ 0 \in 0..MaxResp
    BY ConnectionAssumption
  <2> QED BY <2>1, <2>2 DEF Init, TypeOK
<1>2. ControlInv /\ UpInv /\ DrainInv
  BY DEF Init, ControlInv, UpInv, DrainInv, Consecutive
<1>3. DownInv
  <2>1. answered = 0 /\ Len(respQ) = 0 /\ Len(down) = 0 /\ r = "none"
    BY DEF Init
  <2>2. 0 * FrameLen = 0
    BY ConnectionAssumption
  <2> QED BY <2>1, <2>2 DEF DownInv, Consecutive
<1> QED BY <1>1, <1>2, <1>3 DEF WholeInv, SafeInv

LEMMA Safe == Spec => []SafeInv
<1>1. Init => SafeInv
  BY InitInv DEF WholeInv
<1>2. SafeInv /\ [Next]_vars => SafeInv'
  BY TypeStep, ControlStep, UpStep DEF SafeInv
<1> QED BY <1>1, <1>2, PTL DEF Spec

LEMMA Whole == ASSUME WholeFrames PROVE Spec => []WholeInv
<1>1. WholeInv /\ [Next]_vars => WholeInv'
  BY TypeStep, ControlStep, UpStep, DownStep, DrainStep DEF SafeInv, WholeInv
<1> QED BY <1>1, InitInv, PTL DEF Spec

(***************************************************************************)
(* The theorems                                                            *)
(***************************************************************************)

\* Type correctness of the connection.
THEOREM ConnectionTypeCorrect == Spec => []TypeOK
<1>1. SafeInv => TypeOK
  BY DEF SafeInv
<1> QED BY <1>1, Safe, PTL

\* The client socket is closed only after recv_from_local and remote_to_local
\* have ended, on every path through handle and __exit__.
THEOREM NoUseAfterClose == Spec => []JoinedBeforeClose
<1>1. SafeInv => JoinedBeforeClose
  BY DEF SafeInv, ControlInv, JoinedBeforeClose
<1> QED BY <1>1, Safe, PTL

\* After a call that ended normally the socket is closed only when every
\* response is sent, unless the client had gone.
THEOREM Delivered == ASSUME WholeFrames PROVE Spec => []DeliveredBeforeClose
<1>1. WholeInv => DeliveredBeforeClose
  <2> SUFFICES ASSUME WholeInv, sock = "closed", ~failed, r # "crashed"
               PROVE  respQ = <<>> /\ Len(down) = answered * FrameLen
    BY DEF DeliveredBeforeClose
  <2>1. h = "done" /\ r = "dead"
    BY DEF WholeInv, SafeInv, ControlInv, Ended
  <2>2. respQ = <<>>
    BY <2>1 DEF WholeInv, DrainInv
  <2>3. Len(down) = (answered - Len(respQ)) * FrameLen /\ answered \in Nat
    BY <2>1 DEF WholeInv, SafeInv, DownInv, TypeOK
  <2> QED BY <2>2, <2>3
<1> QED BY <1>1, Whole, PTL

\* Whoever the handler waits for is alive or has been told to end, however the
\* threads, the client and the worker interleave: what fairness needs for
\* EndsUnlessStranded.
THEOREM NobodyWaitsInVain == Spec => []WaitsAreMet
<1>1. Init => ThreadInv /\ WaitsAreMet
  BY DEF Init, ThreadInv, WaitsAreMet, Ended
<1>2. TypeOK /\ ControlInv /\ ThreadInv /\ WaitsAreMet /\ [Next]_vars
      => (ThreadInv /\ WaitsAreMet)'
  BY WaitStep
<1>3. SafeInv => TypeOK /\ ControlInv
  BY DEF SafeInv
<1> QED BY <1>1, <1>2, <1>3, Safe, PTL DEF Spec

\* With whole frames, a connection implements the two pipes of module Pipe:
\* every step of a thread, of the client or of the worker is a step of the
\* pipes or leaves them unchanged.
THEOREM RefinesPipe == ASSUME WholeFrames PROVE Spec => ImplementsPipe
<1>1. Init => P!Init
  <2> SUFFICES ASSUME Init PROVE P!Init
    OBVIOUS
  <2>1. 0 * FrameLen = 0
    BY ConnectionAssumption
  <2> QED BY <2>1 DEF Init, P!Init
<1>2. WholeInv /\ [Next]_vars => [P!Next]_P!pipe
  <2> SUFFICES ASSUME WholeInv, [Next]_vars PROVE [P!Next]_P!pipe
    OBVIOUS
  <2>0. TypeOK /\ ControlInv /\ UpInv /\ DownInv
    BY DEF WholeInv, SafeInv
  <2> USE DEF local, upward, downward
  <2>1. CASE UNCHANGED <<asked, up, answered, down, sock>>
    BY <2>1 DEF P!pipe
  <2>2. CASE ClientWrite
    BY <2>2 DEF ClientWrite, P!Next, P!Ask
  <2>3. CASE GPull
    <3>1. CASE stream = "open"
      <4>1. up' = Append(up, Head(reqQ)) /\ reqQ # <<>> /\ UNCHANGED <<asked, answered, down, sock>>
        BY <2>3, <3>1 DEF GPull
      <4>2. sock # "closed"
        BY <2>0, <3>1 DEF ControlInv
      <4>3. /\ reqQ \in Seq(1..MaxReq) /\ up \in Seq(1..MaxReq) /\ Len(reqQ) > 0
            /\ Len(up) \in Nat /\ Len(reqQ) \in Nat /\ asked \in Nat /\ recvd \in Nat
        BY <2>0, <4>1 DEF TypeOK
      <4>4. Head(reqQ) = Len(up) + 1 /\ Len(up) + 1 <= asked
        BY <2>0, <3>1, <4>1, <4>3 DEF UpInv, Consecutive
      <4>5. Len(up') = Len(up) + 1
        BY <4>1, <4>3
      <4>6. up' = up \o [i \in 1..(Len(up') - Len(up)) |-> Len(up) + i]
        <5>1. up' = Append(up, Len(up) + 1)
          BY <4>1, <4>4
        <5>2. [i \in 1..(Len(up') - Len(up)) |-> Len(up) + i] = <<Len(up) + 1>>
          BY <4>3, <4>5
        <5>3. Append(up, Len(up) + 1) = up \o <<Len(up) + 1>>
          BY <4>3, AppendIsConcat
        <5> QED BY <5>1, <5>2, <5>3
      <4>7. P!Extends(up, up', asked)
        BY <4>3, <4>4, <4>5, <4>6 DEF P!Extends
      <4> QED BY <4>1, <4>2, <4>7 DEF P!Next, P!Up
    <3>2. CASE stream # "open"
      BY <2>1, <2>3, <3>2 DEF GPull
    <3> QED BY <3>1, <3>2
  <2>4. ASSUME NEW n \in SendSizes, RSend(n) PROVE P!Next
    <3> DEFINE b == Bytes(buf, FrameLen)
               d == Len(down)
    <3>1. /\ r = "send" /\ down' = down \o b
          /\ UNCHANGED <<asked, up, answered, respQ, sock>>
      BY <2>4 DEF RSend, WholeFrames
    <3>2. sock # "closed"
      BY <2>0, <3>1 DEF ControlInv, Ended
    <3>3. /\ answered \in Nat /\ buf \in Nat /\ FrameLen \in Nat /\ d \in Nat
          /\ down \in Seq(Int) /\ Len(respQ) \in Nat
      BY <2>0, ConnectionAssumption DEF TypeOK
    <3>4. /\ b \in Seq(Int) /\ Len(b) = FrameLen
          /\ b = [i \in 1..FrameLen |-> (buf - 1) * FrameLen + i]
      BY <3>3, BytesAre
    <3>5. d = (buf - 1) * FrameLen /\ buf <= answered
      BY <2>0, <3>1, <3>3 DEF DownInv
    <3>6. Len(down') = d + FrameLen
      <4> HIDE DEF b
      <4> QED BY <3>1, <3>3, <3>4, ConcatProperties
    <3>7. b = [i \in 1..(Len(down') - d) |-> d + i]
      BY <3>3, <3>4, <3>5, <3>6
    <3>8. Len(down') <= answered * FrameLen
      <4>1. buf - 1 \in Int /\ (buf - 1) + 1 = buf /\ buf \in Int /\ answered \in Int
        BY <3>3
      <4>2. (buf - 1) * FrameLen + FrameLen = buf * FrameLen
        BY <4>1, TimesFrame
      <4>3. buf * FrameLen <= answered * FrameLen
        BY <3>5, <4>1, TimesFrame
      <4> QED BY <3>5, <3>6, <4>2, <4>3
    <3>9. P!Extends(down, down', answered * FrameLen)
      BY <3>1, <3>3, <3>6, <3>7, <3>8 DEF P!Extends
    <3> QED BY <3>1, <3>2, <3>9 DEF P!Next, P!Down
  <2>5. CASE HFrame
    <3>1. answered' = answered + 1 /\ UNCHANGED <<asked, up, down, sock>>
      BY <2>5 DEF HFrame
    <3>2. answered \in Int /\ FrameLen \in Nat /\ FrameLen > 0
      BY <2>0, ConnectionAssumption DEF TypeOK
    <3>3. (answered + 1) * FrameLen = answered * FrameLen + FrameLen
      BY <3>2, TimesFrame
    <3>4. answered' * FrameLen > answered * FrameLen
      BY <3>1, <3>2, <3>3
    <3> QED BY <3>1, <3>4 DEF P!Next, P!Answer
  <2>6. CASE HClose
    <3>1. sock # "closed"
      BY <2>0, <2>6 DEF HClose, ControlInv
    <3> QED BY <2>6, <3>1 DEF HClose, P!Next, P!Close
  <2> QED
    BY <2>1, <2>2, <2>3, <2>4, <2>5, <2>6
       DEF Next, LStep, GStep, RStep, RSends, HStep, Worker, vars, ClientShut, ClientGone,
           LCheck, LRecv, LEnd, GEnd, RQsize, RIsSet, RGet, RCrash, HStart, HCall,
           HNothing, HEnd, HFail, HDrain, HJoin, HExit, HExitJoin
<1> QED BY <1>1, <1>2, Whole, PTL DEF Spec, ImplementsPipe, P!Spec
=============================================================================
