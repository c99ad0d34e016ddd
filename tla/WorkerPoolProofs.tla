--------------------------- MODULE WorkerPoolProofs ---------------------------
(***************************************************************************)
(* Proofs about WorkerPool, for every number of connections, workerChans   *)
(* and workers and for both channel capacities.                            *)
(***************************************************************************)
EXTENDS WorkerPool, DistinctSeqLemmas, FiniteSetTheorems

-----------------------------------------------------------------------------
(* Types *)

\* clean never takes more workers off ready than there are.
LEMMA CleanNumBound ==
  TypeOK => CleanNum \in 0..Len(ready)
<1> SUFFICES ASSUME TypeOK PROVE CleanNum \in 0..Len(ready)
  OBVIOUS
<1>1. Len(ready) \in Nat
  BY DEF TypeOK
<1>2. \A n \in Nat : n \div 4 \in 0..n /\ n \div 2 \in 0..n /\ 0 \in 0..n
  OBVIOUS
<1> QED
  BY <1>1, <1>2 DEF CleanNum, DefaultCleanThresholdFunc

\* An update keeps a function's type, also at an argument outside its domain.
LEMMA ExceptType ==
  ASSUME NEW A, NEW B, NEW f \in [A -> B], NEW x, NEW y \in B
  PROVE  [f EXCEPT ![x] = y] \in [A -> B]
BY ZenonT(30)

\* The type invariant is inductive.
LEMMA TypeStep ==
  TypeOK /\ [Next]_vars => TypeOK'
<1> SUFFICES ASSUME TypeOK, [Next]_vars, UNCHANGED workerChanCap PROVE TypeOK'
  BY DEF Next, vars
<1> USE WorkerPoolAssumption DEF TypeOK, ReadyButNewest, ReadyButCleaned, HasRoom, poolVars, workerVars, accVars, cleanVars,
        connVars, WorkerPCs, AcceptorPCs, CleanerPCs, ConnStats
<1>1. ASSUME NEW c \in Conns, Accept(c) PROVE TypeOK'
  BY <1>1 DEF Accept
<1>2. CASE StopClose
  BY <1>2 DEF StopClose
<1>3. CASE GetCh
  <2>1. ready # <<>> => /\ ready[Len(ready)] \in Chans
                        /\ SubSeq(ready, 1, Len(ready) - 1) \in Seq(Chans)
    <3>1. ready # <<>> => Len(ready) \in 1..Len(ready) /\ Len(ready) - 1 \in 0..Len(ready)
      OBVIOUS
    <3>2. \A k \in 0..Len(ready) : SubSeq(ready, 1, k) \in Seq(Chans)
      OBVIOUS
    <3> QED
      BY <3>1, <3>2
  <2>2. /\ ready' \in Seq(Chans) /\ workersCount' \in Int
        /\ apc' \in AcceptorPCs /\ ach' \in Chans \cup {NilConn}
    <3>1. CASE /\ ready # <<>>
               /\ ach' = ready[Len(ready)]
               /\ ready' = SubSeq(ready, 1, Len(ready) - 1)
               /\ apc' = "send"
               /\ UNCHANGED workersCount
      BY <2>1, <3>1
    <3>2. CASE /\ ready = <<>>
               /\ workersCount' = workersCount + 1
               /\ apc' = "spawn"
               /\ UNCHANGED <<ready, ach>>
      BY <3>2
    <3>3. CASE apc' = "reject" /\ UNCHANGED <<ready, workersCount, ach>>
      BY <3>3
    <3> QED
      BY <1>3, <3>1, <3>2, <3>3 DEF GetCh
  <2> QED
    BY <1>3, <2>2 DEF GetCh
<1>4. ASSUME NEW ch \in Chans, Spawn(ch) PROVE TypeOK'
  BY <1>4 DEF Spawn
<1>5. ASSUME NEW ch, NEW c \in Conns \cup {NilConn}, Receive(ch, c)
      PROVE  /\ wpc' \in [Chans -> WorkerPCs]
             /\ wconn' \in [Chans -> Conns \cup {NilConn}]
             /\ stat' \in [Conns -> ConnStats]
             /\ concurrency' \in Int
  <2>1. wpc' \in [Chans -> WorkerPCs]
    <3>1. (IF c = NilConn THEN "exit" ELSE "serve") \in WorkerPCs
      OBVIOUS
    <3> QED
      BY <1>5, <3>1, ExceptType, ZenonT(30) DEF Receive
  <2>2. wconn' \in [Chans -> Conns \cup {NilConn}]
    BY <1>5, ExceptType, ZenonT(30) DEF Receive
  <2>3. stat' \in [Conns -> ConnStats]
    <3>1. "serving" \in ConnStats
      OBVIOUS
    <3> QED
      BY <1>5, <3>1, ExceptType, ZenonT(30) DEF Receive
  <2>4. concurrency' \in Int
    BY <1>5 DEF Receive
  <2> QED
    BY <2>1, <2>2, <2>3, <2>4
<1>6. ASSUME NEW ch, NEW c \in Conns \cup {NilConn}, ChanSend(ch, c)
      PROVE  /\ wpc' \in [Chans -> WorkerPCs]
             /\ wconn' \in [Chans -> Conns \cup {NilConn}]
             /\ stat' \in [Conns -> ConnStats]
             /\ concurrency' \in Int
             /\ buf' \in [Chans -> Seq(Conns \cup {NilConn})]
  <2>1. CASE workerChanCap = 0 /\ Receive(ch, c) /\ UNCHANGED buf
    BY <1>5, <2>1
  <2>2. CASE /\ buf' = [buf EXCEPT ![ch] = Append(@, c)]
             /\ UNCHANGED <<wpc, wconn, stat, concurrency>>
    <3>1. CASE ch \in Chans
      <4>1. Append(buf[ch], c) \in Seq(Conns \cup {NilConn})
        BY <3>1
      <4> QED
        BY <2>2, <4>1, ExceptType, ZenonT(30)
    <3>2. CASE ch \notin Chans
      BY <2>2, <3>2, ZenonT(30)
    <3> QED
      BY <3>1, <3>2
  <2> QED
    BY <1>6, <2>1, <2>2, SMTT(30) DEF ChanSend
<1>7. CASE ServeSend
  BY <1>6, <1>7 DEF ServeSend
<1>8. CASE Reject
  <2>1. stat' \in [Conns -> ConnStats]
    <3>1. "rejected" \in ConnStats
      OBVIOUS
    <3> QED
      BY <1>8, <3>1, ExceptType, ZenonT(30) DEF Reject
  <2> QED
    BY <1>8, <2>1 DEF Reject
<1>9. CASE StopLock
  BY <1>9 DEF StopLock
<1>10. CASE StopSend
  <2>1. ChanSend(Head(ready), NilConn) /\ NilConn \in Conns \cup {NilConn}
    BY <1>10 DEF StopSend
  <2>2. /\ wpc' \in [Chans -> WorkerPCs] /\ wconn' \in [Chans -> Conns \cup {NilConn}]
        /\ stat' \in [Conns -> ConnStats] /\ concurrency' \in Int
        /\ buf' \in [Chans -> Seq(Conns \cup {NilConn})]
    <3> HIDE DEF TypeOK
    <3> QED
      BY <1>6, <2>1
  <2>3. ready' \in Seq(Chans)
    BY <1>10 DEF StopSend
  <2> QED
    BY <1>10, <2>2, <2>3, ZenonT(30) DEF StopSend
<1>11. CASE StopUnlock
  BY <1>11, ZenonT(30) DEF StopUnlock
<1>12. ASSUME NEW ch \in Chans, Worker(ch) PROVE TypeOK'
  <2>1. CASE WorkerRecv(ch)
    <3>1. Head(buf[ch]) \in Conns \cup {NilConn} /\ Tail(buf[ch]) \in Seq(Conns \cup {NilConn})
      BY <2>1 DEF WorkerRecv
    <3> QED
      BY <1>5, <2>1, <3>1, SMTT(30) DEF WorkerRecv
  <2>2. CASE WorkerFuncReturn(ch)
    BY <2>2 DEF WorkerFuncReturn, WorkerStep
  <2>3. CASE Uncount(ch)
    BY <2>3 DEF Uncount, WorkerStep
  <2>4. ASSUME NEW how \in {"closed", "hijacked"}, CloseConn(ch, how) PROVE TypeOK'
    <3>1. stat' \in [Conns -> ConnStats]
      <4>1. how \in ConnStats
        OBVIOUS
      <4> QED
        BY <2>4, <4>1, ExceptType, ZenonT(30) DEF CloseConn
    <3> QED
      BY <2>4, <3>1 DEF CloseConn, WorkerStep
  <2>5. CASE ReleaseStamp(ch)
    BY <2>5 DEF ReleaseStamp, WorkerStep
  <2>6. CASE Release(ch)
    <3>1. Append(ready, ch) \in Seq(Chans)
      OBVIOUS
    <3> QED
      BY <2>6, <3>1, ZenonT(30) DEF Release, WorkerStep
  <2>7. CASE WorkerExit(ch)
    BY <2>7 DEF WorkerExit, WorkerStep
  <2>8. CASE PoolPut(ch)
    BY <2>8 DEF PoolPut, WorkerStep
  <2> QED
    BY <1>12, <2>1, <2>2, <2>3, <2>4, <2>5, <2>6, <2>7, <2>8, ZenonT(30) DEF Worker
<1>13. CASE Clean
  <2>1. CleanNum \in 0..Len(ready)
    BY CleanNumBound
  <2>2. SubSeq(ready, 1, CleanNum) \in Seq(Chans)
    BY <2>1
  <2>3. SubSeq(ready, CleanNum + 1, Len(ready)) \in Seq(Chans)
    BY <2>1
  <2> QED
    BY <1>13, <2>2, <2>3, SMTT(30) DEF Clean, CleanerStep
<1>14. CASE CleanNotify
  <2>1. Tail(scratch) \in Seq(Chans)
    BY <1>14 DEF CleanNotify
  <2> QED
    BY <1>6, <1>14, <2>1, SMTT(30) DEF CleanNotify, CleanerStep
<1>15. CASE CleanPoll
  BY <1>15 DEF CleanPoll, CleanerStep
<1>16. CASE CleanWake
  BY <1>16 DEF CleanWake, CleanerStep
<1>17. CASE Tick
  BY <1>17 DEF Tick
<1>18. CASE UNCHANGED vars
  BY <1>18 DEF vars
<1> QED
  BY ZenonT(30), <1>1, <1>2, <1>3, <1>4, <1>7, <1>8, <1>9, <1>10, <1>11, <1>12, <1>13,
     <1>14, <1>15, <1>16, <1>17, <1>18 DEF Next, Acceptor, Cleaner, Finished

LEMMA TypeInit == Init => TypeOK
<1> SUFFICES ASSUME Init PROVE TypeOK
  OBVIOUS
<1> USE DEF Init
<1>1. /\ workerChanCap \in {0, 1}
      /\ lockHeld \in BOOLEAN /\ mustStop \in BOOLEAN /\ stopClosed \in BOOLEAN
  BY ZenonT(30)
<1>2. ready \in Seq(Chans) /\ scratch \in Seq(Chans)
  OBVIOUS
<1>3. buf \in [Chans -> Seq(Conns \cup {NilConn})]
  OBVIOUS
<1>4. wpc \in [Chans -> WorkerPCs] /\ wconn \in [Chans -> Conns \cup {NilConn}]
  BY DEF WorkerPCs
<1>5. stat \in [Conns -> ConnStats] /\ lastUseTime \in [Chans -> Nat]
  BY DEF ConnStats
<1>6. apc \in AcceptorPCs /\ cpc \in CleanerPCs
  BY DEF AcceptorPCs, CleanerPCs
<1> QED
  BY <1>1, <1>2, <1>3, <1>4, <1>5, <1>6 DEF TypeOK

\* Every state of the pool is well typed.
THEOREM TypeCorrect == Spec => []TypeOK
  BY TypeInit, TypeStep, PTL DEF Spec
-----------------------------------------------------------------------------
(* Every idle worker has exactly one holder *)

IInv == TypeOK /\ PoolShape /\ OneHolder

\* Steps that move no worker between the holders.
LEMMA FrameStep ==
  ASSUME IInv, UNCHANGED <<ready, scratch, ach>>,
         apc' = "send" <=> apc = "send",
         \A ch \in Chans : Idle(ch)' <=> Idle(ch)
  PROVE  OneHolder'
BY DEF IInv, OneHolder

\* A message to an idle worker ends its idleness, whatever the capacity, and
\* disturbs nobody else.
LEMMA SendStep ==
  ASSUME IInv, NEW ch \in Chans, Idle(ch),
         NEW c \in Conns \cup {NilConn}, ChanSend(ch, c)
  PROVE  /\ \A d \in Chans : Idle(d)' <=> Idle(d) /\ d # ch
         /\ \A d \in Chans : wpc'[d] # "recv" => buf'[d] = <<>>
         /\ \A d \in Chans : AtMostOneMessage(buf'[d])
<1> USE DEF IInv, TypeOK, PoolShape, Idle
<1>1. CASE workerChanCap = 0 /\ Receive(ch, c) /\ UNCHANGED buf
  <2>1. wpc[ch] = "recv" /\ wpc'[ch] # "recv" /\ buf[ch] = <<>>
    BY <1>1 DEF Receive
  <2>2. \A d \in Chans : d # ch => wpc'[d] = wpc[d]
    BY <1>1 DEF Receive
  <2>3. \A d \in Chans : Idle(d)' <=> Idle(d) /\ d # ch
    BY <1>1, <2>1, <2>2, SMTT(30)
  <2>4. \A d \in Chans : wpc'[d] # "recv" => buf'[d] = <<>>
    BY <1>1, <2>1, <2>2
  <2>5. \A d \in Chans : AtMostOneMessage(buf'[d])
    BY <1>1
  <2> QED
    BY <2>3, <2>4, <2>5
<1>2. CASE /\ buf' = [buf EXCEPT ![ch] = Append(@, c)]
           /\ UNCHANGED <<wpc, wconn, stat, concurrency>>
  <2>1. buf'[ch] = <<c>>
    BY <1>2
  <2>2. <<c>> # <<>>
    OBVIOUS
  <2>3. \A d \in Chans : d # ch => buf'[d] = buf[d]
    BY <1>2
  <2>4. wpc' = wpc /\ wpc[ch] = "recv"
    BY <1>2
  <2>5. \A d \in Chans : Idle(d)' <=> Idle(d) /\ d # ch
    BY <2>1, <2>2, <2>3, <2>4, ZenonT(30)
  <2>6. \A d \in Chans : wpc'[d] # "recv" => buf'[d] = <<>>
    BY <2>3, <2>4, ZenonT(30)
  <2>7. \A d \in Chans : AtMostOneMessage(buf'[d])
    <3>1. AtMostOneMessage(<<c>>)
      BY DEF AtMostOneMessage
    <3> QED
      BY <2>1, <2>3, <3>1, ZenonT(30)
  <2> QED
    BY <2>5, <2>6, <2>7
<1> QED
  BY <1>1, <1>2 DEF ChanSend

LEMMA HolderStep ==
  IInv /\ [Next]_vars => PoolShape' /\ OneHolder'
<1> SUFFICES ASSUME IInv, [Next]_vars PROVE PoolShape' /\ OneHolder'
  OBVIOUS
<1> USE DEF ReadyButNewest, ReadyButCleaned, HasRoom, poolVars, workerVars, accVars,
        cleanVars, connVars
<1>0. TypeOK /\ TypeOK'
  BY TypeStep DEF IInv
<1>1. ASSUME NEW c \in Conns, Accept(c) PROVE PoolShape' /\ OneHolder'
  BY <1>1, FrameStep DEF Accept, IInv, PoolShape, Idle
<1>2. CASE StopClose
  BY <1>2, FrameStep DEF StopClose, IInv, PoolShape, Idle
<1>3. CASE GetCh
  <2>1. CASE /\ ready # <<>>
             /\ ach' = ready[Len(ready)]
             /\ ready' = SubSeq(ready, 1, Len(ready) - 1)
             /\ apc' = "send"
             /\ UNCHANGED workersCount
    <3>1. /\ Distinct(ready') /\ ach' \in Chans /\ ach' \notin Elems(ready')
          /\ Elems(ready) = Elems(ready') \cup {ach'}
      BY <2>1, <1>0, FrontElems DEF TypeOK, IInv, OneHolder
    <3>2. scratch' = scratch /\ apc # "send" /\ \A ch \in Chans : Idle(ch)' <=> Idle(ch)
      BY <1>3 DEF GetCh, Idle
    <3>3. OneHolder'
      BY <2>1, <3>1, <3>2 DEF IInv, OneHolder
    <3> QED
      BY <1>3, <2>1, <3>1, <3>3, SMTT(30) DEF GetCh, IInv, PoolShape
  <2>2. CASE apc' \in {"spawn", "reject"} /\ UNCHANGED <<ready, ach>>
    BY <1>3, <2>2, FrameStep DEF GetCh, IInv, PoolShape, Idle
  <2> QED
    BY <1>3, <2>1, <2>2 DEF GetCh
<1>4. ASSUME NEW ch \in Chans, Spawn(ch) PROVE PoolShape' /\ OneHolder'
  <2>1. PoolShape'
    BY <1>0, <1>4, SMTT(30) DEF Spawn, IInv, PoolShape, TypeOK
  <2>2. buf[ch] = <<>> /\ ~Idle(ch) /\ apc = "spawn"
    BY <1>0, <1>4, SMTT(30) DEF Spawn, IInv, PoolShape, Idle
  <2>3. \A d \in Chans : Idle(d)' <=> Idle(d) \/ d = ch
    BY <1>0, <1>4, <2>2 DEF Spawn, Idle, TypeOK
  <2>4. ch \notin Elems(ready) \cup Elems(scratch)
    BY <2>2, SMTT(30) DEF IInv, OneHolder
  <2>5. OneHolder'
    BY <1>4, <2>2, <2>3, <2>4 DEF Spawn, IInv, OneHolder
  <2> QED
    BY <2>1, <2>5, SMTT(30)
<1>5. CASE ServeSend
  <2>1. ach \in Chans /\ Idle(ach) /\ apc = "send"
    BY <1>5 DEF ServeSend, IInv, PoolShape, OneHolder
  <2>2. ChanSend(ach, aconn) /\ aconn \in Conns \cup {NilConn}
    BY <1>0, <1>5 DEF ServeSend, TypeOK
  <2>3. /\ \A d \in Chans : Idle(d)' <=> Idle(d) /\ d # ach
        /\ \A d \in Chans : wpc'[d] # "recv" => buf'[d] = <<>>
        /\ \A d \in Chans : AtMostOneMessage(buf'[d])
    BY <2>1, <2>2, SendStep
  <2>4. PoolShape'
    BY <1>5, <2>3, SMTT(30) DEF ServeSend, IInv, PoolShape
  <2>5. OneHolder'
    BY <1>5, <2>1, <2>3 DEF ServeSend, IInv, OneHolder
  <2> QED
    BY <2>4, <2>5, SMTT(30)
<1>6. CASE Reject
  BY <1>6, FrameStep DEF Reject, IInv, PoolShape, Idle
<1>7. CASE StopLock
  BY <1>7, FrameStep, SMTT(30) DEF StopLock, IInv, PoolShape, Idle
<1>8. CASE StopSend
  <2>1. /\ Distinct(ready') /\ Head(ready) \in Chans /\ Head(ready) \notin Elems(ready')
        /\ Elems(ready) = Elems(ready') \cup {Head(ready)}
    BY <1>0, <1>8, TailElems DEF StopSend, TypeOK, IInv, OneHolder
  <2>2. Idle(Head(ready))
    BY <2>1 DEF IInv, OneHolder
  <2>3. /\ \A d \in Chans : Idle(d)' <=> Idle(d) /\ d # Head(ready)
        /\ \A d \in Chans : wpc'[d] # "recv" => buf'[d] = <<>>
        /\ \A d \in Chans : AtMostOneMessage(buf'[d])
    BY <1>8, <2>1, <2>2, SendStep, SMTT(30) DEF StopSend
  <2>4. PoolShape'
    BY <1>8, <2>3, SMTT(30) DEF StopSend, IInv, PoolShape
  <2>5. OneHolder'
    BY <1>8, <2>1, <2>3, SMTT(30) DEF StopSend, IInv, OneHolder
  <2> QED
    BY <2>4, <2>5
<1>9. CASE StopUnlock
  BY <1>9, FrameStep, SMTT(30) DEF StopUnlock, IInv, PoolShape, Idle
<1>10. ASSUME NEW ch \in Chans, Worker(ch) PROVE PoolShape' /\ OneHolder'
  <2> USE <1>0 DEF TypeOK
  <2>1. CASE WorkerRecv(ch)
    <3>1. buf'[ch] = <<>> /\ wpc[ch] = "recv" /\ wpc'[ch] # "recv" /\ buf[ch] # <<>>
      <4>1. PICK c \in Conns \cup {NilConn} : buf[ch] = <<c>>
        <5>1. AtMostOneMessage(buf[ch]) /\ buf[ch] # <<>>
          BY <2>1 DEF WorkerRecv, IInv, PoolShape
        <5> QED
          BY <5>1, Zenon DEF AtMostOneMessage
      <4>2. Tail(buf[ch]) = <<>>
        BY <4>1
      <4> QED
        BY <2>1, <4>2 DEF WorkerRecv, Receive
    <3>2. \A d \in Chans : d # ch => wpc'[d] = wpc[d] /\ buf'[d] = buf[d]
      BY <2>1, SMTT(30) DEF WorkerRecv, Receive
    <3>3. PoolShape'
      <4>1. AtMostOneMessage(<<>>)
        BY DEF AtMostOneMessage
      <4> QED
        BY <2>1, <3>1, <3>2, <4>1, ZenonT(30) DEF WorkerRecv, IInv, PoolShape
    <3>4. \A d \in Chans : Idle(d)' <=> Idle(d)
      BY <3>1, <3>2, ZenonT(30) DEF Idle
    <3> QED
      BY <2>1, <3>3, <3>4, FrameStep, SMTT(30) DEF WorkerRecv
  <2>2. ASSUME NEW from \in WorkerPCs, NEW to \in WorkerPCs, from # "recv", to # "recv",
               WorkerStep(ch, from, to), UNCHANGED ready
        PROVE  PoolShape' /\ OneHolder'
    <3>1. PoolShape'
      BY <2>2, ZenonT(30) DEF WorkerStep, IInv, PoolShape
    <3>2. \A d \in Chans : Idle(d)' <=> Idle(d)
      BY <2>2 DEF WorkerStep, Idle
    <3> QED
      BY <2>2, <3>1, <3>2, FrameStep DEF WorkerStep
  <2>3. CASE Release(ch)
    <3>1. CASE mustStop /\ WorkerStep(ch, "release", "exit") /\ UNCHANGED ready
      BY <2>2, <3>1 DEF WorkerPCs
    <3>2. CASE WorkerStep(ch, "release", "recv") /\ ready' = Append(ready, ch)
      <4>1. buf[ch] = <<>> /\ ~Idle(ch)
        BY <3>2, SMTT(30) DEF WorkerStep, IInv, PoolShape, Idle
      <4>2. ch \notin Elems(ready) \cup Elems(scratch) /\ (apc = "send" => ach # ch)
        BY <4>1, SMTT(30) DEF IInv, OneHolder
      <4>3. Distinct(ready') /\ Elems(ready') = Elems(ready) \cup {ch}
        BY <3>2, <4>2, AppendElems, SMTT(30) DEF IInv, OneHolder
      <4>4. \A d \in Chans : Idle(d)' <=> Idle(d) \/ d = ch
        BY <3>2, <4>1, SMTT(30) DEF WorkerStep, Idle
      <4>5. OneHolder'
        <5>1. apc' = apc /\ ach' = ach /\ scratch' = scratch
          BY <3>2 DEF WorkerStep, accVars, cleanVars
        <5>2. {d \in Chans : Idle(d)}' = {d \in Chans : Idle(d)} \cup {ch}
          BY <4>4, ZenonT(30)
        <5> HIDE DEF TypeOK
        <5> QED
          BY <4>2, <4>3, <5>1, <5>2 DEF IInv, OneHolder
      <4>6. PoolShape'
        BY <3>2, <4>1, ZenonT(30) DEF WorkerStep, IInv, PoolShape
      <4> QED
        BY <4>5, <4>6, SMTT(30)
    <3> QED
      BY <2>3, <3>1, <3>2 DEF Release
  <2> QED
    BY <1>10, <2>1, <2>2, <2>3, SMTT(30)
       DEF Worker, WorkerFuncReturn, Uncount, CloseConn, ReleaseStamp, WorkerExit, PoolPut, WorkerPCs
<1>11. CASE Clean
  <2>1. CleanNum \in 0..Len(ready)
    BY <1>0, CleanNumBound
  <2> DEFINE k == CleanNum
  <2> HIDE DEF k
  <2>2. scratch' = SubSeq(ready, 1, k) /\ ready' = SubSeq(ready, k + 1, Len(ready))
    BY <1>11 DEF Clean, k
  <2>3. k \in 0..Len(ready)
    BY <2>1 DEF k
  <2>4. /\ Distinct(ready') /\ Distinct(scratch') /\ Elems(ready') \cap Elems(scratch') = {}
        /\ Elems(ready) = Elems(ready') \cup Elems(scratch')
    <3>1. ready \in Seq(Chans) /\ Distinct(ready)
      BY <1>0, SMTT(30) DEF TypeOK, IInv, OneHolder
    <3> QED
      BY ONLY <2>2, <2>3, <3>1, SplitElems, SMTT(30)
  <2>5. Elems(scratch) = {}
    <3>1. cpc = "clean"
      BY <1>11 DEF Clean, CleanerStep
    <3>2. scratch = <<>>
      BY <3>1 DEF IInv, PoolShape
    <3> QED
      BY ONLY <3>2 DEF Elems
  <2>6. cpc' # "notify" => scratch' = <<>>
    <3>1. cpc' # "notify" => k = 0
      BY <1>11 DEF Clean, CleanerStep, k
    <3> QED
      BY <1>0, <2>2, <3>1 DEF TypeOK
  <2>7. UNCHANGED <<apc, ach, wpc, buf, lockHeld>>
    BY <1>11 DEF Clean, CleanerStep
  <2>8. OneHolder'
    BY <2>4, <2>5, <2>7, SMTT(30) DEF IInv, OneHolder, Idle
  <2> QED
    BY <2>6, <2>7, <2>8 DEF IInv, PoolShape
<1>12. CASE CleanNotify
  <2>1. /\ Distinct(scratch') /\ Head(scratch) \in Chans /\ Head(scratch) \notin Elems(scratch')
        /\ Elems(scratch) = Elems(scratch') \cup {Head(scratch)}
    BY <1>0, <1>12, TailElems DEF CleanNotify, TypeOK, IInv, OneHolder
  <2>2. Idle(Head(scratch))
    BY <2>1 DEF IInv, OneHolder
  <2>3. /\ \A d \in Chans : Idle(d)' <=> Idle(d) /\ d # Head(scratch)
        /\ \A d \in Chans : wpc'[d] # "recv" => buf'[d] = <<>>
        /\ \A d \in Chans : AtMostOneMessage(buf'[d])
    BY <1>12, <2>1, <2>2, SendStep DEF CleanNotify
  <2>4. cpc' # "notify" => scratch' = <<>>
    <3>1. cpc' # "notify" => Len(scratch) = 1
      BY <1>12, SMTT(30) DEF CleanNotify, CleanerStep
    <3> QED
      <4>1. Len(scratch) = 1 => Len(scratch) <= 1
        OBVIOUS
      <4>2. scratch \in Seq(Chans) /\ scratch # <<>> /\ scratch' = Tail(scratch)
        BY <1>0, <1>12 DEF CleanNotify, TypeOK
      <4> QED
        BY <3>1, <4>1, <4>2, TailOfOne
  <2>5. PoolShape'
    BY <1>12, <2>3, <2>4, SMTT(30) DEF CleanNotify, CleanerStep, IInv, PoolShape
  <2>6. OneHolder'
    BY <1>12, <2>1, <2>3, SMTT(30) DEF CleanNotify, CleanerStep, IInv, OneHolder
  <2> QED
    BY <2>5, <2>6
<1>13. CASE CleanPoll
  BY <1>13, FrameStep, SMTT(30) DEF CleanPoll, CleanerStep, IInv, PoolShape, Idle
<1>14. CASE CleanWake
  BY <1>14, FrameStep, SMTT(30) DEF CleanWake, CleanerStep, IInv, PoolShape, Idle
<1>15. CASE Tick
  BY <1>15, FrameStep, SMTT(30) DEF Tick, IInv, PoolShape, Idle
<1>16. CASE UNCHANGED vars
  BY <1>16, FrameStep DEF vars, IInv, PoolShape, Idle
<1> QED
  BY <1>1, <1>2, <1>3, <1>4, <1>5, <1>6, <1>7, <1>8, <1>9, <1>10, <1>11, <1>12,
     <1>13, <1>14, <1>15, <1>16 DEF Next, Acceptor, Cleaner, Finished

LEMMA IInvInit == Init => IInv
<1> SUFFICES ASSUME Init PROVE IInv
  OBVIOUS
<1>1. Elems(<<>>) = {} /\ Distinct(<<>>)
  BY DEF Elems, Distinct
<1>2. AtMostOneMessage(<<>>)
  BY DEF AtMostOneMessage
<1>3. PoolShape
  BY <1>2 DEF Init, PoolShape
<1>4. OneHolder
  BY <1>1 DEF Init, OneHolder, Idle
<1> QED
  BY <1>3, <1>4, TypeInit DEF IInv

\* Each idle worker is held by exactly one of ready, scratch and the acceptor.
THEOREM HolderCorrect == Spec => [](PoolShape /\ OneHolder)
<1>1. Init => IInv
  BY IInvInit
<1>2. IInv /\ [Next]_vars => IInv'
  BY TypeStep, HolderStep DEF IInv
<1>3. IInv => PoolShape /\ OneHolder
  BY DEF IInv
<1> QED
  BY <1>1, <1>2, <1>3, PTL DEF Spec

\* A workerChan that its worker has left behind is empty, so workerChanPool
\* never hands a stale message to the next worker.
THEOREM PooledChanCorrect == Spec => []PooledChanEmpty
<1>1. PoolShape => PooledChanEmpty
  BY DEF PoolShape, PooledChanEmpty
<1> QED
  BY <1>1, HolderCorrect, PTL

\* No send on a buffered workerChan ever blocks, in particular not Stop's,
\* which is made under the lock.
THEOREM SendCorrect == Spec => []SendNeverBlocks
<1>1. TypeOK /\ PoolShape /\ OneHolder => SendNeverBlocks
  BY DEF PoolShape, OneHolder, SendNeverBlocks, Idle
<1> QED
  BY <1>1, HolderCorrect, TypeCorrect, PTL

\* The channels of the workers are sound, whatever goroutines send on them and when.
THEOREM ChannelsCorrect == Spec => []ChannelsSound
<1>1. TypeOK /\ PooledChanEmpty /\ SendNeverBlocks => ChannelsSound
  BY DEF ChannelsSound
<1> QED
  BY <1>1, TypeCorrect, PooledChanCorrect, SendCorrect, PTL
-----------------------------------------------------------------------------
(* The number of workers *)

Reserved == IF apc = "spawn" THEN 1 ELSE 0

\* How the number of live workers can change.
LEMMA LiveSame ==
  ASSUME Live' = Live, workersCount' = workersCount, Reserved' = Reserved, WorkersCountExact
  PROVE  WorkersCountExact'
BY DEF WorkersCountExact, Reserved

LEMMA LiveFinite == IsFiniteSet(Live) /\ Cardinality(Live) \in Nat
<1>1. IsFiniteSet(Live)
  BY WorkerPoolAssumption, FS_Subset DEF Live
<1> QED
  BY <1>1, FS_CardinalityType

LEMMA CountStep ==
  IInv /\ WorkersCountExact /\ [Next]_vars => WorkersCountExact'
<1> SUFFICES ASSUME IInv, WorkersCountExact, [Next]_vars PROVE WorkersCountExact'
  OBVIOUS
<1> USE DEF ReadyButNewest, ReadyButCleaned, HasRoom, poolVars, workerVars, accVars,
        cleanVars, connVars
<1>0. TypeOK
  BY DEF IInv
<1>1. ASSUME NEW c \in Conns, Accept(c) PROVE WorkersCountExact'
  BY <1>1, LiveSame DEF Accept, Live, Reserved
<1>2. CASE StopClose
  BY <1>2, LiveSame DEF StopClose, Live, Reserved
<1>3. CASE GetCh
  <2>1. Live' = Live /\ apc = "getCh"
    BY <1>3 DEF GetCh, Live
  <2>2. CASE apc' # "spawn" /\ UNCHANGED workersCount
    BY <2>1, <2>2, SMTT(30) DEF WorkersCountExact
  <2>3. CASE /\ apc' = "spawn"
             /\ workersCount < MaxWorkersCount
             /\ workersCount' = workersCount + 1
    BY <1>0, <2>1, <2>3, LiveFinite, WorkerPoolAssumption, SMTT(30) DEF WorkersCountExact, TypeOK
  <2> QED
    BY <1>3, <2>2, <2>3, SMTT(30) DEF GetCh
<1>4. ASSUME NEW ch \in Chans, Spawn(ch) PROVE WorkersCountExact'
  <2>1. Live' = Live \cup {ch} /\ ch \notin Live
    BY <1>0, <1>4 DEF Spawn, Live, TypeOK, WorkerPCs
  <2>2. Cardinality(Live') = Cardinality(Live) + 1
    BY <2>1, LiveFinite, FS_AddElement
  <2>3. apc = "spawn" /\ apc' = "send" /\ workersCount' = workersCount
    BY <1>4 DEF Spawn
  <2> QED
    BY <2>2, <2>3, LiveFinite, SMTT(30) DEF WorkersCountExact
<1>5. ASSUME NEW ch, NEW c, Receive(ch, c) PROVE Live' = Live
  BY <1>0, <1>5, SMTT(30) DEF Receive, Live, TypeOK
<1>6. ASSUME NEW ch, NEW c, ChanSend(ch, c) PROVE Live' = Live
  BY <1>5, <1>6 DEF ChanSend, Live
<1>7. CASE ServeSend
  BY <1>6, <1>7, LiveSame DEF ServeSend, Reserved
<1>8. CASE Reject
  BY <1>8, LiveSame DEF Reject, Live, Reserved
<1>9. CASE StopLock
  BY <1>9, LiveSame DEF StopLock, Live, Reserved
<1>10. CASE StopSend
  BY <1>6, <1>10, LiveSame DEF StopSend, Reserved
<1>11. CASE StopUnlock
  BY <1>11, LiveSame DEF StopUnlock, Live, Reserved
<1>12. ASSUME NEW ch \in Chans, Worker(ch) PROVE WorkersCountExact'
  <2>1. CASE WorkerRecv(ch)
    BY <1>5, <2>1, LiveSame DEF WorkerRecv, Reserved
  <2>2. ASSUME NEW from \in WorkerPCs \ {"none", "put"}, NEW to \in WorkerPCs \ {"none", "put"},
               WorkerStep(ch, from, to), UNCHANGED workersCount
        PROVE  WorkersCountExact'
    <3>1. Live' = Live
      BY <1>0, <2>2, SMTT(30) DEF WorkerStep, Live, TypeOK
    <3> QED
      BY <2>2, <3>1, LiveSame, SMTT(30) DEF WorkerStep, Reserved
  <2>3. CASE WorkerExit(ch)
    <3>1. Live' = Live \ {ch} /\ ch \in Live
      BY <1>0, <2>3 DEF WorkerExit, WorkerStep, Live, TypeOK
    <3>2. Cardinality(Live') = Cardinality(Live) - 1
      BY <3>1, LiveFinite, FS_RemoveElement
    <3>3. apc' = apc /\ workersCount' = workersCount - 1
      BY <2>3 DEF WorkerExit, WorkerStep
    <3> QED
      BY <1>0, <3>2, <3>3, LiveFinite, WorkerPoolAssumption, SMTT(30) DEF WorkersCountExact, TypeOK
  <2>4. CASE PoolPut(ch)
    <3>1. Live' = Live
      BY <1>0, <2>4 DEF PoolPut, WorkerStep, Live, TypeOK
    <3> QED
      BY <2>4, <3>1, LiveSame, SMTT(30) DEF PoolPut, WorkerStep, Reserved
  <2>5. CASE WorkerFuncReturn(ch) \/ Uncount(ch) \/ ReleaseStamp(ch)
    BY <2>2, <2>5 DEF WorkerFuncReturn, Uncount, ReleaseStamp, WorkerPCs
  <2>6. ASSUME NEW how, CloseConn(ch, how) PROVE WorkersCountExact'
    BY <2>2, <2>6 DEF CloseConn, WorkerPCs
  <2>7. CASE Release(ch)
    BY <2>2, <2>7 DEF Release, WorkerPCs
  <2> QED
    BY <1>12, <2>1, <2>3, <2>4, <2>5, <2>6, <2>7, SMTT(30) DEF Worker
<1>13. CASE Clean
  BY <1>13, LiveSame DEF Clean, CleanerStep, Live, Reserved
<1>14. CASE CleanNotify
  BY <1>6, <1>14, LiveSame, SMTT(30) DEF CleanNotify, CleanerStep, Reserved
<1>15. CASE CleanPoll \/ CleanWake
  BY <1>15, LiveSame DEF CleanPoll, CleanWake, CleanerStep, Live, Reserved
<1>16. CASE Tick
  BY <1>16, LiveSame DEF Tick, Live, Reserved
<1>17. CASE UNCHANGED vars
  BY <1>17, LiveSame DEF vars, Live, Reserved
<1> QED
  BY SMTT(30), <1>1, <1>2, <1>3, <1>4, <1>7, <1>8, <1>9, <1>10, <1>11, <1>12, <1>13, <1>14,
     <1>15, <1>16, <1>17 DEF Next, Acceptor, Cleaner, Finished

\* workersCount counts the live workers and stays within MaxWorkersCount.
THEOREM CountCorrect == Spec => []WorkersCountExact
<1>1. Init => IInv /\ WorkersCountExact
  <2> SUFFICES ASSUME Init PROVE WorkersCountExact
    BY IInvInit
  <2>1. Live = {}
    BY DEF Init, Live
  <2> QED
    BY <2>1, FS_EmptySet, WorkerPoolAssumption DEF Init, WorkersCountExact
<1>2. IInv /\ WorkersCountExact /\ [Next]_vars => IInv' /\ WorkersCountExact'
  BY TypeStep, HolderStep, CountStep DEF IInv
<1> QED
  BY <1>1, <1>2, PTL DEF Spec
=============================================================================
