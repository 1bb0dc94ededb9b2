------------------------ MODULE MadCharIoData_proof ------------------------
(***************************************************************************)
(* With synchronous calls only, whose data the shared buffers hold, and    *)
(* the safety part of the refinement: the i/o path carries out one i/o at  *)
(* a time.  Both rest on the inductive invariant of MadCharIoInv_proof.    *)
(***************************************************************************)
EXTENDS MadCharIoInv_proof

USE DEF callerVars, queueVars, bufrVars, devVars, dpcVars

\* A caller at the device whose data has been moved is in one of the phases
\* after the transfer.
LEMMA MovedPhase ==
  ASSUME IInv, NEW p \in Callers, pc[p] \in {"release", "wait"}
  PROVE  /\ Armed(p) \/ PickedUp(p) => ~DataMoved(p)
         /\ \/ Armed(p) /\ Queue(p) = "eIoPending"
            \/ PickedUp(p) /\ Queue(p) = "eIoPending"
            \/ Raised(p) /\ Queue(p) = "eIoPending"
            \/ Scheduled(p) /\ Queue(p) = "eIoPending"
            \/ Resetting(p) /\ Queue(p) = "eIoPending"
            \/ Answered(p) /\ Quiet
<1>1. \/ Armed(p) /\ Queue(p) = "eIoPending"
      \/ PickedUp(p) /\ Queue(p) = "eIoPending"
      \/ Raised(p) /\ Queue(p) = "eIoPending"
      \/ Scheduled(p) /\ Queue(p) = "eIoPending"
      \/ Resetting(p) /\ Queue(p) = "eIoPending"
      \/ Answered(p) /\ Quiet
  BY DEF IInv, PhaseInv, Phase, QueueInv, Answered
<1>2. Armed(p) \/ PickedUp(p) => ~DataMoved(p)
  <2>1. Answered(p) => Quiet /\ Tells(IntRegState, p)
    BY DEF IInv, PhaseInv, Phase
  <2>2. CASE Armed(p)
    <3>1. ~Quiet
      BY <2>2 DEF Armed, Quiet
    <3> QED
      BY <2>1, <2>2, <3>1 DEF Armed, DataMoved
  <2>3. CASE PickedUp(p)
    <3>1. ~Quiet
      BY <2>3 DEF PickedUp, Quiet
    <3> QED
      BY <2>1, <2>3, <3>1 DEF PickedUp, DataMoved
  <2> QED
    BY <2>2, <2>3
<1> QED
  BY <1>1, <1>2

\* The device thread moves data for the one caller at the device.
LEMMA TransferFor ==
  ASSUME IInv, DevTransfer
  PROVE  \E p \in Callers :
           /\ pc[p] \in {"release", "wait"} /\ PickedUp(p) /\ Queue(p) = "eIoPending"
           /\ \A q \in Callers : q # p => ~Holding(q) /\ pc[q] \notin AtDevice
<1>1. ~Quiet
  BY DEF DevTransfer, Quiet
<1>2. PICK p \in Callers :
        /\ pc[p] \in AtDevice /\ Queue(p) = "eIoPending" /\ Phase(p)
        /\ \A q \in Callers : q # p => ~Holding(q) /\ pc[q] \notin AtDevice /\ pc[q] # "prog"
  BY <1>1, SomeoneAtDevice DEF IInv
<1>3. pc[p] # "go" /\ PickedUp(p)
  BY <1>2 DEF DevTransfer, Phase, AtDevice, Armed, PickedUp, Raised, Scheduled, Resetting
<1> QED
  BY <1>2, <1>3 DEF AtDevice

\* No other step of the device thread or the DPC moves data, and none of them
\* turns an i/o that was not moved into one that was.
LEMMA MovedStays ==
  ASSUME IInv, (DevStep /\ ~DevTransfer) \/ DpcStep, NEW p \in Callers
  PROVE  /\ UNCHANGED <<pc, req, bufrVars>>
         /\ DataMoved(p)' <=> DataMoved(p)
<1>1. UNCHANGED <<pc, req, bufrVars>>
  BY DEF DevStep, DpcStep, DevPoll, DevNop, DevSequenceError, DevPickUp, DevTransfer, DevIsr,
     DpcReset, DpcWake
<1>2. CASE pc[p] \notin {"release", "wait"}
  BY <1>1, <1>2 DEF DataMoved
<1>3. CASE pc[p] \in {"release", "wait"}
  <2>1. \/ Armed(p) /\ Queue(p) = "eIoPending"
        \/ PickedUp(p) /\ Queue(p) = "eIoPending"
        \/ Raised(p) /\ Queue(p) = "eIoPending"
        \/ Scheduled(p) /\ Queue(p) = "eIoPending"
        \/ Resetting(p) /\ Queue(p) = "eIoPending"
        \/ Answered(p) /\ Quiet
    BY <1>3, MovedPhase
  <2>2. CASE DevPoll \/ DevNop \/ DevSequenceError \/ DevPickUp
    <3>1. UNCHANGED <<io_f, dpcSched, dpc>> /\ dev # "isr" /\ dev' # "isr"
      BY <2>2 DEF DevPoll, DevNop, DevSequenceError, DevPickUp
    <3> QED
      BY <1>1, <3>1 DEF DataMoved, Answered, Queue
  <2>3. CASE DevIsr
    <3>1. Raised(p) /\ dev = "isr"
      BY <2>1, <2>3 DEF DevIsr, Armed, PickedUp, Scheduled, Resetting, Quiet
    <3>2. dpcSched'
      <4>1. regs.IntID # {} /\ dpcSched' = (dpcSched \/ regs.IntID # {})
        BY <2>3, <3>1 DEF DevIsr, Raised, Tells
      <4> QED
        BY <4>1
    <3> QED
      BY <1>1, <1>3, <3>1, <3>2 DEF DataMoved
  <2>4. CASE DpcReset
    BY <1>1, <1>3, <2>4 DEF DpcReset, DataMoved
  <2>5. CASE DpcWake
    <3>1. Resetting(p) /\ dpc
      BY <2>1, <2>5 DEF DpcWake, Armed, PickedUp, Raised, Scheduled, Quiet
    <3>2. pc[p] = "wait"
      BY <1>3, <2>1, <3>1 DEF IInv, PhaseInv, Phase, Answered, Armed, PickedUp, Raised, Resetting
    <3>3. IntRegState.IntID = {IntBit[req[p].dir]} /\ ~IsIoctl(IntRegState)
      BY <3>1 DEF Resetting, Tells
    <3>4. req[p].dir \in Dir
      BY DirOf DEF IInv
    <3>5. Completes(req[p].dir) /\ \A q \in IoQueues : Completes(q) => q = req[p].dir
      BY <2>1, <3>1, <3>3, <3>4 DEF Completes, Reported, IntBit, Dir, Queue, Quiet, Resetting
    <3>6. io_f' = [io_f EXCEPT ![req[p].dir] = IoErrno(StatusErrno(IntRegState))]
      BY <2>5, <3>4, <3>5 DEF DpcWake, IoQueues
    <3>7. IoErrno(StatusErrno(IntRegState)) # "eIoPending"
      BY StatusErrnoType DEF IoErrno, DeviceErrno
    <3>8. Answered(p)'
      BY <1>1, <3>2, <3>4, <3>6, <3>7 DEF Answered, Queue, IInv, TypeOK, IoQueues
    <3> QED
      BY <1>1, <1>3, <3>1, <3>8 DEF DataMoved
  <2> QED
    BY <2>2, <2>3, <2>4, <2>5 DEF DevStep, DpcStep
<1> QED
  BY <1>2, <1>3

\* A step of a caller leaves the device and the DPC alone; it moves the data of
\* no caller, its own included.
LEMMA MovedCaller ==
  ASSUME IInv, NEW p \in Callers, CallerStep(p) \/ (\E r \in Request : Call(p, r)),
         NEW q \in Callers
  PROVE  DataMoved(q)' => DataMoved(q)
<1>a. TypeOK
  BY DEF IInv
<1>b. UNCHANGED <<dev, dpcSched, dpc>>
  BY DEF CallerStep, Call, LockDevmutex, Refuse, QueueIsFree, FillOutBufr, FillFault, SetPending,
     ProgramIo, SetGo, ReleaseDevlock, WaitOk, WaitError, LateQueueReset, CopyToCaller,
     UnlockDevmutex
<1>0. SUFFICES ASSUME DataMoved(q)' PROVE DataMoved(q)
  OBVIOUS
<1>1. pc'[q] \in {"release", "wait"}
  BY <1>0 DEF DataMoved
<1>2. CASE SetGo(p)
  <2>1. pc[p] = "go" /\ Armed(p) /\ pc'[p] = "release"
    BY <1>a, <1>2, GotoFrame DEF SetGo, IInv, PhaseInv, Phase
  <2>2. \A r \in Callers : r # p => pc'[r] = pc[r] /\ pc[r] \notin AtDevice
    BY <1>a, <1>2, <2>1, GotoFrame, OthersAway, AtDeviceHolds DEF SetGo, IInv, AtDevice
  <2>3. q = p
    BY <1>1, <2>2 DEF AtDevice
  <2> QED
    BY <1>0, <1>b, <2>1, <2>3 DEF DataMoved, Armed, Answered
<1>3. CASE ReleaseDevlock(p)
  <2>1. /\ pc[p] = "release" /\ req' = req /\ io_f' = io_f
        /\ \A r \in Callers : r # p => pc'[r] = pc[r]
    BY <1>a, <1>3, GotoFrame DEF ReleaseDevlock
  <2>2. Queue(p) = "eIoPending"
    BY <2>1 DEF IInv, QueueInv
  <2> QED
    BY <1>0, <1>b, <2>1, <2>2 DEF DataMoved, Answered, Queue
<1>4. CASE CallerStep(p) /\ ~SetGo(p) /\ ~ReleaseDevlock(p)
  <2>1. PICK l \in Pc \ {"release", "wait"} : Goto(p, l)
    BY <1>4 DEF CallerStep, LockDevmutex, Refuse, QueueIsFree, FillOutBufr, FillFault,
       SetPending, ProgramIo, WaitOk, WaitError, LateQueueReset, CopyToCaller, UnlockDevmutex,
       Exit, Pc
  <2>2. q # p /\ pc'[q] = pc[q] /\ req'[q] = req[q]
    BY <1>a, <1>1, <2>1, GotoFrame
  <2>3. io_f' = io_f \/ Holding(p)
    BY <1>4 DEF CallerStep, LockDevmutex, Refuse, QueueIsFree, FillOutBufr, FillFault,
       SetPending, ProgramIo, WaitOk, WaitError, LateQueueReset, CopyToCaller, UnlockDevmutex,
       Holding, AtDevice, IInv, QueueInv
  <2>4. Holding(q)
    BY <1>1, <2>2, AtDeviceHolds DEF AtDevice
  <2>5. io_f' = io_f
    BY <2>2, <2>3, <2>4, OnlyHolder DEF IInv
  <2> QED
    BY <1>0, <1>b, <2>2, <2>5 DEF DataMoved, Answered, Queue
<1>5. CASE \E r \in Request : Call(p, r)
  <2>1. /\ io_f' = io_f /\ pc'[p] \notin {"release", "wait"}
        /\ \A r \in Callers : r # p => pc'[r] = pc[r] /\ req'[r] = req[r]
    BY <1>a, <1>5 DEF Call, TypeOK
  <2> QED
    BY <1>0, <1>1, <1>b, <2>1 DEF DataMoved, Answered, Queue
<1> QED
  BY <1>2, <1>3, <1>4, <1>5

-----------------------------------------------------------------------------
\* What a step of a caller does to the shared buffers and to its own place: it
\* writes them only under the mutex, and no other caller moves.
LEMMA BufrCaller ==
  ASSUME Modes \subseteq {"sync"}, IInv, DataInv, NEW p \in Callers,
         CallerStep(p) \/ (\E r \in Request : Call(p, r))
  PROVE  /\ accepted' = accepted
         /\ inBufr' = inBufr \/ (pc[p] = "pend" /\ pc'[p] = "prog")
         /\ outBufr' = outBufr \/ (pc[p] = "fill" /\ (outBufr' = p \/ pc'[p] = "unlock"))
         /\ \A q \in Callers : q # p => pc'[q] = pc[q] /\ req'[q] = req[q]
         /\ Sync(p)'
         /\ pc'[p] \in {"pend", "prog", "copy"} \cup AtDevice => req'[p] = req[p]
         /\ pc'[p] = "pend" => (pc[p] = "fill" /\ outBufr' = p) \/ req[p].dir = "rd"
         /\ pc'[p] \in {"prog"} \cup AtDevice => pc[p] \in {"pend", "prog"} \cup AtDevice
         /\ pc'[p] = "copy" => Answered(p) /\ req[p].dir = "rd"
<1>a. TypeOK /\ Sync(p) /\ pc[p] # "reset_f" /\ NoRequest.mode = "sync"
  BY DEF IInv, DataInv, QueueInv, NoRequest
<1> USE DEF AtDevice, Sync
<1>0. CASE \E r \in Request : Call(p, r)
  BY <1>a, <1>0 DEF Call, Sent, TypeOK
<1>g. ASSUME NEW l, Goto(p, l)
      PROVE  /\ pc'[p] = l /\ Sync(p)'
             /\ \A q \in Callers : q # p => pc'[q] = pc[q] /\ req'[q] = req[q]
             /\ l # "idle" => req' = req
  <2>1. Sync(p)'
    BY <1>a, <1>g DEF Goto, TypeOK
  <2> QED
    BY <1>a, <1>g, <2>1, GotoFrame
<1>1. CASE LockDevmutex(p)
  BY <1>a, <1>1, <1>g DEF LockDevmutex
<1>2. CASE Refuse(p)
  BY <1>a, <1>2, <1>g DEF Refuse, Exit
<1>3. CASE QueueIsFree(p)
  <2>1. req[p].dir \in {"rd", "wr"}
    BY <1>a, DirOf DEF Dir
  <2> QED
    BY <1>a, <1>3, <1>g, <2>1 DEF QueueIsFree
<1>4. CASE FillOutBufr(p)
  BY <1>a, <1>4, <1>g DEF FillOutBufr
<1>5. CASE FillFault(p)
  BY <1>a, <1>5, <1>g DEF FillFault, Exit
<1>6. CASE SetPending(p)
  BY <1>a, <1>6, <1>g DEF SetPending
<1>7. CASE ProgramIo(p)
  BY <1>7, <1>g DEF ProgramIo
<1>8. CASE SetGo(p)
  BY <1>8, <1>g DEF SetGo
<1>9. CASE ReleaseDevlock(p)
  BY <1>9, <1>g DEF ReleaseDevlock
<1>10. CASE WaitOk(p)
  BY <1>a, <1>10, <1>g DEF WaitOk, Exit, Answered
<1>11. CASE WaitError(p)
  BY <1>a, <1>11, <1>g DEF WaitError, Exit
<1>12. CASE LateQueueReset(p)
  BY <1>a, <1>12 DEF LateQueueReset
<1>13. CASE CopyToCaller(p)
  BY <1>a, <1>13, <1>g DEF CopyToCaller, Exit
<1>14. CASE UnlockDevmutex(p)
  BY <1>14, <1>g DEF UnlockDevmutex
<1> QED
  BY <1>0, <1>1, <1>2, <1>3, <1>4, <1>5, <1>6, <1>7, <1>8, <1>9, <1>10, <1>11, <1>12,
     <1>13, <1>14 DEF CallerStep

\* Only the holder of the mutex writes a buffer, and it writes its own.
LEMMA DataCaller ==
  ASSUME Modes \subseteq {"sync"}, IInv, DataInv, NEW p \in Callers,
         CallerStep(p) \/ (\E r \in Request : Call(p, r))
  PROVE  DataInv'
<1>1. /\ accepted' = accepted
      /\ inBufr' = inBufr \/ (pc[p] = "pend" /\ pc'[p] = "prog")
      /\ outBufr' = outBufr \/ (pc[p] = "fill" /\ (outBufr' = p \/ pc'[p] = "unlock"))
      /\ \A q \in Callers : q # p => pc'[q] = pc[q] /\ req'[q] = req[q]
      /\ Sync(p)'
      /\ pc'[p] \in {"pend", "prog", "copy"} \cup AtDevice => req'[p] = req[p]
      /\ pc'[p] = "pend" => (pc[p] = "fill" /\ outBufr' = p) \/ req[p].dir = "rd"
      /\ pc'[p] \in {"prog"} \cup AtDevice => pc[p] \in {"pend", "prog"} \cup AtDevice
      /\ pc'[p] = "copy" => Answered(p) /\ req[p].dir = "rd"
  BY BufrCaller
<1>2. ASSUME NEW q \in Callers
      PROVE  Sync(q)'
  BY <1>1 DEF DataInv, Sync
<1>3. pc[p] \in {"pend", "fill"} => \A q \in Callers : q # p => ~Holding(q)
  BY OthersAway DEF IInv, DataInv, Holding
<1>4. ASSUME NEW q \in Callers, pc'[q] \in {"pend", "prog"} \cup AtDevice, req'[q].dir = "wr"
      PROVE  outBufr' = q
  <2>1. CASE q = p
    <3>1. CASE pc'[p] = "pend"
      BY <1>1, <1>4, <2>1, <3>1
    <3>2. CASE pc'[p] # "pend"
      BY <1>1, <1>4, <2>1, <3>2 DEF DataInv, AtDevice
    <3> QED
      BY <3>1, <3>2
  <2>2. CASE q # p
    <3>1. Holding(q) /\ outBufr = q
      BY <1>1, <1>4, <2>2 DEF DataInv, Holding
    <3> QED
      BY <1>1, <1>3, <2>2, <3>1
  <2> QED
    BY <2>1, <2>2
<1>5. ASSUME NEW q \in Callers, DataMoved(q)'
      PROVE  IF req'[q].dir = "rd" THEN inBufr' = q ELSE accepted' = q
  <2>1. DataMoved(q) /\ pc[q] \in {"release", "wait"}
    BY <1>5, MovedCaller DEF DataMoved
  <2>2. req'[q] = req[q]
    BY <1>1, <1>5 DEF DataMoved, AtDevice
  <2>3. inBufr' = inBufr
    BY <1>1, <1>3, <2>1 DEF Holding, AtDevice
  <2> QED
    BY <1>1, <2>1, <2>2, <2>3 DEF DataInv
<1>6. ASSUME NEW q \in Callers, pc'[q] = "copy"
      PROVE  inBufr' = q
  <2>1. CASE q = p
    <3>1. Answered(p) /\ req[p].dir = "rd" /\ pc[p] = "wait"
      BY <1>1, <1>6, <2>1 DEF Answered
    <3> QED
      BY <1>1, <2>1, <3>1 DEF DataInv, DataMoved
  <2>2. CASE q # p
    <3>1. Holding(q) /\ inBufr = q
      BY <1>1, <1>6, <2>2 DEF DataInv, Holding
    <3> QED
      BY <1>1, <1>3, <2>2, <3>1
  <2> QED
    BY <2>1, <2>2
<1> QED
  BY <1>2, <1>4, <1>5, <1>6 DEF DataInv

\* The transfer gives a read the buffer of its caller and takes the data of the
\* caller of a write.
LEMMA DataTransfer ==
  ASSUME IInv, DataInv, DevTransfer
  PROVE  DataInv'
<1>1. PICK p \in Callers :
        /\ pc[p] \in {"release", "wait"} /\ PickedUp(p) /\ Queue(p) = "eIoPending"
        /\ \A q \in Callers : q # p => ~Holding(q) /\ pc[q] \notin AtDevice
  BY TransferFor
<1>2. /\ UNCHANGED <<pc, req, outBufr>>
      /\ iotype = req[p].dir /\ regs.HostPA = p /\ req[p].dir \in Dir
      /\ \/ iotype = "rd" /\ inBufr' = regs.HostPA /\ UNCHANGED accepted
         \/ iotype = "wr" /\ accepted' = outBufr /\ UNCHANGED inBufr
  BY <1>1, DirOf DEF DevTransfer, PickedUp, IInv
<1>3. req[p].dir = "wr" => outBufr = p
  BY <1>1 DEF DataInv, AtDevice
<1>4. ASSUME NEW q \in Callers, DataMoved(q)'
      PROVE  IF req'[q].dir = "rd" THEN inBufr' = q ELSE accepted' = q
  <2>1. q = p
    BY <1>1, <1>2, <1>4 DEF DataMoved, AtDevice
  <2> QED
    BY <1>2, <1>3, <2>1 DEF Dir
<1>5. ASSUME NEW q \in Callers, pc[q] = "copy"
      PROVE  FALSE
  BY <1>1, <1>5 DEF DataInv, Holding
<1> QED
  BY <1>2, <1>4, <1>5 DEF DataInv, Sync

LEMMA DataInvStep ==
  ASSUME Modes \subseteq {"sync"}
  PROVE  IInv /\ DataInv /\ [Next]_vars => DataInv'
<1> SUFFICES ASSUME IInv, DataInv, [Next]_vars PROVE DataInv'
  OBVIOUS
<1>1. CASE UNCHANGED vars
  BY <1>1 DEF vars, DataInv, DataMoved, Answered, Queue, Sync
<1>2. CASE (DevStep /\ ~DevTransfer) \/ DpcStep
  BY <1>2, MovedStays DEF DataInv, Sync
<1> QED
  BY <1>1, <1>2, DataCaller, DataTransfer DEF Next

LEMMA DataInvInit == Init => DataInv
BY DEF Init, DataInv, DataMoved, Sync, AtDevice, NoRequest

\* With synchronous calls the shared buffers hold the data of the caller whose
\* i/o uses them (maddevcio.c:42-112, 196-270).
THEOREM DataInvariance ==
  ASSUME Modes \subseteq {"sync"}
  PROVE  Spec => []DataInv
BY IInvInit, IInvStep, DataInvInit, DataInvStep, PTL DEF Spec

\* With synchronous calls a read returns the data the device moved for it, and
\* the device takes the data of the write it carries out, although all callers
\* share two buffers (maddevcio.c:42-112, 196-270).
THEOREM OnlyOwnData ==
  ASSUME Modes \subseteq {"sync"}
  PROVE  Spec => []OwnDataOnly
<1>1. DataInv => OwnDataOnly
  BY DEF DataInv, DataMoved, Answered, OwnDataOnly
<1> QED
  BY <1>1, DataInvariance, PTL

-----------------------------------------------------------------------------
(***************************************************************************)
(* The safety part of the refinement of MadSerialIo: every step of the i/o *)
(* path begins, moves or finishes the one i/o, or is a stutter.            *)
(***************************************************************************)
\* Nobody's i/o is under way.
LEMMA ViewIdle ==
  ASSUME \A p \in Callers : pc[p] \notin {"release", "wait"}
  PROVE  SerialView = Serial!NoIo
BY DEF SerialView, Begun, Serial!NoIo

\* The i/o of p is under way, and it is the only one.
LEMMA ViewBusy ==
  \A p \in Callers : IInv /\ pc[p] \in {"release", "wait"} =>
    SerialView = [caller |-> p, dir |-> req[p].dir, moved |-> DataMoved(p)]
<1> SUFFICES ASSUME NEW p \in Callers, IInv, pc[p] \in {"release", "wait"}
             PROVE  SerialView = [caller |-> p, dir |-> req[p].dir, moved |-> DataMoved(p)]
  OBVIOUS
<1>1. \A q \in Callers : q # p => pc[q] \notin {"release", "wait"}
  BY OthersAway, AtDeviceHolds DEF IInv, AtDevice
<1>2. Begun = {p}
  BY <1>1 DEF Begun
<1>3. (CHOOSE q \in Begun : TRUE) = p
  BY <1>2
<1>4. DataMoved(p) = (dev = "isr" \/ dpcSched \/ dpc \/ Answered(p))
  BY DEF DataMoved
<1> QED
  BY <1>2, <1>3, <1>4 DEF SerialView

\* The same of the state after a step.
LEMMA ViewBusyNext ==
  (\A p \in Callers : IInv /\ pc[p] \in {"release", "wait"} =>
     SerialView = [caller |-> p, dir |-> req[p].dir, moved |-> DataMoved(p)])'
BY ViewBusy, PTL

\* A step that keeps who has begun, its request and whether its data is moved
\* is a stutter of the abstract io.
LEMMA ViewFrame ==
  ASSUME IInv, IInv',
         \A p \in Callers :
           /\ pc'[p] \in {"release", "wait"} <=> pc[p] \in {"release", "wait"}
           /\ pc[p] \in {"release", "wait"} =>
                req'[p] = req[p] /\ (DataMoved(p)' <=> DataMoved(p))
  PROVE  SerialView' = SerialView
<1>1. CASE \E p \in Callers : pc[p] \in {"release", "wait"}
  <2>1. PICK p \in Callers : pc[p] \in {"release", "wait"}
    BY <1>1
  <2>2. SerialView = [caller |-> p, dir |-> req[p].dir, moved |-> DataMoved(p)]
    BY <2>1, ViewBusy
  <2>3. pc'[p] \in {"release", "wait"}
    BY <2>1
  <2>4. SerialView' = [caller |-> p, dir |-> req'[p].dir, moved |-> DataMoved(p)']
    BY <2>3, ViewBusyNext
  <2>5. DataMoved(p)' = DataMoved(p)
    BY <2>1 DEF DataMoved
  <2> QED
    BY <2>1, <2>2, <2>4, <2>5
<1>2. CASE \A p \in Callers : pc[p] \notin {"release", "wait"}
  <2>1. SerialView = Serial!NoIo /\ SerialView' = Serial!NoIo'
    BY <1>2 DEF SerialView, Begun, Serial!NoIo
  <2> QED
    BY <2>1 DEF Serial!NoIo
<1> QED
  BY <1>1, <1>2

\* The go bit begins the i/o of its caller; nobody's is under way before.
LEMMA GoBegins ==
  ASSUME IInv, IInv', NEW p \in Callers, SetGo(p)
  PROVE  Serial!Next
<1>1. /\ pc[p] = "go" /\ Armed(p) /\ pc'[p] = "release" /\ req' = req /\ accepted' = accepted
      /\ UNCHANGED <<dev, dpcSched, dpc>>
  BY GotoFrame DEF SetGo, IInv, PhaseInv, Phase
<1>2. \A q \in Callers : pc[q] \notin {"release", "wait"}
  BY <1>1, OthersAway, AtDeviceHolds DEF IInv, AtDevice
<1>3. SerialView = Serial!NoIo
  BY <1>2, ViewIdle
<1>4. DataMoved(p)' = FALSE
  BY <1>1 DEF DataMoved, Armed, Answered
<1>5. SerialView' = [caller |-> p, dir |-> req[p].dir, moved |-> FALSE]
  BY <1>1, <1>4, ViewBusyNext
<1>6. req[p].dir \in {"rd", "wr"}
  BY DirOf DEF IInv, Dir
<1> QED
  BY <1>1, <1>3, <1>5, <1>6 DEF Serial!Next, Serial!Begin

\* Marking the abstract io as moved changes nothing else of it.
LEMMA MarkMoved ==
  ASSUME NEW r \in Serial!Io
  PROVE  [r EXCEPT !.moved = TRUE] = [caller |-> r.caller, dir |-> r.dir, moved |-> TRUE]
<1> USE DEF Serial!Io
<1> DEFINE marked == [r EXCEPT !.moved = TRUE]
<1> DEFINE other == [caller |-> r.caller, dir |-> r.dir, moved |-> TRUE]
<1>1. marked \in Serial!Io /\ other \in Serial!Io
  OBVIOUS
<1>2. marked.caller = other.caller /\ marked.dir = other.dir /\ marked.moved = other.moved
  OBVIOUS
<1> HIDE DEF marked, other
<1>3. marked = other
  BY <1>1, <1>2
<1> QED
  BY <1>3 DEF marked, other

\* The transfer moves the data of the i/o under way, once.
LEMMA TransferMoves ==
  ASSUME IInv, IInv', DataInv, DevTransfer
  PROVE  Serial!Next
<1>1. PICK p \in Callers :
        /\ pc[p] \in {"release", "wait"} /\ PickedUp(p) /\ Queue(p) = "eIoPending"
        /\ \A q \in Callers : q # p => ~Holding(q) /\ pc[q] \notin AtDevice
  BY TransferFor
<1>2. /\ UNCHANGED <<pc, req>> /\ dev' = "isr"
      /\ iotype = req[p].dir /\ regs.HostPA = p /\ req[p].dir \in Dir
      /\ \/ iotype = "rd" /\ UNCHANGED accepted
         \/ iotype = "wr" /\ accepted' = outBufr
  BY <1>1, DirOf DEF DevTransfer, PickedUp, IInv
<1>3. DataMoved(p) = FALSE /\ DataMoved(p)' = TRUE
  BY <1>1, <1>2, MovedPhase DEF DataMoved
<1>4. SerialView = [caller |-> p, dir |-> req[p].dir, moved |-> FALSE]
  BY <1>1, <1>3, ViewBusy
<1>5. SerialView' = [caller |-> p, dir |-> req[p].dir, moved |-> TRUE]
  BY <1>1, <1>2, <1>3, ViewBusyNext
<1>6. req[p].dir = "wr" => outBufr = p
  BY <1>1 DEF DataInv, AtDevice
<1>7. SerialView # Serial!NoIo
  BY <1>4, NoCallerAssumption DEF Serial!NoIo
<1>8. accepted' = IF req[p].dir = "wr" THEN p ELSE accepted
  BY <1>2, <1>6 DEF Dir
<1>9. SerialView' = [SerialView EXCEPT !.moved = TRUE] /\ ~SerialView.moved
  <2>1. SerialView \in Serial!Io
    BY <1>2, <1>4 DEF Serial!Io, Dir
  <2>2. [SerialView EXCEPT !.moved = TRUE]
          = [caller |-> SerialView.caller, dir |-> SerialView.dir, moved |-> TRUE]
    BY <2>1, MarkMoved
  <2>3. SerialView.caller = p /\ SerialView.dir = req[p].dir /\ ~SerialView.moved
    BY <1>4
  <2> QED
    BY <1>5, <2>2, <2>3
<1>10. accepted' = IF SerialView.dir = "wr" THEN SerialView.caller ELSE accepted
  BY <1>4, <1>8
<1> QED
  BY <1>7, <1>9, <1>10 DEF Serial!Next, Serial!Transfer

\* The caller that takes its result finishes its i/o, whose data is moved.
LEMMA WaitFinishes ==
  ASSUME IInv, IInv', NEW p \in Callers, WaitOk(p) \/ WaitError(p)
  PROVE  Serial!Next
<1>1. pc[p] = "wait" /\ Answered(p) /\ accepted' = accepted
  BY DEF WaitOk, WaitError, Answered
<1>2. pc'[p] \notin {"release", "wait"} /\ \A q \in Callers : q # p => pc'[q] = pc[q]
  <2>1. CASE WaitOk(p)
    BY <2>1, GotoFrame DEF WaitOk, Exit, IInv
  <2>2. CASE WaitError(p)
    BY <2>2, GotoFrame DEF WaitError, Exit, IInv
  <2> QED
    BY <2>1, <2>2
<1>3. \A q \in Callers : q # p => pc[q] \notin {"release", "wait"}
  BY <1>1, OthersAway, AtDeviceHolds DEF IInv, AtDevice
<1>4. SerialView' = Serial!NoIo
  <2>1. \A q \in Callers : pc'[q] \notin {"release", "wait"}
    BY <1>2, <1>3
  <2> QED
    BY <2>1 DEF SerialView, Begun, Serial!NoIo
<1>5. DataMoved(p) = TRUE
  BY <1>1 DEF DataMoved
<1>6. SerialView.moved = TRUE
  BY <1>1, <1>5, ViewBusy
<1> QED
  BY <1>1, <1>4, <1>6 DEF Serial!Next, Serial!Finish

\* Every other step of a caller leaves the abstract device alone.
LEMMA CallerStutters ==
  ASSUME Modes \subseteq {"sync"}, IInv, IInv', DataInv, NEW p \in Callers,
         CallerStep(p) \/ (\E r \in Request : Call(p, r)),
         ~SetGo(p), ~WaitOk(p), ~WaitError(p)
  PROVE  UNCHANGED Serial!vars
<1>1. /\ accepted' = accepted
      /\ \A q \in Callers : q # p => pc'[q] = pc[q] /\ req'[q] = req[q]
      /\ pc'[p] \in {"pend", "prog", "copy"} \cup AtDevice => req'[p] = req[p]
  BY BufrCaller
<1>2. UNCHANGED <<dev, dpcSched, dpc>>
  BY DEF CallerStep, Call, LockDevmutex, Refuse, QueueIsFree, FillOutBufr, FillFault, SetPending,
     ProgramIo, ReleaseDevlock, LateQueueReset, CopyToCaller, UnlockDevmutex
<1>3. CASE ReleaseDevlock(p)
  <2>1. pc[p] = "release" /\ pc'[p] = "wait" /\ io_f' = io_f /\ Queue(p) = "eIoPending"
    BY <1>3, GotoFrame DEF ReleaseDevlock, IInv, QueueInv
  <2>2. req'[p] = req[p]
    BY <1>1, <2>1 DEF AtDevice
  <2>3. \A q \in Callers : q # p => pc[q] \notin {"release", "wait"}
    BY <2>1, OthersAway, AtDeviceHolds DEF IInv, AtDevice
  <2>4. DataMoved(p)' <=> DataMoved(p)
    BY <1>2, <2>1, <2>2 DEF DataMoved, Answered, Queue
  <2>5. SerialView' = SerialView
    BY <1>1, <2>1, <2>2, <2>3, <2>4, ViewFrame
  <2> QED
    BY <1>1, <2>5 DEF Serial!vars
<1>4. CASE ~ReleaseDevlock(p)
  <2>1. pc[p] \notin {"release", "wait"} /\ pc'[p] \notin {"release", "wait"}
    <3>1. CASE \E r \in Request : Call(p, r)
      BY <3>1 DEF Call, IInv, TypeOK
    <3>2. CASE CallerStep(p)
      <4>1. PICK l \in Pc \ {"release", "wait"} : Goto(p, l) /\ pc[p] \notin {"release", "wait"}
        BY <1>4, <3>2 DEF CallerStep, LockDevmutex, Refuse, QueueIsFree, FillOutBufr, FillFault,
           SetPending, ProgramIo, LateQueueReset, CopyToCaller, UnlockDevmutex, Exit, Pc
      <4> QED
        BY <4>1, GotoFrame DEF IInv
    <3> QED
      BY <3>1, <3>2
  <2>2. ASSUME NEW q \in Callers, pc[q] \in {"release", "wait"}
        PROVE  DataMoved(q)' <=> DataMoved(q)
    <3>1. q # p /\ pc'[q] = pc[q] /\ req'[q] = req[q]
      BY <1>1, <2>1, <2>2
    <3>2. io_f' = io_f \/ Holding(p)
      BY <1>4 DEF CallerStep, Call, LockDevmutex, Refuse, QueueIsFree, FillOutBufr, FillFault,
         SetPending, ProgramIo, LateQueueReset, CopyToCaller, UnlockDevmutex, Holding, IInv,
         QueueInv
    <3>3. ~Holding(p)
      BY <2>2, <3>1, OnlyHolder, AtDeviceHolds DEF IInv, AtDevice
    <3> QED
      BY <1>2, <3>1, <3>2, <3>3 DEF DataMoved, Answered, Queue
  <2>3. SerialView' = SerialView
    BY <1>1, <2>1, <2>2, ViewFrame
  <2> QED
    BY <1>1, <2>3 DEF Serial!vars
<1> QED
  BY <1>3, <1>4

\* Every step of the i/o path is a step or a stutter of the abstract device.
LEMMA SerialStep ==
  ASSUME Modes \subseteq {"sync"}, IInv, IInv', DataInv, [Next]_vars
  PROVE  [Serial!Next]_(Serial!vars)
<1>1. CASE UNCHANGED vars
  <2>1. SerialView' = SerialView
    BY <1>1, ViewFrame DEF vars, DataMoved, Answered, Queue
  <2> QED
    BY <1>1, <2>1 DEF vars, Serial!vars
<1>2. ASSUME NEW p \in Callers, CallerStep(p) \/ (\E r \in Request : Call(p, r))
      PROVE  [Serial!Next]_(Serial!vars)
  BY <1>2, GoBegins, WaitFinishes, CallerStutters
<1>3. CASE (DevStep /\ ~DevTransfer) \/ DpcStep
  <2>1. SerialView' = SerialView
    BY <1>3, MovedStays, ViewFrame
  <2>2. accepted' = accepted
    BY <1>3 DEF DevStep, DpcStep, DevPoll, DevNop, DevSequenceError, DevPickUp, DevIsr,
       DpcReset, DpcWake
  <2> QED
    BY <2>1, <2>2 DEF Serial!vars
<1>4. CASE DevTransfer
  BY <1>4, TransferMoves
<1> QED
  BY <1>1, <1>2, <1>3, <1>4 DEF Next

LEMMA SerialInit == Init => Serial!Init
<1> SUFFICES ASSUME Init PROVE Serial!Init
  OBVIOUS
<1>1. \A p \in Callers : pc[p] \notin {"release", "wait"}
  BY DEF Init
<1> QED
  BY <1>1, ViewIdle DEF Init, Serial!Init

\* With synchronous calls the drivers and the device, with their queues, locks,
\* registers and interrupts, carry out one i/o at a time, each moved exactly
\* once between its beginning and its end (README.md:105, mbdevthread.c,
\* maddevcio.c): the safety part of SerialSpec.
THEOREM OneIoAtATime ==
  ASSUME Modes \subseteq {"sync"}
  PROVE  Spec => Serial!Init /\ [][Serial!Next]_(Serial!vars)
<1>1. IInv /\ DataInv /\ IInv' /\ [Next]_vars => [Serial!Next]_(Serial!vars)
  BY SerialStep
<1> QED
  BY <1>1, SerialInit, Invariance, DataInvariance, PTL DEF Spec
=============================================================================
