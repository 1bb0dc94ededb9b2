------------------------- MODULE MadCharIoInv_proof -------------------------
(***************************************************************************)
(* IInv of MadCharIoInv is an invariant of the character-mode i/o path,    *)
(* and what follows from it.                                               *)
(***************************************************************************)
EXTENDS MadCharIo_proof

USE DEF callerVars, queueVars, bufrVars, devVars, dpcVars

Pc == {"idle", "lock", "check", "fill", "pend", "prog", "go", "release", "wait",
       "reset_f", "copy", "unlock"}

\* Goto moves one caller; its request ends with its call.
LEMMA GotoFrame ==
  ASSUME TypeOK, NEW p \in Callers, NEW l, Goto(p, l)
  PROVE  /\ pc'[p] = l
         /\ \A q \in Callers : q # p => pc'[q] = pc[q] /\ req'[q] = req[q]
         /\ l # "idle" => req' = req
BY DEF Goto, TypeOK

\* Two callers that hold the mutex are the same caller.
LEMMA OnlyHolder ==
  ASSUME MutexInv, NEW p \in Callers, NEW q \in Callers, Holding(p), Holding(q)
  PROVE  p = q
BY DEF MutexInv

LEMMA AtDeviceHolds ==
  ASSUME NEW p \in Callers, pc[p] \in AtDevice
  PROVE  Holding(p)
BY DEF Holding, AtDevice

\* The direction of a request is one of two.
LEMMA DirOf ==
  ASSUME TypeOK, NEW p \in Callers
  PROVE  req[p].dir \in Dir /\ req[p].dir \in IoQueues /\ req[p].mode \in {"sync", "aio"}
BY DEF TypeOK, Request, Dir, IoQueues

-----------------------------------------------------------------------------
\* The mutex is held exactly at the program points of Holding.
LEMMA MutexCaller ==
  ASSUME TypeOK, MutexInv, QueueInv, NEW p \in Callers,
         CallerStep(p) \/ (\E r \in Request : Call(p, r))
  PROVE  MutexInv'
<1> USE NoCallerAssumption DEF MutexInv, Holding, AtDevice, Sync
<1>0. CASE \E r \in Request : Call(p, r)
  <2>1. PICK r \in Request : Call(p, r)
    BY <1>0
  <2>2. r.mode = "sync" => pc'[p] = "lock"
    BY <2>1 DEF Call, TypeOK
  <2>3. r.mode # "sync" => pc'[p] = "check" /\ req'[p] = r
    BY <2>1 DEF Call, TypeOK
  <2>4. \A q \in Callers : q # p => pc'[q] = pc[q] /\ req'[q] = req[q]
    BY <2>1 DEF Call, TypeOK
  <2>5. devmutex' = devmutex /\ pc[p] = "idle"
    BY <2>1 DEF Call, queueVars
  <2> QED
    BY <2>2, <2>3, <2>4, <2>5
<1>1. CASE LockDevmutex(p)
  BY <1>1, GotoFrame DEF LockDevmutex
<1>2. CASE Refuse(p)
  BY <1>2, GotoFrame DEF Refuse, Exit
<1>3. CASE QueueIsFree(p)
  BY <1>3, GotoFrame DEF QueueIsFree
<1>4. CASE FillOutBufr(p)
  BY <1>4, GotoFrame DEF FillOutBufr
<1>5. CASE FillFault(p)
  BY <1>5, GotoFrame DEF FillFault, Exit
<1>6. CASE SetPending(p)
  BY <1>6, GotoFrame DEF SetPending
<1>7. CASE ProgramIo(p)
  BY <1>7, GotoFrame DEF ProgramIo
<1>8. CASE SetGo(p)
  BY <1>8, GotoFrame DEF SetGo
<1>9. CASE ReleaseDevlock(p)
  BY <1>9, GotoFrame DEF ReleaseDevlock
<1>10. CASE WaitOk(p)
  BY <1>10, GotoFrame DEF WaitOk, Exit
<1>11. CASE WaitError(p)
  BY <1>11, GotoFrame DEF WaitError, Exit
<1>12. CASE LateQueueReset(p)
  BY <1>12 DEF LateQueueReset, QueueInv
<1>13. CASE CopyToCaller(p)
  BY <1>13, GotoFrame DEF CopyToCaller, Exit
<1>14. CASE UnlockDevmutex(p)
  BY <1>14, GotoFrame DEF UnlockDevmutex
<1> QED
  BY <1>0, <1>1, <1>2, <1>3, <1>4, <1>5, <1>6, <1>7, <1>8, <1>9, <1>10, <1>11, <1>12,
     <1>13, <1>14 DEF CallerStep

\* The spinlock is held exactly between the programming of an i/o and the
\* release.
LEMMA LockCaller ==
  ASSUME TypeOK, LockInv, NEW p \in Callers,
         CallerStep(p) \/ (\E r \in Request : Call(p, r))
  PROVE  LockInv'
<1> USE NoCallerAssumption DEF LockInv
<1>0. CASE \E r \in Request : Call(p, r)
  BY <1>0 DEF Call, TypeOK, queueVars
<1>1. CASE LockDevmutex(p) \/ Refuse(p) \/ QueueIsFree(p) \/ FillOutBufr(p) \/ FillFault(p)
  BY <1>1, GotoFrame DEF LockDevmutex, Refuse, QueueIsFree, FillOutBufr, FillFault, Exit
<1>2. CASE SetPending(p)
  BY <1>2, GotoFrame DEF SetPending
<1>3. CASE ProgramIo(p)
  BY <1>3, GotoFrame DEF ProgramIo
<1>4. CASE SetGo(p)
  BY <1>4, GotoFrame DEF SetGo
<1>5. CASE ReleaseDevlock(p)
  BY <1>5, GotoFrame DEF ReleaseDevlock
<1>6. CASE WaitOk(p) \/ WaitError(p)
  BY <1>6, GotoFrame DEF WaitOk, WaitError, Exit
<1>7. CASE LateQueueReset(p) \/ CopyToCaller(p) \/ UnlockDevmutex(p)
  BY <1>7, GotoFrame DEF LateQueueReset, CopyToCaller, UnlockDevmutex, Exit
<1> QED
  BY <1>0, <1>1, <1>2, <1>3, <1>4, <1>5, <1>6, <1>7 DEF CallerStep

LEMMA LocksDevDpc ==
  ASSUME MutexInv, LockInv, DevStep \/ DpcStep
  PROVE  MutexInv' /\ LockInv' /\ pc' = pc /\ req' = req /\ devlock' = devlock
BY DEF MutexInv, LockInv, Holding, Sync, DevStep, DpcStep, DevPoll, DevNop,
       DevSequenceError, DevPickUp, DevTransfer, DevIsr, DpcReset, DpcWake

-----------------------------------------------------------------------------
\* An answered caller reads a success: no alert, so its queue's state decides.
LEMMA AnsweredOk ==
  ASSUME TypeOK, QueueInv, PhaseInv, NEW p \in Callers, Answered(p)
  PROVE  IoStatus(p) = "ok" /\ Queue(p) = "eIoReset"
<1>1. Queue(p) = "eIoReset"
  BY DirOf DEF QueueInv, Answered, Queue
<1>2. IntRegState.IntID = {IntBit[req[p].dir]}
  BY DEF PhaseInv, Phase, Tells
<1>3. IntBit[req[p].dir] # "STATUS_ALERT"
  BY DirOf DEF IntBit
<1>4. StatusErrno(IntRegState) = "ok"
  BY <1>2, <1>3 DEF StatusErrno
<1> QED
  BY <1>1, <1>4 DEF IoStatus

\* While one caller is at the device no other caller holds the mutex.
LEMMA OthersAway ==
  ASSUME MutexInv, NEW p \in Callers, Holding(p)
  PROVE  \A q \in Callers : q # p => ~Holding(q) /\ pc[q] \notin AtDevice /\ pc[q] # "prog"
BY OnlyHolder DEF Holding

\* The queues along the steps of a caller.
LEMMA QueueCaller ==
  ASSUME TypeOK, MutexInv, QueueInv, PhaseInv, NEW p \in Callers,
         CallerStep(p) \/ (\E r \in Request : Call(p, r))
  PROVE  QueueInv'
<1> USE DEF QueueInv, AtDevice, Queue
<1>0. CASE \E r \in Request : Call(p, r)
  <2>1. /\ pc[p] = "idle" /\ pc'[p] \in {"lock", "check"} /\ io_f' = io_f
        /\ \A q \in Callers : q # p => pc'[q] = pc[q] /\ req'[q] = req[q]
    BY <1>0 DEF Call, TypeOK
  <2> QED
    BY <2>1
<1>1. CASE LockDevmutex(p) \/ Refuse(p) \/ QueueIsFree(p) \/ FillOutBufr(p) \/ FillFault(p)
           \/ CopyToCaller(p) \/ UnlockDevmutex(p)
  <2>1. /\ pc[p] \notin {"prog"} \cup AtDevice /\ io_f' = io_f
        /\ pc'[p] \notin {"prog", "reset_f"} \cup AtDevice
        /\ \A q \in Callers : q # p => pc'[q] = pc[q] /\ req'[q] = req[q]
    <3>1. CASE LockDevmutex(p) BY <3>1, GotoFrame DEF LockDevmutex
    <3>2. CASE Refuse(p) BY <3>2, GotoFrame DEF Refuse, Exit
    <3>3. CASE QueueIsFree(p) BY <3>3, GotoFrame DEF QueueIsFree
    <3>4. CASE FillOutBufr(p) BY <3>4, GotoFrame DEF FillOutBufr
    <3>5. CASE FillFault(p) BY <3>5, GotoFrame DEF FillFault, Exit
    <3>6. CASE CopyToCaller(p) BY <3>6, GotoFrame DEF CopyToCaller, Exit
    <3>7. CASE UnlockDevmutex(p) BY <3>7, GotoFrame DEF UnlockDevmutex
    <3> QED BY <1>1, <3>1, <3>2, <3>3, <3>4, <3>5, <3>6, <3>7
  <2> QED
    BY <2>1
<1>2. CASE SetPending(p)
  <2>1. /\ pc[p] = "pend" /\ pc'[p] = "prog" /\ req' = req
        /\ \A q \in Callers : q # p => pc'[q] = pc[q]
        /\ io_f' = [io_f EXCEPT ![req[p].dir] = "eIoPending"]
    BY <1>2, GotoFrame DEF SetPending
  <2>2. io_f'[req[p].dir] = "eIoPending" /\ io_f'["ioctl"] = io_f["ioctl"]
    BY <2>1, DirOf DEF TypeOK, Dir, IoQueues
  <2>3. \A q \in IoQueues : io_f'[q] = IF q = req[p].dir THEN "eIoPending" ELSE io_f[q]
    BY <2>1 DEF TypeOK
  <2> QED
    BY <2>1, <2>2, <2>3, DirOf DEF Dir, IoQueues
<1>3. CASE ProgramIo(p) \/ SetGo(p) \/ ReleaseDevlock(p)
  <2>1. /\ pc[p] \in {"prog", "go", "release"} /\ io_f' = io_f /\ req' = req
        /\ pc'[p] \in AtDevice
        /\ \A q \in Callers : q # p => pc'[q] = pc[q]
    <3>1. CASE ProgramIo(p) BY <3>1, GotoFrame DEF ProgramIo
    <3>2. CASE SetGo(p) BY <3>2, GotoFrame DEF SetGo
    <3>3. CASE ReleaseDevlock(p) BY <3>3, GotoFrame DEF ReleaseDevlock
    <3> QED BY <1>3, <3>1, <3>2, <3>3
  <2> QED
    BY <2>1
<1>4. CASE WaitOk(p)
  <2>1. Answered(p) /\ pc[p] = "wait"
    BY <1>4 DEF WaitOk, Answered
  <2>2. io_f[req[p].dir] = "eIoReset"
    BY <2>1, AnsweredOk
  <2>3. io_f' = io_f
    BY <1>4, <2>2, DirOf DEF WaitOk, TypeOK
  <2>4. /\ pc'[p] \in {"copy", "unlock", "idle"}
        /\ \A q \in Callers : q # p => pc'[q] = pc[q] /\ req'[q] = req[q]
    BY <1>4, GotoFrame DEF WaitOk, Exit
  <2> QED
    BY <2>1, <2>2, <2>3, <2>4
<1>5. CASE WaitError(p)
  BY <1>5, AnsweredOk DEF WaitError, Answered
<1>6. CASE LateQueueReset(p)
  BY <1>6 DEF LateQueueReset
<1> QED
  BY <1>0, <1>1, <1>2, <1>3, <1>4, <1>5, <1>6 DEF CallerStep

-----------------------------------------------------------------------------
\* A step that leaves the registers, the device and the DPC alone keeps every
\* phase, unless it moves a caller at the device.
LEMMA PhaseFrame ==
  ASSUME TypeOK, MutexInv, PhaseInv, NEW p \in Callers,
         pc[p] \notin AtDevice, pc'[p] \notin AtDevice,
         \A q \in Callers : q # p => pc'[q] = pc[q] /\ req'[q] = req[q],
         UNCHANGED <<regs, IntRegState, devVars, dpcVars>>,
         io_f' = io_f \/ Holding(p)
  PROVE  PhaseInv'
<1>1. (\A q \in Callers : pc'[q] \notin AtDevice) => Quiet'
  BY DEF PhaseInv, Quiet
<1>2. ASSUME NEW q \in Callers, pc'[q] \in AtDevice
      PROVE  /\ q # p /\ pc'[q] = pc[q] /\ req'[q] = req[q] /\ pc[q] \in AtDevice
             /\ io_f' = io_f
  BY <1>2, OnlyHolder, AtDeviceHolds
<1>3. ASSUME NEW q \in Callers
      PROVE  Phase(q)'
  <2>1. CASE pc'[q] \in AtDevice
    BY <1>2, <2>1 DEF PhaseInv, Phase, Armed, PickedUp, Raised, Scheduled, Resetting, Tells,
                      IsIoctl, Quiet, Answered, Queue
  <2>2. CASE pc'[q] \notin AtDevice
    BY <2>2 DEF Phase, Answered, AtDevice
  <2> QED
    BY <2>1, <2>2
<1> QED
  BY <1>1, <1>3 DEF PhaseInv

\* A step after which p alone is at the device establishes the invariant when
\* it establishes the phase of p.
LEMMA PhaseOne ==
  ASSUME NEW p \in Callers, pc'[p] \in AtDevice, Phase(p)',
         \A q \in Callers : q # p => pc'[q] \notin AtDevice
  PROVE  PhaseInv'
BY DEF PhaseInv, Phase, Answered, AtDevice

\* The phases along the steps of a caller.
LEMMA PhaseCaller ==
  ASSUME TypeOK, MutexInv, LockInv, QueueInv, PhaseInv, NEW p \in Callers,
         CallerStep(p) \/ (\E r \in Request : Call(p, r))
  PROVE  PhaseInv'
<1>0. CASE \E r \in Request : Call(p, r)
  BY <1>0, PhaseFrame DEF Call, TypeOK, AtDevice
<1>1. CASE LockDevmutex(p)
  BY <1>1, GotoFrame, PhaseFrame DEF LockDevmutex, AtDevice
<1>2. CASE Refuse(p)
  BY <1>2, GotoFrame, PhaseFrame DEF Refuse, Exit, AtDevice
<1>3. CASE QueueIsFree(p)
  BY <1>3, GotoFrame, PhaseFrame DEF QueueIsFree, AtDevice
<1>4. CASE FillOutBufr(p)
  BY <1>4, GotoFrame, PhaseFrame DEF FillOutBufr, AtDevice
<1>5. CASE FillFault(p)
  BY <1>5, GotoFrame, PhaseFrame DEF FillFault, Exit, AtDevice
<1>6. CASE SetPending(p)
  BY <1>6, GotoFrame, PhaseFrame DEF SetPending, AtDevice, Holding
<1>7. CASE ProgramIo(p)
  <2>1. /\ pc[p] = "prog" /\ Holding(p) /\ pc'[p] = "go" /\ req' = req /\ io_f' = io_f
        /\ \A q \in Callers : q # p => pc'[q] = pc[q]
    BY <1>7, GotoFrame DEF ProgramIo, Holding
  <2>2. \A q \in Callers : q # p => pc'[q] \notin AtDevice
    BY <2>1, OthersAway
  <2>3. Quiet
    BY <2>1, OthersAway DEF PhaseInv, AtDevice
  <2>4. regs' = [regs EXCEPT !.IntID = {}, !.IntEnable = {IntBit[req[p].dir], "STATUS_ALERT"},
                             !.HostPA = p, !.Control = {"IOSIZE_BYTES"}, !.IoCount = req[p].cnt]
    BY <1>7 DEF ProgramIo, ProgramIoRegs
  <2>5. /\ regs'.IntID = {} /\ regs'.IntEnable = {IntBit[req[p].dir], "STATUS_ALERT"}
        /\ regs'.HostPA = p /\ regs'.Control = {"IOSIZE_BYTES"}
        /\ regs'.IoCount = req[p].cnt /\ regs'.IoTag = regs.IoTag
    BY <2>4 DEF TypeOK, Registers
  <2>6. Armed(p)' /\ regs'.Control = {"IOSIZE_BYTES"}
    BY <1>7, <2>1, <2>3, <2>5 DEF Armed, Quiet, ProgramIo
  <2>7. Phase(p)'
    BY <2>1, <2>6 DEF Phase, Answered
  <2> QED
    BY <2>1, <2>2, <2>7, PhaseOne DEF AtDevice
<1>8. CASE SetGo(p)
  <2>1. /\ pc[p] = "go" /\ Holding(p) /\ pc'[p] = "release" /\ req' = req /\ io_f' = io_f
        /\ \A q \in Callers : q # p => pc'[q] = pc[q]
    BY <1>8, GotoFrame DEF SetGo, Holding, AtDevice
  <2>2. \A q \in Callers : q # p => pc'[q] \notin AtDevice
    BY <2>1, OthersAway
  <2>3. Armed(p) /\ regs.Control = {"IOSIZE_BYTES"}
    BY <2>1 DEF PhaseInv, Phase
  <2>4. regs' = [regs EXCEPT !.Control = regs.Control \cup {"BUFRD_GO"}]
    BY <1>8 DEF SetGo
  <2>5. /\ regs'.IntID = regs.IntID /\ regs'.IntEnable = regs.IntEnable
        /\ regs'.HostPA = regs.HostPA /\ regs'.IoCount = regs.IoCount
        /\ regs'.IoTag = regs.IoTag
        /\ regs'.Control = {"IOSIZE_BYTES", "BUFRD_GO"}
    BY <2>3, <2>4 DEF TypeOK, Registers
  <2>6. Armed(p)'
    BY <1>8, <2>1, <2>3, <2>5 DEF Armed, SetGo
  <2>7. Phase(p)'
    BY <2>1, <2>5, <2>6 DEF Phase, Answered
  <2> QED
    BY <2>1, <2>2, <2>7, PhaseOne DEF AtDevice
<1>9. CASE ReleaseDevlock(p)
  <2>1. /\ pc[p] = "release" /\ Holding(p) /\ pc'[p] = "wait" /\ req' = req /\ io_f' = io_f
        /\ \A q \in Callers : q # p => pc'[q] = pc[q]
        /\ UNCHANGED <<regs, IntRegState, devVars, dpcVars>>
    BY <1>9, GotoFrame DEF ReleaseDevlock, Holding, AtDevice
  <2>2. \A q \in Callers : q # p => pc'[q] \notin AtDevice
    BY <2>1, OthersAway
  <2>3. Queue(p) = "eIoPending"
    BY <2>1 DEF QueueInv
  <2>4. \/ Armed(p) /\ regs.Control = {"IOSIZE_BYTES", "BUFRD_GO"}
        \/ PickedUp(p)
        \/ Raised(p)
    BY <2>1, <2>3 DEF PhaseInv, Phase
  <2>5. \/ (Armed(p) /\ regs.Control = {"IOSIZE_BYTES", "BUFRD_GO"})'
        \/ PickedUp(p)'
        \/ Raised(p)'
    BY <2>1, <2>4 DEF Armed, PickedUp, Raised, Tells, IsIoctl
  <2>6. Phase(p)'
    BY <2>1, <2>3, <2>5 DEF Phase, Answered, Queue
  <2> QED
    BY <2>1, <2>2, <2>6, PhaseOne DEF AtDevice
<1>10. CASE WaitOk(p)
  <2>1. /\ pc[p] = "wait" /\ Holding(p) /\ pc'[p] \notin AtDevice
        /\ \A q \in Callers : q # p => pc'[q] = pc[q]
        /\ UNCHANGED <<regs, IntRegState, devVars, dpcVars>>
    BY <1>10, GotoFrame DEF WaitOk, Exit, Holding, AtDevice
  <2>2. Quiet
    BY <1>10 DEF WaitOk, Answered, PhaseInv, Phase
  <2>3. \A q \in Callers : pc'[q] \notin AtDevice
    BY <2>1, OthersAway
  <2> QED
    BY <2>1, <2>2, <2>3 DEF PhaseInv, Phase, Quiet, Answered, AtDevice
<1>11. CASE WaitError(p)
  BY <1>11, AnsweredOk DEF WaitError, Answered
<1>12. CASE LateQueueReset(p)
  BY <1>12 DEF LateQueueReset, QueueInv
<1>13. CASE CopyToCaller(p)
  BY <1>13, GotoFrame, PhaseFrame DEF CopyToCaller, Exit, AtDevice
<1>14. CASE UnlockDevmutex(p)
  BY <1>14, GotoFrame, PhaseFrame DEF UnlockDevmutex, AtDevice
<1> QED
  BY <1>0, <1>1, <1>2, <1>3, <1>4, <1>5, <1>6, <1>7, <1>8, <1>9, <1>10, <1>11, <1>12,
     <1>13, <1>14 DEF CallerStep

-----------------------------------------------------------------------------
\* When the registers, the device or the DPC are not at rest, one caller is at
\* the device, its i/o unanswered.
LEMMA SomeoneAtDevice ==
  ASSUME MutexInv, QueueInv, PhaseInv, ~Quiet
  PROVE  \E p \in Callers :
           /\ pc[p] \in AtDevice /\ Queue(p) = "eIoPending" /\ Phase(p)
           /\ \A q \in Callers : q # p => ~Holding(q) /\ pc[q] \notin AtDevice /\ pc[q] # "prog"
<1>1. PICK p \in Callers : pc[p] \in AtDevice
  BY DEF PhaseInv
<1>2. Queue(p) = "eIoPending" /\ Phase(p)
  BY <1>1 DEF PhaseInv, Phase, QueueInv, Answered, AtDevice
<1> QED
  BY <1>1, <1>2, AtDeviceHolds, OthersAway

\* The phases along the steps of the device thread and of the ISR it calls.
LEMMA PhaseDev ==
  ASSUME TypeOK, MutexInv, LockInv, QueueInv, PhaseInv, DevStep
  PROVE  PhaseInv'
<1>1. ~Quiet
  BY DEF DevStep, Quiet, DevPoll, DevNop, DevSequenceError, DevPickUp, DevTransfer, DevIsr
<1>2. PICK p \in Callers :
        /\ pc[p] \in AtDevice /\ Queue(p) = "eIoPending" /\ Phase(p)
        /\ \A q \in Callers : q # p => ~Holding(q) /\ pc[q] \notin AtDevice /\ pc[q] # "prog"
  BY <1>1, SomeoneAtDevice
<1>3. UNCHANGED <<pc, req, io_f, dpc>>
  BY DEF DevStep, DevPoll, DevNop, DevSequenceError, DevPickUp, DevTransfer, DevIsr
<1>4. SUFFICES Phase(p)'
  BY <1>2, <1>3, PhaseOne
<1>5. Queue(p) = "eIoPending" /\ Queue(p)' = "eIoPending"
  BY <1>2, <1>3 DEF Queue
<1>6. req[p].dir \in Dir
  BY DirOf
<1>7. \/ Armed(p) /\ pc[p] = "go" /\ regs.Control = {"IOSIZE_BYTES"}
      \/ Armed(p) /\ pc[p] # "go" /\ regs.Control = {"IOSIZE_BYTES", "BUFRD_GO"}
      \/ PickedUp(p) /\ pc[p] # "go"
      \/ Raised(p) /\ pc[p] # "go"
      \/ Scheduled(p) \/ Resetting(p)
  BY <1>2, <1>5 DEF Phase, AtDevice
<1>8. CASE DevPoll
  <2>1. Armed(p)
    BY <1>7, <1>8 DEF DevPoll, PickedUp, Raised, Scheduled, Resetting
  <2>2. seen'.IoTag = regs.IoTag /\ seen'.IntID = regs.IntID
    BY <1>8 DEF DevPoll, RegistersAtReset
  <2>3. Armed(p)' /\ regs' = regs
    BY <1>3, <1>8, <2>1, <2>2 DEF DevPoll, Armed
  <2> QED
    BY <1>2, <1>3, <1>5, <1>7, <2>1, <2>3 DEF Phase, Armed, PickedUp, Raised, Scheduled,
       Resetting, Answered, AtDevice
<1>9. CASE DevNop
  <2>1. Armed(p)
    BY <1>7, <1>9 DEF DevNop, PickedUp, Raised, Scheduled, Resetting
  <2>2. Armed(p)' /\ regs' = regs
    BY <1>3, <1>9, <2>1 DEF DevNop, Armed
  <2> QED
    BY <1>2, <1>3, <1>5, <1>7, <2>1, <2>2 DEF Phase, Armed, PickedUp, Raised, Scheduled,
       Resetting, Answered, AtDevice
<1>10. CASE DevSequenceError
  BY <1>7, <1>10 DEF DevSequenceError, Armed, PickedUp, Raised, Scheduled, Resetting
<1>11. CASE DevPickUp
  <2>1. Armed(p) /\ pc[p] # "go" /\ regs.Control = {"IOSIZE_BYTES", "BUFRD_GO"}
    BY <1>7, <1>11 DEF DevPickUp, Programmed, GoBits, Armed, PickedUp, Raised, Scheduled, Resetting
  <2>2. PICK d \in Dir : ProgrammedIoType(regs) = IoType[d] /\ iotype' = d
    BY <1>11 DEF DevPickUp
  <2>3. regs.IntEnable = {IntBit[req[p].dir], "STATUS_ALERT"}
    BY <2>1 DEF Armed
  <2>4. ProgrammedIoType(regs) = IoType[req[p].dir]
    <3>1. CASE req[p].dir = "rd"
      BY <2>1, <2>3, <3>1 DEF ProgrammedIoType, IntBit, IoType, Dir
    <3>2. CASE req[p].dir = "wr"
      BY <2>1, <2>3, <3>2 DEF ProgrammedIoType, IntBit, IoType, Dir
    <3> QED
      BY <1>6, <3>1, <3>2 DEF Dir
  <2>5. d = req[p].dir
    BY <1>6, <2>2, <2>4 DEF IoType, Dir
  <2>6. PickedUp(p)'
    BY <1>3, <1>11, <2>1, <2>2, <2>5 DEF DevPickUp, PickedUp, Armed
  <2> QED
    BY <1>2, <1>3, <1>5, <2>1, <2>6 DEF Phase, Answered, AtDevice
<1>12. CASE DevTransfer
  <2>1. PickedUp(p) /\ pc[p] # "go"
    BY <1>7, <1>12 DEF DevTransfer, Armed, PickedUp, Raised, Scheduled, Resetting
  <2>2. /\ regs'.IntID = regs.IntID \cup {IntBit[iotype]}
        /\ regs'.ReadCount = regs.ReadCount \cup (IF iotype = "rd" THEN regs.IoCount ELSE {})
        /\ regs'.WriteCount = regs.WriteCount \cup (IF iotype = "wr" THEN regs.IoCount ELSE {})
        /\ regs'.Control = regs.Control /\ regs'.HostPA = regs.HostPA
        /\ regs'.IoTag = regs.IoTag
    BY <1>12, <2>1 DEF DevTransfer, PickedUp, TypeOK, Registers
  <2>3. ~IsIoctl(regs')
    BY <1>6, <2>1, <2>2 DEF IsIoctl, PickedUp, IntBit
  <2>4. Tells(regs', p)
    BY <1>6, <2>1, <2>2, <2>3 DEF Tells, PickedUp, Dir
  <2>5. Raised(p)'
    BY <1>3, <1>12, <2>1, <2>2, <2>4 DEF DevTransfer, PickedUp, Raised, Tells, IsIoctl
  <2> QED
    BY <1>2, <1>3, <1>5, <2>1, <2>5 DEF Phase, Answered, AtDevice
<1>13. CASE DevIsr
  <2>1. Raised(p)
    BY <1>7, <1>13 DEF DevIsr, Armed, PickedUp, Raised, Scheduled, Resetting
  <2>2. pc[p] = "wait"
    BY <1>2, <1>13, NoCallerAssumption DEF DevIsr, LockInv, AtDevice
  <2>3. /\ regs'.IntEnable = {} /\ regs'.HostPA = regs.HostPA
        /\ regs'.IoTag = regs.IoTag /\ IntRegState' = regs
    BY <1>13 DEF DevIsr, TypeOK, Registers
  <2>4. dpcSched' /\ dev' = "poll" /\ ~dpc' /\ dev_iotag' = dev_iotag
    <3>1. regs.IntID # {} /\ ~dpc
      BY <2>1 DEF Raised, Tells
    <3>2. dpcSched' = (dpcSched \/ regs.IntID # {}) /\ dev' = "poll" /\ dev_iotag' = dev_iotag
      BY <1>13 DEF DevIsr
    <3> QED
      BY <1>3, <3>1, <3>2, Zenon
  <2>5. Scheduled(p)'
    BY <1>3, <2>1, <2>3, <2>4 DEF Raised, Scheduled, Tells, IsIoctl
  <2> QED
    BY <1>2, <1>3, <1>5, <2>2, <2>5 DEF Phase, Answered
<1> QED
  BY <1>8, <1>9, <1>10, <1>11, <1>12, <1>13 DEF DevStep

\* The phases and the queues along the steps of the DPC.
LEMMA PhaseDpc ==
  ASSUME TypeOK, MutexInv, LockInv, QueueInv, PhaseInv, DpcStep
  PROVE  PhaseInv' /\ QueueInv'
<1>1. ~Quiet
  BY DEF DpcStep, Quiet, DpcReset, DpcWake
<1>2. PICK p \in Callers :
        /\ pc[p] \in AtDevice /\ Queue(p) = "eIoPending" /\ Phase(p)
        /\ \A q \in Callers : q # p => ~Holding(q) /\ pc[q] \notin AtDevice /\ pc[q] # "prog"
  BY <1>1, SomeoneAtDevice
<1>3. UNCHANGED <<pc, req>>
  BY DEF DpcStep, DpcReset, DpcWake
<1>4. Queue(p) = "eIoPending"
  BY <1>2
<1>5. req[p].dir \in Dir
  BY DirOf
<1>6. pc[p] = "wait" /\ (Scheduled(p) \/ Resetting(p))
  BY <1>2, <1>4 DEF Phase, AtDevice, DpcStep, DpcReset, DpcWake, Armed, PickedUp, Raised
<1>7. CASE DpcReset
  <2>1. Scheduled(p) /\ regs' = ResetIoRegisters(regs)
    BY <1>5, <1>6, <1>7 DEF DpcReset, Scheduled, Resetting, Tells, IntBit, Dir,
       AllValidMask, InputMask, OutputMask
  <2>2. /\ regs'.Control = {} /\ regs'.IntID = {} /\ regs'.IntEnable = {}
        /\ regs'.HostPA = regs.HostPA /\ regs'.IoTag = NextTag(regs.IoTag)
    BY <2>1 DEF ResetIoRegisters, TypeOK, Registers
  <2>3. Resetting(p)'
    BY <1>3, <1>7, <2>1, <2>2 DEF DpcReset, Scheduled, Resetting, Tells, IsIoctl
  <2>4. Phase(p)'
    BY <1>3, <1>4, <1>6, <1>7, <2>3 DEF Phase, Answered, Queue, DpcReset
  <2>5. PhaseInv'
    BY <1>2, <1>3, <2>4, PhaseOne
  <2> QED
    BY <1>3, <1>7, <2>5 DEF QueueInv, DpcReset, Queue
<1>8. CASE DpcWake
  <2>1. Resetting(p)
    BY <1>6, <1>8 DEF DpcWake, Scheduled
  <2>2. IntRegState.IntID = {IntBit[req[p].dir]} /\ ~IsIoctl(IntRegState)
    BY <2>1 DEF Resetting, Tells
  <2>3. \A q \in IoQueues : Completes(q) <=> q = req[p].dir
    BY <1>4, <1>5, <2>2 DEF Completes, Reported, IntBit, Dir, Queue
  <2>4. StatusErrno(IntRegState) = "ok"
    BY <1>5, <2>2 DEF StatusErrno, IntBit, Dir
  <2>5. io_f' = [io_f EXCEPT ![req[p].dir] = "eIoReset"]
    BY <1>5, <1>8, <2>3, <2>4 DEF DpcWake, IoErrno, IoQueues
  <2>6. \A q \in IoQueues : io_f'[q] = IF q = req[p].dir THEN "eIoReset" ELSE io_f[q]
    BY <2>5 DEF TypeOK
  <2>7. UNCHANGED <<regs, IntRegState, devVars, dpcSched>> /\ ~dpc'
    BY <1>8 DEF DpcWake
  <2>8. Quiet' /\ Tells(IntRegState, p)'
    BY <1>3, <2>1, <2>7 DEF Resetting, Quiet, Tells, IsIoctl
  <2>9. Phase(p)'
    BY <1>3, <1>5, <1>6, <2>6, <2>8 DEF Phase, Queue, IoQueues
  <2>10. PhaseInv'
    BY <1>2, <1>3, <2>9, PhaseOne
  <2>11. QueueInv'
    <3>1. /\ \A q \in IoQueues : io_f'[q] \in {"eIoReset", "eIoPending"}
          /\ io_f'["ioctl"] = "eIoReset"
      BY <2>6 DEF QueueInv, IoQueues
    <3>2. \A q \in Callers : pc'[q] \in {"prog", "go", "release"} => Queue(q)' = "eIoPending"
      BY <1>2, <1>3, <1>6 DEF AtDevice
    <3>3. ASSUME NEW d \in Dir, io_f'[d] = "eIoPending"
          PROVE  \E q \in Callers : pc'[q] \in {"prog"} \cup AtDevice /\ req'[q].dir = d
      BY <1>3, <2>6, <3>3 DEF QueueInv, IoQueues
    <3> QED
      BY <1>3, <3>1, <3>2, <3>3 DEF QueueInv
  <2> QED
    BY <2>10, <2>11
<1> QED
  BY <1>7, <1>8 DEF DpcStep

-----------------------------------------------------------------------------
LEMMA IInvInit == Init => IInv
<1> SUFFICES ASSUME Init PROVE IInv
  OBVIOUS
<1>1. \A p \in Callers : pc[p] = "idle"
  BY DEF Init
<1>2. MutexInv /\ LockInv
  BY <1>1, NoCallerAssumption DEF Init, MutexInv, LockInv, Holding, AtDevice
<1>3. QueueInv
  BY <1>1 DEF Init, QueueInv, IoQueues, Dir
<1>4. PhaseInv
  BY <1>1 DEF Init, PhaseInv, Phase, Answered, AtDevice, Quiet, RegistersAtReset
<1> QED
  BY <1>2, <1>3, <1>4, TypeInit DEF IInv

LEMMA IInvStep == IInv /\ [Next]_vars => IInv'
<1> SUFFICES ASSUME IInv, [Next]_vars PROVE IInv'
  OBVIOUS
<1> USE DEF IInv
<1>1. TypeOK'
  BY TypeStep
<1>2. CASE UNCHANGED vars
  <2>1. MutexInv' /\ LockInv' /\ QueueInv'
    BY <1>2 DEF vars, MutexInv, LockInv, QueueInv, Holding, Sync, Queue
  <2>2. PhaseInv'
    BY <1>2 DEF vars, PhaseInv, Phase, Armed, PickedUp, Raised, Scheduled, Resetting, Tells,
                IsIoctl, Quiet, Answered, Queue
  <2> QED
    BY <1>1, <2>1, <2>2
<1>3. ASSUME NEW p \in Callers, CallerStep(p) \/ (\E r \in Request : Call(p, r))
      PROVE  IInv'
  BY <1>1, <1>3, MutexCaller, LockCaller, QueueCaller, PhaseCaller
<1>4. CASE DevStep
  <2>1. io_f' = io_f
    BY <1>4 DEF DevStep, DevPoll, DevNop, DevSequenceError, DevPickUp, DevTransfer, DevIsr
  <2>2. MutexInv' /\ LockInv' /\ pc' = pc /\ req' = req
    BY <1>4, LocksDevDpc
  <2>3. QueueInv'
    BY <2>1, <2>2 DEF QueueInv, Queue
  <2> QED
    BY <1>1, <1>4, <2>2, <2>3, PhaseDev
<1>5. CASE DpcStep
  BY <1>1, <1>5, LocksDevDpc, PhaseDpc
<1> QED
  BY <1>2, <1>3, <1>4, <1>5 DEF Next

\* The i/o of the caller that holds the mutex is in one of its phases, and
\* everything else is at rest (maddevcio.c, mbdevthread.c, maddevc.h).
THEOREM Invariance == Spec => []IInv
BY IInvInit, IInvStep, PTL DEF Spec

-----------------------------------------------------------------------------
\* The sequence check of the device thread never fires: its tag and the tag
\* register advance in step (mbdevthread.c:221).
THEOREM TagsStayInStep == Spec => []TagsInStep
<1>1. IInv => TagsInStep
  <2> SUFFICES ASSUME IInv PROVE TagsInStep
    OBVIOUS
  <2>1. CASE Quiet
    BY <2>1 DEF Quiet, TagsInStep
  <2>2. CASE ~Quiet
    <3>1. PICK p \in Callers : pc[p] \in AtDevice /\ Queue(p) = "eIoPending" /\ Phase(p)
      BY <2>2, SomeoneAtDevice DEF IInv
    <3>2. Armed(p) \/ PickedUp(p) \/ Raised(p) \/ Scheduled(p) \/ Resetting(p)
      BY <3>1 DEF Phase, AtDevice, Answered
    <3> QED
      BY <3>2 DEF TagsInStep, Armed, PickedUp, Raised, Scheduled, Resetting
  <2> QED
    BY <2>1, <2>2
<1> QED
  BY <1>1, Invariance, PTL

\* Whatever the device, the ISR or the DPC is doing is done for one caller that
\* is still waiting for it (mbdevthread.c, maddevc.h, maddevcio.c:405-466).
THEOREM WorkIsWaitedFor == Spec => []WorkHasWaiter
<1>1. IInv => WorkHasWaiter
  <2> SUFFICES ASSUME IInv, dev \in {"xfer", "isr"} \/ dpcSched \/ dpc
               PROVE  \E p \in Callers :
                        /\ pc[p] \in {"release", "wait"} /\ InFlight(p)
                        /\ devmutex = p
                        /\ regs.HostPA = p
                        /\ dev \in {"xfer", "isr"} => iotype = req[p].dir
                        /\ dpcSched \/ dpc =>
                             IntRegState.HostPA = p /\ IntRegState.IntID = {IntBit[req[p].dir]}
    BY DEF WorkHasWaiter
  <2>1. ~Quiet
    BY DEF Quiet
  <2>2. PICK p \in Callers : pc[p] \in AtDevice /\ Queue(p) = "eIoPending" /\ Phase(p)
    BY <2>1, SomeoneAtDevice DEF IInv
  <2>3. devmutex = p
    BY <2>2, AtDeviceHolds DEF IInv, MutexInv
  <2>4. pc[p] # "go" /\ (PickedUp(p) \/ Raised(p) \/ Scheduled(p) \/ Resetting(p))
    BY <2>2 DEF Phase, Armed, AtDevice
  <2> QED
    BY <2>2, <2>3, <2>4 DEF InFlight, AtDevice, PickedUp, Raised, Scheduled, Resetting, Tells
<1> QED
  BY <1>1, Invariance, PTL

\* The register copy an answered caller reads without a lock is that of its own
\* completion (maddevcio.c:92, 180).
THEOREM AnswersAreOwn == Spec => []AnswerIsOwn
<1>1. IInv => AnswerIsOwn
  BY DEF IInv, PhaseInv, Phase, Tells, AnswerIsOwn, CompletedCount
<1> QED
  BY <1>1, Invariance, PTL

\* No return path leaks the mutex or works without it (maddevcmain.c,
\* maddevcio.c).
THEOREM MutexIsCallers == Spec => []MutexFollowsCall
<1>1. IInv => MutexFollowsCall
  BY NoCallerAssumption DEF IInv, MutexInv, Holding, AtDevice, MutexFollowsCall
<1> QED
  BY <1>1, Invariance, PTL

\* A queue is busy only on behalf of a caller (maddevcio.c).
THEOREM BusyQueueHasCaller == Spec => []BusyHasCaller
<1>1. IInv => BusyHasCaller
  BY DEF IInv, QueueInv, AtDevice, BusyHasCaller
<1> QED
  BY <1>1, Invariance, PTL

\* Between calls the queues are free, so that the next call is not refused
\* (maddevcio.c:63, 217).
THEOREM IdleQueuesAreFree == Spec => []QueuesFreeWhenIdle
<1>1. IInv => QueuesFreeWhenIdle
  BY DEF IInv, QueueInv, IoQueues, AtDevice, QueuesFreeWhenIdle
<1> QED
  BY <1>1, Invariance, PTL

\* Between the pick-up of an i/o and its interrupt nobody but the device thread
\* changes the registers, although it holds no lock (mbdevthread.c:303-345).
THEOREM DeviceIsUndisturbed == Spec => DeviceUndisturbed
<1>1. IInv /\ [Next]_vars => [(dev \in {"xfer", "isr"} /\ regs' # regs) => (dev' # dev)]_vars
  <2> SUFFICES ASSUME IInv, Next, dev \in {"xfer", "isr"}, regs' # regs
               PROVE  dev' # dev
    OBVIOUS
  <2>1. PICK p \in Callers : /\ pc[p] \in AtDevice /\ Queue(p) = "eIoPending" /\ Phase(p)
                             /\ \A q \in Callers : q # p => pc[q] \notin AtDevice /\ pc[q] # "prog"
    BY SomeoneAtDevice DEF IInv, Quiet
  <2>2. pc[p] # "go" /\ (PickedUp(p) \/ Raised(p))
    BY <2>1 DEF Phase, AtDevice, Answered, Armed, Scheduled, Resetting
  <2>3. ~dpcSched
    BY <2>2 DEF PickedUp, Raised
  <2>4. CASE DevStep
    BY <2>4 DEF DevStep, DevPoll, DevNop, DevSequenceError, DevPickUp, DevTransfer, DevIsr
  <2>5. CASE DpcStep
    BY <2>3, <2>5 DEF DpcStep, DpcReset, DpcWake
  <2>6. ASSUME NEW q \in Callers, CallerStep(q) \/ (\E r \in Request : Call(q, r))
        PROVE  FALSE
    <3>1. pc[q] \notin {"prog", "go"}
      BY <2>1, <2>2 DEF AtDevice
    <3> QED
      BY <2>6, <3>1 DEF CallerStep, Call, LockDevmutex, Refuse, QueueIsFree, FillOutBufr,
         FillFault, SetPending, ProgramIo, SetGo, ReleaseDevlock, WaitOk, WaitError,
         LateQueueReset, CopyToCaller, UnlockDevmutex
  <2> QED
    BY <2>4, <2>5, <2>6 DEF Next
<1> QED
  BY <1>1, Invariance, PTL DEF Spec, DeviceUndisturbed
=============================================================================
