-------------------------- MODULE MadCharCtl_proof --------------------------
(***************************************************************************)
(* What the character driver keeps while the user's control operations     *)
(* rewrite its registers at any moment: CtlInv for every mix of calls and  *)
(* operations, SyncInv for synchronous calls without the two ioctls that   *)
(* program the device by hand.                                             *)
(***************************************************************************)
EXTENDS MadCharCtlInv, MadCharIo_proof

USE DEF callerVars, queueVars, bufrVars, devVars, dpcVars

\* Goto moves one caller and keeps the types of pc and req; the request ends
\* with its call.
LEMMA CtlGoto ==
  ASSUME CtlTypeOK, NEW p \in Callers, NEW l, Goto(p, l),
         l \in {"idle", "lock", "check", "fill", "pend", "prog", "go", "release",
                "wait", "reset_f", "copy", "unlock"}
  PROVE  /\ pc'[p] = l
         /\ \A q \in Callers : q # p => pc'[q] = pc[q] /\ req'[q] = req[q]
         /\ l # "idle" => req' = req
         /\ pc' \in [Callers -> {"idle", "lock", "check", "fill", "pend", "prog", "go",
                                 "release", "wait", "reset_f", "copy", "unlock"}]
         /\ req' \in [Callers -> Request]
BY DEF Goto, CtlTypeOK, Request, NoRequest, Dir

\* The direction of a request is one of two.
LEMMA CtlDirOf ==
  ASSUME CtlTypeOK, NEW p \in Callers
  PROVE  req[p].dir \in Dir /\ req[p].dir \in IoQueues
BY DEF CtlTypeOK, Request, Dir, IoQueues

\* A control operation, of the bus or of the device, writes registers and
\* nothing else.
LEMMA ControlFrame ==
  ASSUME BusCtl \/ DevCtl
  PROVE  UNCHANGED onlyRegs
BY DEF BusCtl, DevCtl, BusReset, BusExpire, BusSetStatus, BusSetIntID, IoctlInit, IoctlReset,
       IoctlSetEnable, IoctlSetControl, onlyRegs

\* Whatever it writes is a register file.
LEMMA ControlType ==
  ASSUME CtlTypeOK, BusCtl \/ DevCtl
  PROVE  regs' \in Registers
<1> USE DEF CtlTypeOK
<1>1. CASE BusReset
  BY <1>1, ResetType DEF BusReset
<1>2. CASE BusExpire
  BY <1>2, TagMaxAssumption DEF BusExpire, RegistersExpired, Registers, Count, ControlBits,
     ErrorMask, AllValidMask
<1>3. ASSUME NEW status \in StatusArgs, BusSetStatus(status) PROVE regs' \in Registers
  BY <1>3, StatusArgsAssumption DEF BusSetStatus, Registers, Count
<1>4. ASSUME NEW id \in IntIDArgs, BusSetIntID(id) PROVE regs' \in Registers
  BY <1>4, IntIDArgsAssumption DEF BusSetIntID, Registers
<1>5. CASE IoctlInit
  BY <1>5, ResetType DEF IoctlInit, MadRegsRst, Registers, ControlBits, GoBits, AllValidMask
<1>6. CASE IoctlReset
  BY <1>6 DEF IoctlReset, Registers, Count
<1>7. ASSUME NEW enable \in EnableArgs, IoctlSetEnable(enable) PROVE regs' \in Registers
  BY <1>7, EnableArgsAssumption DEF IoctlSetEnable, Registers
<1>8. ASSUME NEW control \in ControlArgs, IoctlSetControl(control) PROVE regs' \in Registers
  BY <1>8, ControlArgsAssumption DEF IoctlSetControl, Registers, Count
<1> QED
  BY <1>1, <1>2, <1>3, <1>4, <1>5, <1>6, <1>7, <1>8 DEF BusCtl, DevCtl

-----------------------------------------------------------------------------
\* The types along the steps of a caller.
LEMMA CtlTypeCaller ==
  ASSUME CtlTypeOK, NEW p \in Callers, CallerStep(p) \/ (\E r \in Request : Call(p, r))
  PROVE  CtlTypeOK'
<1>0. CASE \E r \in Request : Call(p, r)
  BY <1>0 DEF CtlTypeOK, Call
<1>1. CASE LockDevmutex(p)
  BY <1>1, CtlGoto DEF CtlTypeOK, LockDevmutex
<1>2. CASE Refuse(p)
  BY <1>2, CtlGoto DEF CtlTypeOK, Refuse, Exit
<1>3. CASE QueueIsFree(p)
  BY <1>3, CtlGoto DEF CtlTypeOK, QueueIsFree
<1>4. CASE FillOutBufr(p)
  BY <1>4, CtlGoto DEF CtlTypeOK, FillOutBufr
<1>5. CASE FillFault(p)
  BY <1>5, CtlGoto DEF CtlTypeOK, FillFault, Exit
<1>6. CASE SetPending(p)
  BY <1>6, CtlGoto DEF CtlTypeOK, SetPending, IoState
<1>7. CASE ProgramIo(p)
  <2>1. {"IOSIZE_BYTES"} \in SUBSET ControlBits
    BY DEF ControlBits
  <2>2. req[p].cnt \in Count
    BY CountsAssumption DEF CtlTypeOK, Request, Count
  <2>3. {IntBit[req[p].dir], "STATUS_ALERT"} \in SUBSET AllValidMask
    BY DEF CtlTypeOK, Request, IntBit, Dir, AllValidMask, InputMask, OutputMask
  <2>4. regs' \in Registers
    BY <1>7, <2>1, <2>2, <2>3, ProgramIoRegsType DEF ProgramIo, CtlTypeOK
  <2> QED
    BY <1>7, <2>4, CtlGoto DEF CtlTypeOK, ProgramIo
<1>8. CASE SetGo(p)
  <2>1. regs' \in Registers
    BY <1>8 DEF SetGo, CtlTypeOK, Registers, ControlBits, GoBits
  <2> QED
    BY <1>8, <2>1, CtlGoto DEF CtlTypeOK, SetGo
<1>9. CASE ReleaseDevlock(p)
  BY <1>9, CtlGoto DEF CtlTypeOK, ReleaseDevlock
<1>10. CASE WaitOk(p)
  BY <1>10, CtlGoto DEF CtlTypeOK, WaitOk, Exit, IoState
<1>11. CASE WaitError(p)
  BY <1>11, CtlGoto DEF CtlTypeOK, WaitError, Exit, IoState
<1>12. CASE LateQueueReset(p)
  BY <1>12, CtlGoto DEF CtlTypeOK, LateQueueReset, IoState
<1>13. CASE CopyToCaller(p)
  BY <1>13, CtlGoto DEF CtlTypeOK, CopyToCaller, Exit
<1>14. CASE UnlockDevmutex(p)
  BY <1>14, CtlGoto DEF CtlTypeOK, UnlockDevmutex
<1> QED
  BY <1>0, <1>1, <1>2, <1>3, <1>4, <1>5, <1>6, <1>7, <1>8, <1>9, <1>10, <1>11, <1>12,
     <1>13, <1>14 DEF CallerStep

\* The types along the steps of the device thread, its cache i/o included.
LEMMA CtlTypeDev ==
  ASSUME CtlTypeOK, DevStep \/ DevCtlStep
  PROVE  CtlTypeOK'
<1> USE DEF CtlTypeOK
<1>1. CASE DevPoll
  BY <1>1, ResetType DEF DevPoll, Registers
<1>2. CASE DevNop \/ DevPickUpNothing
  BY <1>2, ResetType DEF DevNop, DevPickUpNothing
<1>3. CASE DevSequenceError \/ DevPickUpDma
  BY <1>3 DEF DevSequenceError, DevPickUpDma
<1>4. CASE DevPickUp \/ DevPickUpCache \/ DevPickUpOneBlock
  BY <1>4 DEF DevPickUp, DevPickUpCache, DevPickUpOneBlock, Dir
<1>5. CASE DevTransfer
  <2>1. IntBit[iotype] \in AllValidMask
    BY DEF IntBit, Dir, AllValidMask, InputMask, OutputMask
  <2>2. regs' \in Registers
    BY <1>5, <2>1 DEF DevTransfer, Registers, Count
  <2> QED
    BY <1>5, <2>2, ResetType DEF DevTransfer
<1>6. CASE DevIsr
  <2>1. regs' \in Registers
    BY <1>6 DEF DevIsr, Registers
  <2> QED
    BY <1>6, <2>1 DEF DevIsr
<1>7. CASE DevCacheIo
  <2>1. PICK kind \in CacheIo : kind = ProgrammedIoType(seen)
    BY <1>7 DEF DevCacheIo
  <2>2. CacheIntBit[kind] \in AllValidMask
    BY DEF CacheIntBit, CacheIo, AllValidMask, InputMask, OutputMask
  <2>3. \/ regs' = [regs EXCEPT !.IntID = seen.IntID \cup {CacheIntBit[kind]}]
        \/ \E bit \in {"STATUS_ALERT", CacheIntBit[kind]}, errors \in {{}, {"OVER_UNDER_ERR"}} :
             regs' = [regs EXCEPT !.IntID = seen.IntID \cup {bit},
                                  !.Status = seen.Status \cup errors,
                                  !.ReadCount = seen.ReadCount, !.WriteCount = seen.WriteCount]
    BY <1>7, <2>1 DEF DevCacheIo
  <2>4. regs' \in Registers
    <3>1. "STATUS_ALERT" \in AllValidMask /\ "OVER_UNDER_ERR" \in ErrorMask
      BY DEF AllValidMask, ErrorMask
    <3>2. /\ seen.IntID \in SUBSET AllValidMask /\ seen.Status \in SUBSET ErrorMask
          /\ seen.ReadCount \in Count /\ seen.WriteCount \in Count
      BY DEF Registers
    <3>3. CASE regs' = [regs EXCEPT !.IntID = seen.IntID \cup {CacheIntBit[kind]}]
      BY <2>2, <3>2, <3>3 DEF Registers
    <3>4. CASE \E bit \in {"STATUS_ALERT", CacheIntBit[kind]},
                  errors \in {{}, {"OVER_UNDER_ERR"}} :
                 regs' = [regs EXCEPT !.IntID = seen.IntID \cup {bit},
                                      !.Status = seen.Status \cup errors,
                                      !.ReadCount = seen.ReadCount,
                                      !.WriteCount = seen.WriteCount]
      <4>1. PICK bit \in {"STATUS_ALERT", CacheIntBit[kind]},
                 errors \in {{}, {"OVER_UNDER_ERR"}} :
              regs' = [regs EXCEPT !.IntID = seen.IntID \cup {bit},
                                   !.Status = seen.Status \cup errors,
                                   !.ReadCount = seen.ReadCount,
                                   !.WriteCount = seen.WriteCount]
        BY <3>4
      <4>2. /\ seen.IntID \cup {bit} \in SUBSET AllValidMask
            /\ seen.Status \cup errors \in SUBSET ErrorMask
        BY <2>2, <3>1, <3>2
      <4> QED
        BY <3>2, <4>1, <4>2 DEF Registers
    <3> QED
      BY <2>3, <3>3, <3>4
  <2> QED
    BY <1>7, <2>4, ResetType DEF DevCacheIo
<1>8. CASE DevOneBlockDma
  <2>1. DmaIntBit[iotype] \in AllValidMask
    BY DEF DmaIntBit, Dir, AllValidMask, InputMask, OutputMask
  <2>2. regs' \in Registers
    BY <1>8, <2>1 DEF DevOneBlockDma, Registers, Count
  <2> QED
    BY <1>8, <2>2, ResetType DEF DevOneBlockDma
<1> QED
  BY <1>1, <1>2, <1>3, <1>4, <1>5, <1>6, <1>7, <1>8 DEF DevStep, DevCtlStep

-----------------------------------------------------------------------------
\* The mutex is held exactly at the program points of Holding, on every path.
LEMMA CtlMutexCaller ==
  ASSUME CtlTypeOK, MutexInv, NEW p \in Callers,
         CallerStep(p) \/ (\E r \in Request : Call(p, r))
  PROVE  MutexInv'
<1> USE NoCallerAssumption DEF MutexInv, Holding, AtDevice, Sync
<1>0. CASE \E r \in Request : Call(p, r)
  <2>1. PICK r \in Request : Call(p, r)
    BY <1>0
  <2>2. r.mode = "sync" => pc'[p] = "lock"
    BY <2>1 DEF Call, CtlTypeOK
  <2>3. r.mode # "sync" => pc'[p] = "check" /\ req'[p] = r
    BY <2>1 DEF Call, CtlTypeOK
  <2>4. \A q \in Callers : q # p => pc'[q] = pc[q] /\ req'[q] = req[q]
    BY <2>1 DEF Call, CtlTypeOK
  <2>5. devmutex' = devmutex /\ pc[p] = "idle"
    BY <2>1 DEF Call
  <2> QED
    BY <2>2, <2>3, <2>4, <2>5
<1>1. CASE LockDevmutex(p)
  BY <1>1, CtlGoto DEF LockDevmutex
<1>2. CASE Refuse(p)
  BY <1>2, CtlGoto DEF Refuse, Exit
<1>3. CASE QueueIsFree(p)
  BY <1>3, CtlGoto DEF QueueIsFree
<1>4. CASE FillOutBufr(p)
  BY <1>4, CtlGoto DEF FillOutBufr
<1>5. CASE FillFault(p)
  BY <1>5, CtlGoto DEF FillFault, Exit
<1>6. CASE SetPending(p)
  BY <1>6, CtlGoto DEF SetPending
<1>7. CASE ProgramIo(p)
  BY <1>7, CtlGoto DEF ProgramIo
<1>8. CASE SetGo(p)
  BY <1>8, CtlGoto DEF SetGo
<1>9. CASE ReleaseDevlock(p)
  BY <1>9, CtlGoto DEF ReleaseDevlock
<1>10. CASE WaitOk(p)
  BY <1>10, CtlGoto DEF WaitOk, Exit
<1>11. CASE WaitError(p)
  BY <1>11, CtlGoto DEF WaitError, Exit
<1>12. CASE LateQueueReset(p)
  BY <1>12, CtlGoto DEF LateQueueReset
<1>13. CASE CopyToCaller(p)
  BY <1>13, CtlGoto DEF CopyToCaller, Exit
<1>14. CASE UnlockDevmutex(p)
  BY <1>14, CtlGoto DEF UnlockDevmutex
<1> QED
  BY <1>0, <1>1, <1>2, <1>3, <1>4, <1>5, <1>6, <1>7, <1>8, <1>9, <1>10, <1>11, <1>12,
     <1>13, <1>14 DEF CallerStep

\* The spinlock is held exactly between the programming of an i/o and the
\* release.
LEMMA CtlLockCaller ==
  ASSUME CtlTypeOK, LockInv, NEW p \in Callers,
         CallerStep(p) \/ (\E r \in Request : Call(p, r))
  PROVE  LockInv'
<1> USE NoCallerAssumption DEF LockInv
<1>0. CASE \E r \in Request : Call(p, r)
  BY <1>0 DEF Call, CtlTypeOK
<1>1. CASE LockDevmutex(p) \/ Refuse(p) \/ QueueIsFree(p) \/ FillOutBufr(p) \/ FillFault(p)
  BY <1>1, CtlGoto DEF LockDevmutex, Refuse, QueueIsFree, FillOutBufr, FillFault, Exit
<1>2. CASE SetPending(p)
  BY <1>2, CtlGoto DEF SetPending
<1>3. CASE ProgramIo(p)
  BY <1>3, CtlGoto DEF ProgramIo
<1>4. CASE SetGo(p)
  BY <1>4, CtlGoto DEF SetGo
<1>5. CASE ReleaseDevlock(p)
  BY <1>5, CtlGoto DEF ReleaseDevlock
<1>6. CASE WaitOk(p) \/ WaitError(p)
  BY <1>6, CtlGoto DEF WaitOk, WaitError, Exit
<1>7. CASE LateQueueReset(p) \/ CopyToCaller(p) \/ UnlockDevmutex(p)
  BY <1>7, CtlGoto DEF LateQueueReset, CopyToCaller, UnlockDevmutex, Exit
<1> QED
  BY <1>0, <1>1, <1>2, <1>3, <1>4, <1>5, <1>6, <1>7 DEF CallerStep

\* A queue that is busy after a step of a caller has its caller: the only ways
\* out of the i/o are past the wait, where the queue is not busy.
LEMMA CtlQueueCaller ==
  ASSUME CtlTypeOK, CtlQueueInv, NEW p \in Callers,
         CallerStep(p) \/ (\E r \in Request : Call(p, r))
  PROVE  CtlQueueInv'
<1> USE DEF CtlQueueInv, AtDevice, Queue
<1>0. CASE \E r \in Request : Call(p, r)
  <2>1. /\ pc[p] = "idle" /\ io_f' = io_f
        /\ \A q \in Callers : q # p => pc'[q] = pc[q] /\ req'[q] = req[q]
    BY <1>0 DEF Call, CtlTypeOK
  <2> QED
    BY <2>1
<1>1. CASE LockDevmutex(p) \/ Refuse(p) \/ QueueIsFree(p) \/ FillOutBufr(p) \/ FillFault(p)
           \/ CopyToCaller(p) \/ UnlockDevmutex(p)
  <2>1. /\ pc[p] \notin {"prog"} \cup AtDevice /\ io_f' = io_f
        /\ \A q \in Callers : q # p => pc'[q] = pc[q] /\ req'[q] = req[q]
    <3>1. CASE LockDevmutex(p) BY <3>1, CtlGoto DEF LockDevmutex
    <3>2. CASE Refuse(p) BY <3>2, CtlGoto DEF Refuse, Exit
    <3>3. CASE QueueIsFree(p) BY <3>3, CtlGoto DEF QueueIsFree
    <3>4. CASE FillOutBufr(p) BY <3>4, CtlGoto DEF FillOutBufr
    <3>5. CASE FillFault(p) BY <3>5, CtlGoto DEF FillFault, Exit
    <3>6. CASE CopyToCaller(p) BY <3>6, CtlGoto DEF CopyToCaller, Exit
    <3>7. CASE UnlockDevmutex(p) BY <3>7, CtlGoto DEF UnlockDevmutex
    <3> QED BY <1>1, <3>1, <3>2, <3>3, <3>4, <3>5, <3>6, <3>7
  <2> QED
    BY <2>1
<1>2. CASE SetPending(p)
  <2>1. /\ pc[p] = "pend" /\ pc'[p] = "prog" /\ req' = req
        /\ \A q \in Callers : q # p => pc'[q] = pc[q]
        /\ io_f' = [io_f EXCEPT ![req[p].dir] = "eIoPending"]
    BY <1>2, CtlGoto DEF SetPending
  <2>2. \A d \in Dir : d # req[p].dir => io_f'[d] = io_f[d]
    BY <2>1 DEF CtlTypeOK, IoQueues
  <2> QED
    BY <2>1, <2>2
<1>3. CASE ProgramIo(p) \/ SetGo(p) \/ ReleaseDevlock(p)
  <2>1. /\ io_f' = io_f /\ req' = req /\ pc'[p] \in AtDevice
        /\ \A q \in Callers : q # p => pc'[q] = pc[q]
    <3>1. CASE ProgramIo(p) BY <3>1, CtlGoto DEF ProgramIo
    <3>2. CASE SetGo(p) BY <3>2, CtlGoto DEF SetGo
    <3>3. CASE ReleaseDevlock(p) BY <3>3, CtlGoto DEF ReleaseDevlock
    <3> QED BY <1>3, <3>1, <3>2, <3>3
  <2> QED
    BY <2>1
<1>4. CASE WaitOk(p) \/ WaitError(p) \/ LateQueueReset(p)
  <2>1. /\ pc[p] = "reset_f" \/ Queue(p) # "eIoPending"
        /\ io_f' \in {io_f, [io_f EXCEPT ![req[p].dir] = "eIoReset"]}
    BY <1>4 DEF WaitOk, WaitError, LateQueueReset
  <2>2. \A q \in Callers : q # p => pc'[q] = pc[q] /\ req'[q] = req[q]
    <3>1. CASE WaitOk(p) BY <3>1, CtlGoto DEF WaitOk, Exit
    <3>2. CASE WaitError(p) BY <3>2, CtlGoto DEF WaitError, Exit
    <3>3. CASE LateQueueReset(p) BY <3>3, CtlGoto DEF LateQueueReset
    <3> QED BY <1>4, <3>1, <3>2, <3>3
  <2>3. \A d \in Dir : io_f'[d] = "eIoPending" => io_f[d] = "eIoPending"
    BY <2>1, CtlDirOf DEF CtlTypeOK, IoQueues
  <2>4. ASSUME NEW d \in Dir, io_f'[d] = "eIoPending"
        PROVE  \E q \in Callers : pc'[q] \in {"prog"} \cup AtDevice /\ req'[q].dir = d
    <3>1. PICK q \in Callers : pc[q] \in {"prog"} \cup AtDevice /\ req[q].dir = d
      BY <2>3, <2>4
    <3>2. q # p
      BY <2>1, <2>3, <2>4, <3>1
    <3> QED
      BY <2>2, <3>1, <3>2
  <2> QED
    BY <2>4
<1> QED
  BY <1>0, <1>1, <1>2, <1>3, <1>4 DEF CallerStep

\* The device thread and the DPC hold no lock over a step, move no caller and
\* make no queue busy.
LEMMA CtlDevDpc ==
  ASSUME CtlTypeOK, DevStep \/ DevCtlStep \/ DpcStep
  PROVE  /\ UNCHANGED <<pc, req, devmutex, devlock>>
         /\ \A d \in Dir : io_f'[d] = "eIoPending" => io_f[d] = "eIoPending"
<1>1. CASE DevStep \/ DevCtlStep \/ DpcReset
  BY <1>1 DEF DevStep, DevCtlStep, DevPoll, DevNop, DevSequenceError, DevPickUp, DevTransfer,
     DevIsr, DevPickUpDma, DevPickUpOneBlock, DevOneBlockDma, DevPickUpNothing,
     DevPickUpCache, DevCacheIo, DpcReset
<1>2. CASE DpcWake
  <2>1. IoErrno(StatusErrno(IntRegState)) # "eIoPending"
    BY StatusErrnoType DEF IoErrno, DeviceErrno
  <2> QED
    BY <1>2, <2>1 DEF DpcWake, CtlTypeOK, IoQueues
<1> QED
  BY <1>1, <1>2 DEF DpcStep

LEMMA CtlTypeDpc ==
  ASSUME CtlTypeOK, DpcStep
  PROVE  CtlTypeOK'
<1>1. CASE DpcReset
  BY <1>1, ResetIoRegistersType DEF CtlTypeOK, DpcReset
<1>2. CASE DpcWake
  <2>1. IoErrno(StatusErrno(IntRegState)) \in IoState
    BY StatusErrnoType DEF IoErrno, IoState
  <2> QED
    BY <1>2, <2>1 DEF DpcWake, CtlTypeOK
<1> QED
  BY <1>1, <1>2 DEF DpcStep

-----------------------------------------------------------------------------
LEMMA CtlInvInit == Init => CtlInv
<1> SUFFICES ASSUME Init PROVE CtlInv
  OBVIOUS
<1>1. CtlTypeOK
  BY TypeInit DEF Init, TypeOK, CtlTypeOK
<1>2. \A p \in Callers : pc[p] = "idle"
  BY DEF Init
<1>3. MutexInv /\ LockInv
  BY <1>2, NoCallerAssumption DEF Init, MutexInv, LockInv, Holding, AtDevice
<1>4. CtlQueueInv
  BY DEF Init, CtlQueueInv, IoQueues
<1> QED
  BY <1>1, <1>3, <1>4 DEF CtlInv

LEMMA CtlInvStep == CtlInv /\ [CtlNext]_vars => CtlInv'
<1> SUFFICES ASSUME CtlInv, [CtlNext]_vars PROVE CtlInv'
  OBVIOUS
<1> USE DEF CtlInv
<1>1. CASE UNCHANGED vars
  BY <1>1 DEF vars, CtlTypeOK, MutexInv, LockInv, CtlQueueInv, Holding, Sync
<1>2. ASSUME NEW p \in Callers, CallerStep(p) \/ (\E r \in Request : Call(p, r))
      PROVE  CtlInv'
  BY <1>2, CtlTypeCaller, CtlMutexCaller, CtlLockCaller, CtlQueueCaller
<1>3. CASE DevStep \/ DevCtlStep \/ DpcStep
  <2>1. CtlTypeOK'
    BY <1>3, CtlTypeDev, CtlTypeDpc
  <2>2. MutexInv' /\ LockInv' /\ CtlQueueInv'
    BY <1>3, CtlDevDpc DEF MutexInv, LockInv, CtlQueueInv, Holding, Sync
  <2> QED
    BY <2>1, <2>2
<1>4. CASE BusCtl \/ DevCtl
  <2>1. UNCHANGED onlyRegs /\ regs' \in Registers
    BY <1>4, ControlFrame, ControlType
  <2> QED
    BY <2>1 DEF onlyRegs, CtlTypeOK, MutexInv, LockInv, CtlQueueInv, Holding, Sync
<1> QED
  BY <1>1, <1>2, <1>3, <1>4 DEF CtlNext, Next

\* Types, both locks and the queues, while the user's control operations write
\* the registers at any moment (madbusmain.c, maddevcmain.c).
THEOREM ControlInvariance == CtlSpec => []CtlInv
BY CtlInvInit, CtlInvStep, PTL DEF CtlSpec

\* No control operation makes a call leak the mutex or work without it, its
\* error returns included (maddevcio.c:86-96, 160-180).
THEOREM MutexFollowsCallUnderControl == CtlSpec => []MutexFollowsCall
<1>1. CtlInv => MutexFollowsCall
  BY NoCallerAssumption DEF CtlInv, MutexInv, Holding, AtDevice, MutexFollowsCall
<1> QED
  BY <1>1, ControlInvariance, PTL

\* No control operation leaves a queue busy without a caller inside its i/o
\* (maddevcio.c, maddevc.h).
THEOREM BusyHasCallerUnderControl == CtlSpec => []BusyHasCaller
<1>1. CtlInv => BusyHasCaller
  BY DEF CtlInv, CtlQueueInv, AtDevice, BusyHasCaller
<1> QED
  BY <1>1, ControlInvariance, PTL

-----------------------------------------------------------------------------
(***************************************************************************)
(* Synchronous calls only, and no ioctl that writes the enable or the      *)
(* control register: no registers but those a caller has programmed are    *)
(* ever picked up as a buffered i/o.                                       *)
(***************************************************************************)
\* One caller at a time is between its check and its answer.
LEMMA SyncAlone ==
  ASSUME SyncInv, NEW p \in Callers, Holding(p)
  PROVE  \A q \in Callers : q # p =>
           ~Holding(q) /\ pc[q] \notin {"pend", "prog"} \cup AtDevice
BY DEF SyncInv, CtlInv, MutexInv, Holding

\* While no caller waits for an answer there is nothing to pick up, move or
\* complete.
LEMMA Resting ==
  ASSUME SyncInv, \A p \in Callers : pc[p] \in {"release", "wait"} => Queue(p) # "eIoPending"
  PROVE  ~Pickable(regs) /\ ~Moving /\ ~Completing
BY DEF SyncInv, StageHasCaller

\* A step of a caller that is not at the device and leaves the queues alone.
LEMMA SyncAway ==
  ASSUME SyncInv, CtlInv', NEW p \in Callers,
         pc[p] \notin {"prog"} \cup AtDevice, pc'[p] \notin {"prog", "reset_f"} \cup AtDevice,
         Sync(p)',
         \A q \in Callers : q # p => pc'[q] = pc[q] /\ req'[q] = req[q],
         UNCHANGED <<io_f, regs, IntRegState, devVars, dpcVars>>
  PROVE  SyncInv'
<1>1. SyncOnly'
  BY DEF SyncInv, SyncOnly, Sync, Queue, AtDevice
<1>2. OneStage'
  BY DEF SyncInv, OneStage, Moving, Completing, Pickable
<1>3. ASSUME NEW q \in Callers
      PROVE  \/ q # p /\ Queue(q)' = Queue(q) /\ pc'[q] = pc[q]
             \/ q = p /\ pc'[q] \notin AtDevice
  BY DEF Queue
<1>4. StageHasCaller'
  <2>1. \A q \in Callers : pc[q] \in {"release", "wait"} => q # p
    BY DEF AtDevice
  <2> QED
    BY <1>3, <2>1 DEF SyncInv, StageHasCaller, Moving, Completing, Pickable
<1>5. HostIsCaller'
  BY <1>3 DEF SyncInv, HostIsCaller, Completing
<1>6. AnswerNotStolen'
  BY <1>3 DEF SyncInv, AnswerNotStolen, Answered, AtDevice
<1> QED
  BY <1>1, <1>2, <1>4, <1>5, <1>6 DEF SyncInv

\* A step of the caller that holds the mutex, after which nothing waits.
LEMMA SyncRests ==
  ASSUME CtlInv', SyncOnly', ~Pickable(regs)', ~Moving', ~Completing',
         \A q \in Callers : pc'[q] \in AtDevice =>
           ~Answered(q)' /\ regs'.HostPA \in {q, NoCaller}
  PROVE  SyncInv'
<1>1. OneStage'
  BY DEF OneStage, Completing
<1>2. StageHasCaller'
  BY DEF StageHasCaller
<1>3. HostIsCaller'
  BY DEF HostIsCaller
<1>4. AnswerNotStolen'
  <2>1. \A q \in Callers : ~Answered(q)'
    BY DEF Answered, AtDevice
  <2> QED
    BY <2>1 DEF AnswerNotStolen
<1> QED
  BY <1>1, <1>2, <1>3, <1>4 DEF SyncInv

\* The steps of a caller.
LEMMA SyncCaller ==
  ASSUME Modes \subseteq {"sync"}, SyncInv, CtlInv', NEW p \in Callers,
         CallerStep(p) \/ (\E r \in Request : Call(p, r))
  PROVE  SyncInv'
<1>a. CtlTypeOK /\ Sync(p) /\ pc[p] # "reset_f"
  BY DEF SyncInv, CtlInv, SyncOnly
<1>b. NoRequest.mode = "sync"
  BY DEF NoRequest
<1>0. CASE \E r \in Request : Call(p, r)
  <2>1. PICK r \in Request : Call(p, r)
    BY <1>0
  <2>2. /\ pc[p] = "idle" /\ pc'[p] \in {"lock", "check"} /\ req'[p].mode = "sync"
        /\ \A q \in Callers : q # p => pc'[q] = pc[q] /\ req'[q] = req[q]
        /\ UNCHANGED <<io_f, regs, IntRegState, devVars, dpcVars>>
    BY <1>a, <2>1 DEF Call, Sent, CtlTypeOK
  <2> QED
    BY <2>2, SyncAway DEF AtDevice, Sync
<1>1. CASE LockDevmutex(p) \/ Refuse(p) \/ QueueIsFree(p) \/ FillOutBufr(p) \/ FillFault(p)
           \/ CopyToCaller(p) \/ UnlockDevmutex(p)
  <2>1. PICK l \in {"idle", "lock", "check", "fill", "pend", "unlock"} :
          /\ Goto(p, l) /\ pc[p] \notin {"prog"} \cup AtDevice
          /\ UNCHANGED <<io_f, regs, IntRegState, devVars, dpcVars>>
    BY <1>a, <1>1 DEF LockDevmutex, Refuse, QueueIsFree, FillOutBufr, FillFault, CopyToCaller,
       UnlockDevmutex, Exit, AtDevice
  <2>2. Sync(p)'
    BY <1>a, <1>b, <2>1 DEF Goto, Sync, CtlTypeOK
  <2>3. /\ pc'[p] = l /\ \A q \in Callers : q # p => pc'[q] = pc[q] /\ req'[q] = req[q]
    BY <1>a, <2>1, CtlGoto
  <2> QED
    BY <2>1, <2>2, <2>3, SyncAway DEF AtDevice
<1>2. CASE SetPending(p)
  <2>1. /\ pc[p] = "pend" /\ Holding(p) /\ pc'[p] = "prog" /\ req' = req
        /\ \A q \in Callers : q # p => pc'[q] = pc[q]
        /\ io_f' = [io_f EXCEPT ![req[p].dir] = "eIoPending"]
        /\ UNCHANGED <<regs, IntRegState, devVars, dpcVars>>
    BY <1>a, <1>2, CtlGoto DEF SetPending, Holding
  <2>2. \A q \in Callers : q # p => pc'[q] \notin {"prog"} \cup AtDevice
    BY <2>1, SyncAlone
  <2>3. ~Pickable(regs) /\ ~Moving /\ ~Completing
    BY <2>1, Resting, SyncAlone DEF AtDevice
  <2>4. Queue(p)' = "eIoPending"
    BY <1>a, <2>1, CtlDirOf DEF Queue, CtlTypeOK
  <2>5. SyncOnly'
    BY <2>1, <2>2, <2>4 DEF SyncInv, SyncOnly, Sync, AtDevice
  <2>6. ~Pickable(regs)' /\ ~Moving' /\ ~Completing'
    BY <2>1, <2>3 DEF Pickable, Moving, Completing
  <2> QED
    BY <2>1, <2>2, <2>5, <2>6, SyncRests DEF AtDevice
<1>3. CASE ProgramIo(p)
  <2>1. /\ pc[p] = "prog" /\ Holding(p) /\ pc'[p] = "go" /\ req' = req
        /\ \A q \in Callers : q # p => pc'[q] = pc[q]
        /\ UNCHANGED <<io_f, IntRegState, devVars, dpcVars>>
    BY <1>a, <1>3, CtlGoto DEF ProgramIo, Holding
  <2>2. \A q \in Callers : q # p => pc'[q] \notin {"prog"} \cup AtDevice
    BY <2>1, SyncAlone
  <2>3. ~Moving /\ ~Completing
    BY <2>1, Resting, SyncAlone DEF AtDevice
  <2>4. regs'.Control = {"IOSIZE_BYTES"} /\ regs'.HostPA = p
    BY <1>a, <1>3 DEF ProgramIo, ProgramIoRegs, CtlTypeOK, Registers
  <2>5. ~Pickable(regs)' /\ ~Moving' /\ ~Completing'
    BY <2>1, <2>3, <2>4 DEF Pickable, GoBits, Moving, Completing
  <2>6. SyncOnly'
    BY <2>1 DEF SyncInv, SyncOnly, Sync, Queue
  <2> QED
    BY <2>1, <2>2, <2>4, <2>5, <2>6, SyncRests DEF AtDevice, Answered
<1>4. CASE SetGo(p)
  <2>1. /\ pc[p] = "go" /\ Holding(p) /\ pc'[p] = "release" /\ req' = req
        /\ \A q \in Callers : q # p => pc'[q] = pc[q]
        /\ UNCHANGED <<io_f, IntRegState, devVars, dpcVars>>
    BY <1>a, <1>4, CtlGoto DEF SetGo, Holding, AtDevice
  <2>2. \A q \in Callers : q # p => pc'[q] \notin {"prog"} \cup AtDevice
    BY <2>1, SyncAlone
  <2>3. ~Moving' /\ ~Completing'
    BY <2>1, Resting, SyncAlone DEF AtDevice, Moving, Completing
  <2>4. regs'.HostPA \in {p, NoCaller}
    BY <1>a, <1>4, <2>1 DEF SetGo, SyncInv, HostIsCaller, AtDevice, CtlTypeOK, Registers
  <2>5. SyncOnly'
    BY <2>1 DEF SyncInv, SyncOnly, Sync, Queue
  <2>6. Queue(p)' = "eIoPending"
    BY <2>1, <2>5 DEF SyncOnly
  <2>7. OneStage' /\ StageHasCaller'
    <3>1. ~dpcSched'
      BY <2>3 DEF Completing
    <3> QED
      BY <2>1, <2>3, <2>6, <3>1 DEF OneStage, StageHasCaller
  <2>8. HostIsCaller' /\ AnswerNotStolen'
    BY <2>1, <2>2, <2>3, <2>4 DEF HostIsCaller, AnswerNotStolen, Answered, AtDevice
  <2> QED
    BY <2>5, <2>7, <2>8 DEF SyncInv
<1>5. CASE ReleaseDevlock(p)
  <2>1. /\ pc[p] = "release" /\ pc'[p] = "wait" /\ req' = req
        /\ \A q \in Callers : q # p => pc'[q] = pc[q]
        /\ UNCHANGED <<io_f, regs, IntRegState, devVars, dpcVars>>
    BY <1>a, <1>5, CtlGoto DEF ReleaseDevlock
  <2>2. \A q \in Callers : Queue(q)' = Queue(q)
    BY <2>1 DEF Queue
  <2>3. SyncOnly' /\ OneStage'
    BY <2>1, <2>2 DEF SyncInv, SyncOnly, Sync, OneStage, Moving, Completing, Pickable
  <2>4. StageHasCaller'
    BY <2>1, <2>2 DEF SyncInv, StageHasCaller, Moving, Completing, Pickable
  <2>5. HostIsCaller'
    BY <2>1 DEF SyncInv, HostIsCaller, Completing, AtDevice
  <2>6. Queue(p) = "eIoPending"
    BY <2>1 DEF SyncInv, SyncOnly
  <2>7. AnswerNotStolen'
    BY <2>1, <2>2, <2>6 DEF SyncInv, AnswerNotStolen, Answered
  <2> QED
    BY <2>3, <2>4, <2>5, <2>7 DEF SyncInv
<1>6. CASE WaitOk(p) \/ WaitError(p)
  <2>1. /\ pc[p] = "wait" /\ Holding(p) /\ Queue(p) # "eIoPending"
        /\ UNCHANGED <<regs, IntRegState, devVars, dpcVars>>
    BY <1>6 DEF WaitOk, WaitError, Holding, AtDevice
  <2>2. PICK l \in {"copy", "unlock"} : Goto(p, l)
    BY <1>a, <1>6 DEF WaitOk, WaitError, Exit
  <2>3. pc'[p] = l /\ req' = req /\ \A q \in Callers : q # p => pc'[q] = pc[q]
    BY <1>a, <2>2, CtlGoto
  <2>4. \A q \in Callers : pc'[q] \notin {"prog"} \cup AtDevice
    BY <2>1, <2>3, SyncAlone DEF AtDevice
  <2>5. ~Pickable(regs)' /\ ~Moving' /\ ~Completing'
    BY <2>1, Resting, SyncAlone DEF AtDevice, Pickable, Moving, Completing
  <2>6. SyncOnly'
    BY <2>3, <2>4 DEF SyncInv, SyncOnly, Sync, AtDevice
  <2> QED
    BY <2>4, <2>5, <2>6, SyncRests
<1>7. CASE LateQueueReset(p)
  BY <1>a, <1>7 DEF LateQueueReset
<1> QED
  BY <1>0, <1>1, <1>2, <1>3, <1>4, <1>5, <1>6, <1>7 DEF CallerStep

\* A step that leaves the callers and their queues alone keeps what is said of
\* them.
LEMMA SyncFrame ==
  ASSUME SyncInv, UNCHANGED <<pc, req, io_f>>
  PROVE  /\ SyncOnly'
         /\ \A p \in Callers : Queue(p)' = Queue(p) /\ (Answered(p)' <=> Answered(p))
BY DEF SyncInv, SyncOnly, Sync, Queue, Answered

\* The steps of the device thread: it moves data only for a caller that waits.
LEMMA SyncDev ==
  ASSUME SyncInv, DmaIsChained, CtlInv', DevStep \/ DevCtlStep
  PROVE  SyncInv'
<1>a. CtlTypeOK /\ OneStage /\ StageHasCaller /\ HostIsCaller /\ AnswerNotStolen
  BY DEF SyncInv, CtlInv
<1>b. UNCHANGED <<pc, req, io_f>>
  BY DEF DevStep, DevCtlStep, DevPoll, DevNop, DevSequenceError, DevPickUp, DevTransfer,
     DevIsr, DevPickUpDma, DevPickUpOneBlock, DevOneBlockDma, DevPickUpNothing,
     DevPickUpCache, DevCacheIo
<1>c. /\ SyncOnly'
      /\ \A p \in Callers : Queue(p)' = Queue(p) /\ (Answered(p)' <=> Answered(p))
  BY <1>b, SyncFrame
<1>1. CASE DevPoll \/ DevNop \/ DevSequenceError \/ DevPickUpDma \/ DevPickUpNothing
           \/ DevPickUpCache \/ DevPickUpOneBlock
  <2>1. UNCHANGED <<regs, IntRegState, dpcVars>> /\ ~Moving'
    BY <1>1 DEF DevPoll, DevNop, DevSequenceError, DevPickUpDma, DevPickUpNothing,
       DevPickUpCache, DevPickUpOneBlock, Moving
  <2>2. OneStage' /\ StageHasCaller'
    BY <1>a, <1>b, <1>c, <2>1 DEF OneStage, StageHasCaller, Completing, Pickable
  <2>3. HostIsCaller' /\ AnswerNotStolen'
    BY <1>a, <1>b, <1>c, <2>1 DEF HostIsCaller, AnswerNotStolen, Completing
  <2> QED
    BY <1>c, <2>2, <2>3 DEF SyncInv
<1>2. CASE DevPickUp
  <2>1. UNCHANGED <<regs, IntRegState, dpcVars>>
    BY <1>2 DEF DevPickUp
  <2>2. Pickable(regs)
    BY <1>2 DEF DevPickUp, Programmed, Pickable, IoType, Dir
  <2>3. ~Completing
    BY <1>a, <2>2 DEF OneStage
  <2>4. OneStage' /\ StageHasCaller'
    BY <1>a, <1>b, <1>c, <2>1, <2>2, <2>3 DEF OneStage, StageHasCaller, Completing, Pickable
  <2>5. HostIsCaller' /\ AnswerNotStolen'
    BY <1>a, <1>b, <1>c, <2>1 DEF HostIsCaller, AnswerNotStolen, Completing
  <2> QED
    BY <1>c, <2>4, <2>5 DEF SyncInv
<1>3. CASE DevTransfer
  <2>1. UNCHANGED <<IntRegState, dpcVars>> /\ Moving /\ regs'.HostPA = regs.HostPA
    BY <1>3, <1>a DEF DevTransfer, Moving, CtlTypeOK, Registers
  <2>2. OneStage' /\ StageHasCaller'
    BY <1>a, <1>b, <1>c, <2>1 DEF OneStage, StageHasCaller, Completing
  <2>3. HostIsCaller' /\ AnswerNotStolen'
    BY <1>a, <1>b, <1>c, <2>1 DEF HostIsCaller, AnswerNotStolen, Completing
  <2> QED
    BY <1>c, <2>2, <2>3 DEF SyncInv
<1>4. CASE DevIsr
  <2>1. /\ Moving /\ ~Moving' /\ dpc' = dpc /\ devlock = NoCaller /\ IntRegState' = regs
        /\ regs' = [regs EXCEPT !.IntEnable = {}]
    BY <1>4 DEF DevIsr, Moving
  <2>2. PICK p \in Callers : pc[p] \in {"release", "wait"} /\ Queue(p) = "eIoPending"
    BY <1>a, <2>1 DEF StageHasCaller
  <2>3. pc[p] = "wait"
    BY <2>1, <2>2, NoCallerAssumption DEF SyncInv, CtlInv, LockInv
  <2>4. \A q \in Callers : q # p => pc[q] \notin AtDevice
    BY <2>3, SyncAlone DEF Holding, AtDevice
  <2>5. regs'.IntEnable = {} /\ regs'.HostPA = regs.HostPA
    BY <1>a, <2>1 DEF CtlTypeOK, Registers
  <2>6. ~Pickable(regs')
    BY <2>5 DEF Pickable, ProgrammedIoType
  <2>7. ~dpc'
    BY <1>a, <2>1 DEF OneStage
  <2>8. OneStage' /\ StageHasCaller'
    BY <1>b, <1>c, <2>1, <2>2, <2>3, <2>6, <2>7 DEF OneStage, StageHasCaller, Pickable
  <2>9. HostIsCaller'
    BY <1>a, <1>b, <2>1, <2>5 DEF HostIsCaller
  <2>10. \A q \in Callers : ~Answered(q)
    BY <2>2, <2>4 DEF Answered, AtDevice
  <2> QED
    BY <1>c, <2>8, <2>9, <2>10 DEF SyncInv, AnswerNotStolen
<1>5. CASE DevCacheIo
  <2>1. /\ UNCHANGED <<IntRegState, dpcVars>> /\ ~Moving'
        /\ regs'.Control = regs.Control /\ regs'.IntEnable = regs.IntEnable
        /\ regs'.HostPA = regs.HostPA
    BY <1>5, <1>a DEF DevCacheIo, Moving, CtlTypeOK, Registers
  <2>2. Pickable(regs') <=> Pickable(regs)
    BY <2>1 DEF Pickable, ProgrammedIoType
  <2>3. OneStage' /\ StageHasCaller'
    BY <1>a, <1>b, <1>c, <2>1, <2>2 DEF OneStage, StageHasCaller, Completing, Pickable
  <2>4. HostIsCaller' /\ AnswerNotStolen'
    BY <1>a, <1>b, <1>c, <2>1 DEF HostIsCaller, AnswerNotStolen, Completing
  <2> QED
    BY <1>c, <2>3, <2>4 DEF SyncInv
<1>6. CASE DevOneBlockDma
  BY <1>6 DEF DevOneBlockDma, DmaIsChained
<1> QED
  BY <1>1, <1>2, <1>3, <1>4, <1>5, <1>6 DEF DevStep, DevCtlStep

\* The steps of the DPC: the queue it answers is that of the one caller that
\* waits, and only on its own interrupt.
LEMMA SyncDpc ==
  ASSUME SyncInv, CtlInv', DpcStep
  PROVE  SyncInv'
<1>a. /\ CtlTypeOK /\ OneStage /\ StageHasCaller /\ HostIsCaller /\ AnswerNotStolen
      /\ SyncOnly
  BY DEF SyncInv, CtlInv
<1>b. UNCHANGED <<pc, req, IntRegState, devVars>> /\ Completing
  BY DEF DpcStep, DpcReset, DpcWake, Completing
<1>c. ~Pickable(regs) /\ ~Moving'
  BY <1>a, <1>b DEF OneStage, Moving, Completing
<1>1. CASE DpcReset
  <2>1. /\ io_f' = io_f /\ ~dpcSched' /\ Completing'
        /\ regs' \in {regs, ResetIoRegisters(regs)}
    BY <1>1 DEF DpcReset, Completing
  <2>2. regs'.HostPA = regs.HostPA
    BY <1>a, <2>1 DEF CtlTypeOK, Registers, ResetIoRegisters
  <2>3. ~Pickable(regs')
    <3>1. CASE regs' = regs
      BY <1>c, <3>1
    <3>2. CASE regs' = ResetIoRegisters(regs)
      BY <1>a, <3>2 DEF CtlTypeOK, Registers, ResetIoRegisters, Pickable
    <3> QED
      BY <2>1, <3>1, <3>2
  <2>4. /\ SyncOnly'
        /\ \A p \in Callers : Queue(p)' = Queue(p) /\ (Answered(p)' <=> Answered(p))
    BY <1>b, <2>1, SyncFrame
  <2>5. OneStage' /\ StageHasCaller'
    BY <1>a, <1>b, <1>c, <2>1, <2>3, <2>4 DEF OneStage, StageHasCaller, Pickable
  <2>6. HostIsCaller' /\ AnswerNotStolen'
    BY <1>a, <1>b, <2>2, <2>4 DEF HostIsCaller, AnswerNotStolen
  <2> QED
    BY <2>4, <2>5, <2>6 DEF SyncInv
<1>2. CASE DpcWake
  <2>1. PICK p \in Callers : pc[p] = "wait" /\ Queue(p) = "eIoPending"
    BY <1>a, <1>b DEF StageHasCaller
  <2>2. \A q \in Callers : q # p => pc[q] \notin {"prog"} \cup AtDevice
    BY <2>1, SyncAlone DEF Holding, AtDevice
  <2>3. regs' = regs /\ ~Completing'
    BY <1>2, <1>a DEF DpcWake, OneStage, Completing
  <2>4. OneStage' /\ StageHasCaller' /\ HostIsCaller'
    <3>1. ~dpcSched'
      BY <2>3 DEF Completing
    <3> QED
      BY <1>a, <1>b, <1>c, <2>3, <3>1 DEF OneStage, StageHasCaller, HostIsCaller, Pickable
  <2>5. SyncOnly'
    BY <1>a, <1>b, <2>1, <2>2 DEF SyncOnly, Sync, AtDevice
  <2>6. ASSUME Answered(p)'
        PROVE  IntBit[req[p].dir] \in IntRegState.IntID
    <3>1. io_f'[req[p].dir] # io_f[req[p].dir]
      BY <1>b, <2>1, <2>6 DEF Answered, Queue
    <3>2. PICK q \in IoQueues :
            /\ Completes(q)
            /\ io_f' = [io_f EXCEPT ![q] = IoErrno(StatusErrno(IntRegState))]
      BY <1>2, <3>1 DEF DpcWake
    <3>3. q = req[p].dir
      BY <1>a, <3>1, <3>2, CtlDirOf DEF CtlTypeOK
    <3> QED
      BY <1>a, <3>2, <3>3, CtlDirOf DEF Completes, Reported, Dir
  <2>7. AnswerNotStolen'
    <3>1. IntRegState.HostPA \in {p, NoCaller}
      BY <1>a, <1>b, <2>1 DEF HostIsCaller, AtDevice
    <3> QED
      BY <1>b, <2>2, <2>6, <3>1 DEF AnswerNotStolen, Answered, AtDevice
  <2> QED
    BY <2>4, <2>5, <2>7 DEF SyncInv
<1> QED
  BY <1>1, <1>2 DEF DpcStep

\* A control operation other than the two that write the enable and the control
\* register arms nothing and names no caller.
LEMMA ControlArmsNothing ==
  ASSUME CtlOps \cap {"dev_enable", "dev_control"} = {}, CtlTypeOK, BusCtl \/ DevCtl
  PROVE  /\ Pickable(regs') => Pickable(regs)
         /\ regs'.HostPA \in {regs.HostPA, NoCaller}
<1>1. CASE BusReset
  BY <1>1 DEF BusReset, RegistersAtReset, Pickable
<1>2. CASE BusExpire
  BY <1>2 DEF BusExpire, RegistersExpired, Pickable, ProgrammedIoType, AllValidMask, OutputMask
<1>3. CASE IoctlInit
  <2>1. regs'.IntEnable = InputMask /\ regs'.HostPA = NoCaller
    BY <1>3 DEF IoctlInit, MadRegsRst, RegistersAtReset
  <2> QED
    BY <2>1 DEF Pickable, ProgrammedIoType, InputMask
<1>4. ASSUME /\ regs'.Control = regs.Control /\ regs'.IntEnable = regs.IntEnable
             /\ regs'.HostPA = regs.HostPA
      PROVE  /\ Pickable(regs') => Pickable(regs)
             /\ regs'.HostPA \in {regs.HostPA, NoCaller}
  BY <1>4 DEF Pickable, ProgrammedIoType
<1>5. CASE IoctlReset
  BY <1>4, <1>5 DEF IoctlReset, CtlTypeOK, Registers
<1>6. ASSUME NEW status \in StatusArgs, BusSetStatus(status)
      PROVE  /\ Pickable(regs') => Pickable(regs)
             /\ regs'.HostPA \in {regs.HostPA, NoCaller}
  BY <1>4, <1>6 DEF BusSetStatus, CtlTypeOK, Registers
<1>7. ASSUME NEW id \in IntIDArgs, BusSetIntID(id)
      PROVE  /\ Pickable(regs') => Pickable(regs)
             /\ regs'.HostPA \in {regs.HostPA, NoCaller}
  BY <1>4, <1>7 DEF BusSetIntID, CtlTypeOK, Registers
<1> QED
  BY <1>1, <1>2, <1>3, <1>5, <1>6, <1>7 DEF BusCtl, DevCtl, IoctlSetEnable, IoctlSetControl

LEMMA SyncControl ==
  ASSUME CtlOps \cap {"dev_enable", "dev_control"} = {},
         SyncInv, CtlInv', BusCtl \/ DevCtl
  PROVE  SyncInv'
<1>a. CtlTypeOK /\ OneStage /\ StageHasCaller /\ HostIsCaller /\ AnswerNotStolen
  BY DEF SyncInv, CtlInv
<1>1. UNCHANGED <<pc, req, io_f, IntRegState, dev, dpcSched, dpc>>
  BY ControlFrame DEF onlyRegs
<1>2. /\ Pickable(regs)' => Pickable(regs)
      /\ regs'.HostPA \in {regs.HostPA, NoCaller}
  BY <1>a, ControlArmsNothing DEF Pickable
<1>3. /\ SyncOnly'
      /\ \A p \in Callers : Queue(p)' = Queue(p) /\ (Answered(p)' <=> Answered(p))
  BY <1>1, SyncFrame
<1>4. OneStage'
  BY <1>a, <1>1, <1>2 DEF OneStage, Moving, Completing
<1>5. StageHasCaller'
  BY <1>a, <1>1, <1>2, <1>3 DEF StageHasCaller, Moving, Completing
<1>6. HostIsCaller' /\ AnswerNotStolen'
  BY <1>a, <1>1, <1>2, <1>3 DEF HostIsCaller, AnswerNotStolen, Completing
<1> QED
  BY <1>3, <1>4, <1>5, <1>6 DEF SyncInv

\* Without the two ioctls that write the enable or the control register nothing
\* enables the interrupt of a DMA and leaves CHAINED_DMA clear.
LEMMA DmaIsChainedStep ==
  ASSUME CtlOps \cap {"dev_enable", "dev_control"} = {}
  PROVE  CtlTypeOK /\ DmaIsChained /\ [CtlNext]_vars => DmaIsChained'
<1> SUFFICES ASSUME CtlTypeOK, DmaIsChained, [CtlNext]_vars PROVE DmaIsChained'
  OBVIOUS
<1> DEFINE Dma == {"DMA_INPUT", "DMA_OUTPUT"}
<1>1. CASE UNCHANGED vars
  BY <1>1 DEF vars, DmaIsChained
<1>2. ASSUME NEW p \in Callers, CallerStep(p) \/ (\E r \in Request : Call(p, r))
      PROVE  DmaIsChained'
  <2>1. dev' = dev
    BY <1>2 DEF CallerStep, Call, LockDevmutex, Refuse, QueueIsFree, FillOutBufr, FillFault,
       SetPending, ProgramIo, SetGo, ReleaseDevlock, WaitOk, WaitError, LateQueueReset,
       CopyToCaller, UnlockDevmutex
  <2>2. CASE ProgramIo(p)
    <3>1. regs'.IntEnable = {IntBit[req[p].dir], "STATUS_ALERT"}
      BY <2>2 DEF ProgramIo, ProgramIoRegs, CtlTypeOK, Registers
    <3>2. regs'.IntEnable \cap Dma = {}
      BY <3>1, CtlDirOf DEF IntBit, Dir
    <3> QED
      BY <2>1, <3>2 DEF DmaIsChained
  <2>3. CASE SetGo(p)
    <3>1. regs'.IntEnable = regs.IntEnable /\ regs.Control \subseteq regs'.Control
      BY <2>3 DEF SetGo, CtlTypeOK, Registers
    <3> QED
      BY <2>1, <3>1 DEF DmaIsChained
  <2>4. CASE UNCHANGED regs
    BY <2>1, <2>4 DEF DmaIsChained
  <2> QED
    BY <1>2, <2>2, <2>3, <2>4 DEF CallerStep, Call, LockDevmutex, Refuse, QueueIsFree,
       FillOutBufr, FillFault, SetPending, ReleaseDevlock, WaitOk, WaitError, LateQueueReset,
       CopyToCaller, UnlockDevmutex
<1>3. CASE DevStep \/ DevCtlStep
  <2>1. CASE DevPickUpOneBlock
    BY <2>1 DEF DevPickUpOneBlock, DmaIo, ProgrammedIoType, DmaIsChained
  <2>2. CASE DevTransfer \/ DevCacheIo
    BY <2>2 DEF DevTransfer, DevCacheIo, CtlTypeOK, Registers, DmaIsChained
  <2>3. CASE DevIsr
    BY <2>3 DEF DevIsr, CtlTypeOK, Registers, DmaIsChained
  <2>4. CASE DevOneBlockDma
    BY <2>4 DEF DevOneBlockDma, DmaIsChained
  <2>5. CASE DevPoll \/ DevNop \/ DevSequenceError \/ DevPickUp \/ DevPickUpDma
             \/ DevPickUpNothing \/ DevPickUpCache
    BY <2>5 DEF DevPoll, DevNop, DevSequenceError, DevPickUp, DevPickUpDma, DevPickUpNothing,
       DevPickUpCache, DmaIsChained
  <2> QED
    BY <1>3, <2>1, <2>2, <2>3, <2>4, <2>5 DEF DevStep, DevCtlStep
<1>4. CASE DpcStep
  <2>1. dev' = dev
    BY <1>4 DEF DpcStep, DpcReset, DpcWake
  <2>2. CASE regs' = regs
    BY <2>1, <2>2 DEF DmaIsChained
  <2>3. CASE regs' = ResetIoRegisters(regs)
    BY <2>1, <2>3 DEF ResetIoRegisters, CtlTypeOK, Registers, DmaIsChained
  <2> QED
    BY <1>4, <2>2, <2>3 DEF DpcStep, DpcReset, DpcWake
<1>5. CASE BusCtl \/ DevCtl
  <2>1. dev' = dev
    BY <1>5, ControlFrame DEF onlyRegs
  <2>2. CASE BusReset
    BY <2>1, <2>2 DEF BusReset, RegistersAtReset, DmaIsChained
  <2>3. CASE BusExpire
    BY <2>1, <2>3 DEF BusExpire, RegistersExpired, ControlBits, DmaIsChained
  <2>4. CASE IoctlInit
    BY <2>1, <2>4 DEF IoctlInit, MadRegsRst, RegistersAtReset, DmaIsChained
  <2>5. CASE IoctlReset \/ (\E status \in StatusArgs : BusSetStatus(status))
             \/ (\E id \in IntIDArgs : BusSetIntID(id))
    BY <2>1, <2>5 DEF IoctlReset, BusSetStatus, BusSetIntID, CtlTypeOK, Registers, DmaIsChained
  <2> QED
    BY <1>5, <2>2, <2>3, <2>4, <2>5 DEF BusCtl, DevCtl, IoctlSetEnable, IoctlSetControl
<1> QED
  BY <1>1, <1>2, <1>3, <1>4, <1>5 DEF CtlNext, Next

LEMMA SyncInvInit == Init => SyncInv /\ DmaIsChained
<1> SUFFICES ASSUME Init PROVE SyncInv /\ DmaIsChained
  OBVIOUS
<1>1. CtlInv
  BY CtlInvInit
<1>2. /\ \A p \in Callers : pc[p] = "idle" /\ req[p] = NoRequest
      /\ regs = RegistersAtReset /\ dev = "poll" /\ ~dpcSched /\ ~dpc
  BY DEF Init
<1>3. ~Pickable(regs) /\ ~Moving /\ ~Completing
  BY <1>2 DEF Pickable, RegistersAtReset, Moving, Completing
<1>4. SyncOnly
  BY <1>2 DEF SyncOnly, Sync, NoRequest
<1>5. OneStage /\ StageHasCaller
  BY <1>2, <1>3 DEF OneStage, StageHasCaller
<1>6. HostIsCaller /\ AnswerNotStolen
  BY <1>2 DEF HostIsCaller, AtDevice, AnswerNotStolen, Answered
<1>7. DmaIsChained
  BY <1>2 DEF DmaIsChained, RegistersAtReset
<1> QED
  BY <1>1, <1>4, <1>5, <1>6, <1>7 DEF SyncInv

LEMMA SyncInvStep ==
  ASSUME Modes \subseteq {"sync"}, CtlOps \cap {"dev_enable", "dev_control"} = {}
  PROVE  SyncInv /\ DmaIsChained /\ [CtlNext]_vars => SyncInv'
<1> SUFFICES ASSUME SyncInv, DmaIsChained, [CtlNext]_vars PROVE SyncInv'
  OBVIOUS
<1>1. CtlInv'
  BY CtlInvStep DEF SyncInv
<1>2. CASE UNCHANGED vars
  <2>1. UNCHANGED <<pc, req, io_f, regs, IntRegState, dev, dpcSched, dpc>>
    BY <1>2 DEF vars
  <2>2. /\ SyncOnly'
        /\ \A p \in Callers : Queue(p)' = Queue(p) /\ (Answered(p)' <=> Answered(p))
    BY <2>1, SyncFrame
  <2>3. OneStage' /\ StageHasCaller'
    BY <2>1, <2>2 DEF SyncInv, OneStage, StageHasCaller, Moving, Completing, Pickable
  <2>4. HostIsCaller' /\ AnswerNotStolen'
    BY <2>1, <2>2 DEF SyncInv, HostIsCaller, AnswerNotStolen, Completing
  <2> QED
    BY <1>1, <2>2, <2>3, <2>4 DEF SyncInv
<1>3. CASE CtlNext
  BY <1>1, <1>3, SyncCaller, SyncDev, SyncDpc, SyncControl DEF CtlNext, Next
<1> QED
  BY <1>2, <1>3

\* With synchronous calls, whatever bus resets, expired registers, injected
\* status or interrupt bits and device resets do to the registers, the device
\* works only for the one caller that waits for it (mbdevthread.c, maddevc.h).
THEOREM SyncInvariance ==
  ASSUME Modes \subseteq {"sync"}, CtlOps \cap {"dev_enable", "dev_control"} = {}
  PROVE  CtlSpec => []SyncInv
<1>1. SyncInv => CtlTypeOK
  BY DEF SyncInv, CtlInv
<1>2. SyncInv /\ DmaIsChained /\ [CtlNext]_vars => (SyncInv /\ DmaIsChained)'
  BY <1>1, SyncInvStep, DmaIsChainedStep
<1> QED
  BY <1>2, SyncInvInit, PTL DEF CtlSpec

\* Under the same operations the completion an answered caller reads from the
\* shared register copy is never another caller's (maddevcio.c:86-96, 160-180).
THEOREM AnswersAreNotStolen ==
  ASSUME Modes \subseteq {"sync"}, CtlOps \cap {"dev_enable", "dev_control"} = {}
  PROVE  CtlSpec => []AnswerNotStolen
<1>1. SyncInv => AnswerNotStolen
  BY DEF SyncInv
<1> QED
  BY <1>1, SyncInvariance, PTL
=============================================================================
