--------------------------- MODULE MadCharIo_proof ---------------------------
(***************************************************************************)
(* Theorems about the character-mode i/o path, for every number of         *)
(* callers, every width of the counts and of the tag, and every mix of     *)
(* synchronous and queued calls.                                           *)
(***************************************************************************)
EXTENDS MadCharIoInv, TLAPS

\* The tag register keeps its range.
LEMMA NextTagType ==
  ASSUME NEW t \in 0 .. TagMax
  PROVE  NextTag(t) \in 0 .. TagMax
BY TagMaxAssumption DEF NextTag

\* maddev_status_to_errno returns success or one of its error codes.
LEMMA StatusErrnoType ==
  ASSUME NEW r
  PROVE  StatusErrno(r) \in DeviceErrno \cup {"ok"}
<1>1. CASE "STATUS_ALERT" \notin r.IntID
  BY <1>1 DEF StatusErrno
<1>2. CASE "STATUS_ALERT" \in r.IntID /\ r.ReadCount \cup r.WriteCount # {}
  BY <1>2 DEF StatusErrno, DeviceErrno
<1>3. CASE "STATUS_ALERT" \in r.IntID /\ ~(r.ReadCount \cup r.WriteCount # {})
  BY <1>3 DEF StatusErrno, DeviceErrno
<1> QED BY <1>1, <1>2, <1>3

\* Programming an i/o and resetting the registers leave a register file.
LEMMA ProgramIoRegsType ==
  ASSUME NEW r \in Registers, NEW c \in SUBSET ControlBits, NEW n \in Count,
         NEW e \in SUBSET AllValidMask, NEW h \in Callers \cup {NoCaller}
  PROVE  ProgramIoRegs(r, c, n, e, h) \in Registers
BY DEF ProgramIoRegs, Registers

LEMMA ResetIoRegistersType ==
  ASSUME NEW r \in Registers
  PROVE  ResetIoRegisters(r) \in Registers
BY NextTagType DEF ResetIoRegisters, Registers, Count

LEMMA ResetType == RegistersAtReset \in Registers
BY TagMaxAssumption DEF RegistersAtReset, Registers, Count

-----------------------------------------------------------------------------
USE DEF callerVars, queueVars, bufrVars, devVars, dpcVars

LEMMA TypeInit == Init => TypeOK
<1> SUFFICES ASSUME Init PROVE TypeOK
  OBVIOUS
<1>1. NoRequest \in Request
  BY DEF NoRequest, Request, Dir
<1>2. req \in [Callers -> Request] /\ io_f \in [IoQueues -> IoState]
  BY <1>1 DEF Init, IoState
<1>3. regs \in Registers /\ IntRegState \in Registers /\ seen \in Registers
  BY ResetType DEF Init
<1>4. dev_iotag \in 0 .. TagMax /\ iotype \in Dir
  BY TagMaxAssumption DEF Init, Dir
<1> QED
  BY <1>2, <1>3, <1>4 DEF Init, TypeOK

\* Goto moves one caller and keeps the types of pc and req.
LEMMA GotoType ==
  ASSUME TypeOK, NEW p \in Callers, NEW l, Goto(p, l),
         l \in {"idle", "lock", "check", "fill", "pend", "prog", "go", "release",
                "wait", "reset_f", "copy", "unlock"}
  PROVE  /\ pc' \in [Callers -> {"idle", "lock", "check", "fill", "pend", "prog", "go",
                               "release", "wait", "reset_f", "copy", "unlock"}]
         /\ req' \in [Callers -> Request]
BY DEF Goto, TypeOK, Request, NoRequest, Dir

LEMMA TypeCall ==
  ASSUME TypeOK, NEW p \in Callers, NEW r \in Request, Call(p, r)
  PROVE  TypeOK'
BY DEF TypeOK, Call

\* One step per action of a caller.
LEMMA TypeCaller ==
  ASSUME TypeOK, NEW p \in Callers, CallerStep(p)
  PROVE  TypeOK'
<1>1. CASE LockDevmutex(p)
  BY <1>1, GotoType DEF TypeOK, LockDevmutex
<1>2. CASE Refuse(p)
  BY <1>2, GotoType DEF TypeOK, Refuse, Exit
<1>3. CASE QueueIsFree(p)
  BY <1>3, GotoType DEF TypeOK, QueueIsFree
<1>4. CASE FillOutBufr(p)
  BY <1>4, GotoType DEF TypeOK, FillOutBufr
<1>5. CASE FillFault(p)
  BY <1>5, GotoType DEF TypeOK, FillFault, Exit
<1>6. CASE SetPending(p)
  BY <1>6, GotoType DEF TypeOK, SetPending, IoState
<1>7. CASE ProgramIo(p)
  <2>1. {"IOSIZE_BYTES"} \in SUBSET ControlBits
    BY DEF ControlBits
  <2>2. req[p].cnt \in Count
    BY CountsAssumption DEF TypeOK, Request, Count
  <2>3. {IntBit[req[p].dir], "STATUS_ALERT"} \in SUBSET AllValidMask
    BY DEF TypeOK, Request, IntBit, Dir, AllValidMask, InputMask, OutputMask
  <2>4. regs' \in Registers
    BY <1>7, <2>1, <2>2, <2>3, ProgramIoRegsType DEF ProgramIo, TypeOK
  <2> QED
    BY <1>7, <2>4, GotoType DEF TypeOK, ProgramIo
<1>8. CASE SetGo(p)
  <2>1. regs' \in Registers
    BY <1>8 DEF SetGo, TypeOK, Registers, ControlBits, GoBits
  <2> QED
    BY <1>8, <2>1, GotoType DEF TypeOK, SetGo
<1>9. CASE ReleaseDevlock(p)
  BY <1>9, GotoType DEF TypeOK, ReleaseDevlock
<1>10. CASE WaitOk(p)
  BY <1>10, GotoType DEF TypeOK, WaitOk, Exit, IoState
<1>11. CASE WaitError(p)
  BY <1>11, GotoType DEF TypeOK, WaitError, Exit, IoState
<1>12. CASE LateQueueReset(p)
  BY <1>12, GotoType DEF TypeOK, LateQueueReset, IoState
<1>13. CASE CopyToCaller(p)
  BY <1>13, GotoType DEF TypeOK, CopyToCaller, Exit
<1>14. CASE UnlockDevmutex(p)
  BY <1>14, GotoType DEF TypeOK, UnlockDevmutex
<1> QED
  BY <1>1, <1>2, <1>3, <1>4, <1>5, <1>6, <1>7, <1>8, <1>9, <1>10, <1>11, <1>12,
     <1>13, <1>14 DEF CallerStep

LEMMA TypeDev ==
  ASSUME TypeOK, DevStep
  PROVE  TypeOK'
<1>1. CASE DevPoll
  BY <1>1, ResetType DEF TypeOK, DevPoll, Registers
<1>2. CASE DevNop
  BY <1>2, ResetType DEF TypeOK, DevNop
<1>3. CASE DevSequenceError
  BY <1>3 DEF TypeOK, DevSequenceError
<1>4. CASE DevPickUp
  BY <1>4, NextTagType DEF TypeOK, DevPickUp
<1>5. CASE DevTransfer
  <2>1. IntBit[iotype] \in AllValidMask
    BY DEF TypeOK, IntBit, Dir, AllValidMask, InputMask, OutputMask
  <2>2. regs' \in Registers
    BY <1>5, <2>1 DEF DevTransfer, TypeOK, Registers, Count
  <2>3. inBufr' \in Callers \cup {NoCaller} /\ accepted' \in Callers \cup {NoCaller}
    BY <1>5 DEF DevTransfer, TypeOK, Registers
  <2> QED
    BY <1>5, <2>2, <2>3, ResetType DEF TypeOK, DevTransfer
<1>6. CASE DevIsr
  <2>1. regs' \in Registers
    BY <1>6 DEF DevIsr, TypeOK, Registers
  <2> QED
    BY <1>6, <2>1 DEF TypeOK, DevIsr
<1> QED
  BY <1>1, <1>2, <1>3, <1>4, <1>5, <1>6 DEF DevStep

LEMMA TypeDpc ==
  ASSUME TypeOK, DpcStep
  PROVE  TypeOK'
<1>1. CASE DpcReset
  BY <1>1, ResetIoRegistersType DEF TypeOK, DpcReset
<1>2. CASE DpcWake
  <2>1. IoErrno(StatusErrno(IntRegState)) \in IoState
    BY StatusErrnoType DEF IoErrno, IoState
  <2>2. io_f' \in [IoQueues -> IoState]
    BY <1>2, <2>1 DEF DpcWake, TypeOK
  <2> QED
    BY <1>2, <2>2 DEF TypeOK, DpcWake
<1> QED
  BY <1>1, <1>2 DEF DpcStep

LEMMA TypeStep == TypeOK /\ [Next]_vars => TypeOK'
<1> SUFFICES ASSUME TypeOK, [Next]_vars PROVE TypeOK'
  OBVIOUS
<1>1. CASE UNCHANGED vars
  BY <1>1 DEF TypeOK, vars
<1>2. CASE Next
  BY <1>2, TypeCall, TypeCaller, TypeDev, TypeDpc DEF Next
<1> QED
  BY <1>1, <1>2

\* Every variable keeps its type: no register, queue state or program point
\* outside those the code uses is ever reached (maddevcio.c, maddevc.h,
\* mbdevthread.c).
THEOREM TypeCorrect == Spec => []TypeOK
BY TypeInit, TypeStep, PTL DEF Spec
=============================================================================
