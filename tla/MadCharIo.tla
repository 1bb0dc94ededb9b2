------------------------------ MODULE MadCharIo ------------------------------
(***************************************************************************)
(* One buffered i/o of the character-mode driver from the system call to   *)
(* the return, and the simulated device that carries it out:               *)
(*                                                                         *)
(*   caller threads   read, write, readv/aio read, aio write               *)
(*                    (maddevcmain.c, maddevcio.c, maddrvrdefs.c)          *)
(*   device thread    polls the registers without a lock, moves the data,  *)
(*                    calls the driver's ISR (mbdevthread.c)               *)
(*   ISR              copies the registers, masks interrupts, schedules    *)
(*                    the DPC (maddevc.h)                                  *)
(*   DPC              a tasklet: resets the registers, wakes the waiter    *)
(*                                                                         *)
(* A critical section of devlock with no unlocked observer of its middle   *)
(* is one step; the programming of an i/o is three, because the device     *)
(* thread reads the registers while the lock is held.                      *)
(***************************************************************************)
EXTENDS MadRegisters

CONSTANTS
  Modes,     \* entry points in use: "sync" (read, write) and "aio" (read_iter, write_iter)
  Counts     \* counts the callers ask for

ASSUME ModesAssumption == Modes \subseteq {"sync", "aio"}
ASSUME CountsAssumption == Counts \subseteq SUBSET CountBit

VARIABLES
  pc,        \* where each caller is in its system call
  req,       \* each caller's request (NoRequest outside a call)
  devmutex,  \* holder of the device mutex
  devlock,   \* holder of the device spinlock
  io_f,      \* read_f, write_f and ioctl_f: states of the three i/o queues
  inBufr,    \* whose data the shared input buffer holds (pInBufr)
  outBufr,   \* whose data the shared output buffer holds (pOutBufr)
  accepted,  \* whose data the device took last
  regs,      \* the device's registers
  IntRegState, \* the driver's copy of the registers taken by the ISR
  dev,       \* where the device thread is in its loop
  iotype,    \* the kind of i/o the device thread is carrying out
  seen,      \* registers the device thread has read and not yet acted on
  dev_iotag, \* the tag the device expects next
  dpcSched,  \* the tasklet is scheduled
  dpc        \* the tasklet has reset the registers and not yet woken the waiter

callerVars == <<pc, req>>
queueVars  == <<devmutex, devlock, io_f>>
bufrVars   == <<inBufr, outBufr, accepted>>
devVars    == <<dev, iotype, seen, dev_iotag>>
dpcVars    == <<dpcSched, dpc>>
vars == <<callerVars, queueVars, bufrVars, regs, IntRegState, devVars, dpcVars>>

Dir == {"rd", "wr"}
IoQueues == Dir \cup {"ioctl"}

\* over: the count exceeds MAD_BUFRD_IO_MAX_SIZE.
Request == [dir : Dir, mode : {"sync", "aio"}, cnt : Counts \cup {{}}, over : BOOLEAN]

NoRequest == [dir |-> "rd", mode |-> "sync", cnt |-> {}, over |-> FALSE]

IoType == [d \in Dir |-> IF d = "rd" THEN "eBufrdRd" ELSE "eBufrdWr"]
IntBit == [d \in Dir |-> IF d = "rd" THEN "BUFRD_INPUT" ELSE "BUFRD_OUTPUT"]

\* eIoReset and eIoCmplt are the same value (zero).
IoState == {"eIoReset", "eIoPending"} \cup DeviceErrno

Sync(p) == req[p].mode = "sync"
Goto(p, l) ==
  /\ pc' = [pc EXCEPT ![p] = l]
  /\ req' = IF l = "idle" THEN [req EXCEPT ![p] = NoRequest] ELSE req
Queue(p) == io_f[req[p].dir]

\* Mutant of Exit: a return path that forgets the wrapper's mutex.
ExitForgetsMutex(p) == "idle"

\* Where a call goes when it gives up the device: a synchronous call still
\* holds the mutex its wrapper took.
Exit(p) == IF Sync(p) THEN "unlock" ELSE "idle"

Init ==
  /\ pc = [p \in Callers |-> "idle"]
  /\ req = [p \in Callers |-> NoRequest]
  /\ devmutex = NoCaller
  /\ devlock = NoCaller
  /\ io_f = [q \in IoQueues |-> "eIoReset"]
  /\ inBufr = NoCaller
  /\ outBufr = NoCaller
  /\ accepted = NoCaller
  /\ regs = RegistersAtReset
  /\ IntRegState = RegistersAtReset
  /\ dev = "poll"
  /\ iotype = "rd"
  /\ seen = RegistersAtReset
  /\ dev_iotag = 0
  /\ dpcSched = FALSE
  /\ dpc = FALSE

-----------------------------------------------------------------------------
(***************************************************************************)
(* Caller threads.                                                         *)
(***************************************************************************)
Sent(r) ==
  /\ r.mode \in Modes
  /\ r.cnt \in Counts
  /\ r.over => r.mode = "sync"

\* A thread enters the driver.  maddevc_read and maddevc_write take the mutex
\* first; the queued entry points look at the queue first.
Call(p, r) ==
  /\ pc[p] = "idle"
  /\ Sent(r)
  /\ req' = [req EXCEPT ![p] = r]
  /\ pc' = [pc EXCEPT ![p] = IF r.mode = "sync" THEN "lock" ELSE "check"]
  /\ UNCHANGED <<queueVars, bufrVars, regs, IntRegState, devVars, dpcVars>>

\* Mutant of LockDevmutex: the caller does not wait for the holder.
LockDevmutexNoWait(p) ==
  /\ pc[p] = "lock"
  /\ devmutex' = p
  /\ Goto(p, IF Sync(p) THEN "check" ELSE "pend")
  /\ UNCHANGED <<devlock, io_f, bufrVars, regs, IntRegState, devVars, dpcVars>>

LockDevmutex(p) ==
  /\ pc[p] = "lock"
  /\ devmutex = NoCaller
  /\ devmutex' = p
  /\ Goto(p, IF Sync(p) THEN "check" ELSE "pend")
  /\ UNCHANGED <<devlock, io_f, bufrVars, regs, IntRegState, devVars, dpcVars>>

\* The count does not fit the buffer, or the queue is not free.
Refuse(p) ==
  /\ pc[p] = "check"
  /\ \/ req[p].over                                   \* -EOVERFLOW
     \/ ~req[p].over /\ Queue(p) # "eIoReset"         \* -EAGAIN
  /\ Goto(p, Exit(p))
  /\ UNCHANGED <<queueVars, bufrVars, regs, IntRegState, devVars, dpcVars>>

QueueIsFree(p) ==
  /\ pc[p] = "check"
  /\ ~req[p].over
  /\ Queue(p) = "eIoReset"
  /\ Goto(p, IF req[p].dir = "wr" THEN "fill" ELSE IF Sync(p) THEN "pend" ELSE "lock")
  /\ UNCHANGED <<queueVars, bufrVars, regs, IntRegState, devVars, dpcVars>>

\* A write clears the shared output buffer and copies the caller's data to it.
\* maddev_queued_write does so before it takes the mutex.
FillOutBufr(p) ==
  /\ pc[p] = "fill"
  /\ outBufr' = p
  /\ Goto(p, IF Sync(p) THEN "pend" ELSE "lock")
  /\ UNCHANGED <<queueVars, inBufr, accepted, regs, IntRegState, devVars, dpcVars>>

\* Mutant of FillFault: the queue is marked busy before the copy that fails.
FillFaultAfterPending(p) ==
  /\ pc[p] = "fill"
  /\ outBufr' = NoCaller
  /\ io_f' = [io_f EXCEPT !["wr"] = "eIoPending"]
  /\ Goto(p, Exit(p))
  /\ UNCHANGED <<devmutex, devlock, inBufr, accepted, regs, IntRegState, devVars, dpcVars>>

FillFault(p) ==
  /\ pc[p] = "fill"
  /\ outBufr' = NoCaller
  /\ Goto(p, Exit(p))
  /\ UNCHANGED <<queueVars, inBufr, accepted, regs, IntRegState, devVars, dpcVars>>

\* The queue becomes busy; a read clears the shared input buffer.
SetPending(p) ==
  /\ pc[p] = "pend"
  /\ io_f' = [io_f EXCEPT ![req[p].dir] = "eIoPending"]
  /\ inBufr' = IF req[p].dir = "rd" THEN NoCaller ELSE inBufr
  /\ Goto(p, "prog")
  /\ UNCHANGED <<devmutex, devlock, outBufr, accepted, regs, IntRegState, devVars, dpcVars>>

\* maddevc_program_stream_io: lock and program everything but the go bit, ...
\* The registers are written one by one in the code; before the go bit the
\* device thread does nothing with them, so one step shows what it can see.
ProgramIo(p) ==
  /\ pc[p] = "prog"
  /\ devlock = NoCaller
  /\ devlock' = p
  /\ regs' = ProgramIoRegs(regs, {"IOSIZE_BYTES"}, req[p].cnt,
                           {IntBit[req[p].dir], "STATUS_ALERT"}, p)
  /\ Goto(p, "go")
  /\ UNCHANGED <<devmutex, io_f, bufrVars, IntRegState, devVars, dpcVars>>

\* ... then the go bit, ...
SetGo(p) ==
  /\ pc[p] = "go"
  /\ regs' = [regs EXCEPT !.Control = @ \cup {"BUFRD_GO"}]
  /\ Goto(p, "release")
  /\ UNCHANGED <<queueVars, bufrVars, IntRegState, devVars, dpcVars>>

\* ... and release the lock.
ReleaseDevlock(p) ==
  /\ pc[p] = "release"
  /\ devlock' = NoCaller
  /\ Goto(p, "wait")
  /\ UNCHANGED <<devmutex, io_f, bufrVars, regs, IntRegState, devVars, dpcVars>>

\* maddev_wait_get_io_status: the queue's state is the error code unless it is
\* eIoCmplt; then the copy of the status register decides.
IoStatus(p) == IF Queue(p) = "eIoReset" THEN StatusErrno(IntRegState) ELSE Queue(p)

CompletedCount(p) ==
  IF req[p].dir = "rd" THEN IntRegState.ReadCount ELSE IntRegState.WriteCount

\* Mutant of WaitOk: the mutex is given up before the data is copied.
WaitOkUnlocksEarly(p) ==
  /\ pc[p] = "wait"
  /\ Queue(p) # "eIoPending"
  /\ IoStatus(p) = "ok"
  /\ io_f' = [io_f EXCEPT ![req[p].dir] = "eIoReset"]
  /\ devmutex' = NoCaller
  /\ Goto(p, IF req[p].dir = "rd" THEN "copy" ELSE Exit(p))
  /\ UNCHANGED <<devlock, bufrVars, regs, IntRegState, devVars, dpcVars>>

\* The i/o succeeded: take the count and free the queue.  A queued call gives
\* up the mutex here, a queued read before it has copied its data.
WaitOk(p) ==
  /\ pc[p] = "wait"
  /\ Queue(p) # "eIoPending"
  /\ IoStatus(p) = "ok"
  /\ io_f' = [io_f EXCEPT ![req[p].dir] = "eIoReset"]
  /\ devmutex' = IF Sync(p) THEN devmutex ELSE NoCaller
  /\ Goto(p, IF req[p].dir = "rd" THEN "copy" ELSE Exit(p))
  /\ UNCHANGED <<devlock, bufrVars, regs, IntRegState, devVars, dpcVars>>

\* Mutant of WaitError: the queued write's error return keeps the mutex.
WaitErrorKeepsMutex(p) ==
  /\ pc[p] = "wait"
  /\ Queue(p) # "eIoPending"
  /\ IoStatus(p) # "ok"
  /\ io_f' = IF ~Sync(p) /\ req[p].dir = "wr"
               THEN [io_f EXCEPT ![req[p].dir] = "eIoReset"] ELSE io_f
  /\ Goto(p, IF ~Sync(p) /\ req[p].dir = "rd" THEN "reset_f" ELSE Exit(p))
  /\ UNCHANGED <<devmutex, devlock, bufrVars, regs, IntRegState, devVars, dpcVars>>

\* The i/o failed.  A synchronous call returns with its queue as it is; a
\* queued write frees the queue and the mutex; a queued read frees the mutex,
\* then the queue.
WaitError(p) ==
  /\ pc[p] = "wait"
  /\ Queue(p) # "eIoPending"
  /\ IoStatus(p) # "ok"
  /\ io_f' = IF ~Sync(p) /\ req[p].dir = "wr"
               THEN [io_f EXCEPT ![req[p].dir] = "eIoReset"] ELSE io_f
  /\ devmutex' = IF Sync(p) THEN devmutex ELSE NoCaller
  /\ Goto(p, IF ~Sync(p) /\ req[p].dir = "rd" THEN "reset_f" ELSE Exit(p))
  /\ UNCHANGED <<devlock, bufrVars, regs, IntRegState, devVars, dpcVars>>

LateQueueReset(p) ==
  /\ pc[p] = "reset_f"
  /\ io_f' = [io_f EXCEPT ![req[p].dir] = "eIoReset"]
  /\ Goto(p, "idle")
  /\ UNCHANGED <<devmutex, devlock, bufrVars, regs, IntRegState, devVars, dpcVars>>

\* A read copies the shared input buffer to its caller.
CopyToCaller(p) ==
  /\ pc[p] = "copy"
  /\ Goto(p, Exit(p))
  /\ UNCHANGED <<queueVars, bufrVars, regs, IntRegState, devVars, dpcVars>>

UnlockDevmutex(p) ==
  /\ pc[p] = "unlock"
  /\ devmutex' = NoCaller
  /\ Goto(p, "idle")
  /\ UNCHANGED <<devlock, io_f, bufrVars, regs, IntRegState, devVars, dpcVars>>

-----------------------------------------------------------------------------
(***************************************************************************)
(* The device thread.  It takes no lock before it calls the ISR.           *)
(***************************************************************************)
\* mbdt_get_programmed_iotype: IntEnable, IntID and IoTag are read first, ...
DevPoll ==
  /\ dev = "poll"
  /\ regs.IntEnable # {}
  /\ seen' = [RegistersAtReset EXCEPT !.IntID = regs.IntID, !.IoTag = regs.IoTag]
  /\ dev' = "decode"
  /\ UNCHANGED <<callerVars, queueVars, bufrVars, regs, IntRegState, iotype, dev_iotag, dpcVars>>

Programmed == regs.Control \cap GoBits # {} /\ seen.IntID = {}

\* ... then Control.  Nothing is programmed, or an i/o is in progress.
DevNop ==
  /\ dev = "decode"
  /\ ~Programmed
  /\ dev' = "poll"
  /\ seen' = RegistersAtReset
  /\ UNCHANGED <<callerVars, queueVars, bufrVars, regs, IntRegState, iotype, dev_iotag, dpcVars>>

\* The tags differ: BUG_ON kills the thread.
DevSequenceError ==
  /\ dev = "decode"
  /\ Programmed
  /\ dev_iotag # seen.IoTag
  /\ dev' = "bug"
  /\ UNCHANGED <<callerVars, queueVars, bufrVars, regs, IntRegState, iotype, seen, dev_iotag, dpcVars>>

\* mbdt_get_programmed_iotype_worker reads IntEnable once more and prefers an
\* output; then mbdt_process_bufrd_io reads the registers it will update.
DevPickUp ==
  /\ dev = "decode"
  /\ Programmed
  /\ dev_iotag = seen.IoTag
  /\ \E d \in Dir :
       /\ ProgrammedIoType(regs) = IoType[d]
       /\ iotype' = d
  /\ dev_iotag' = NextTag(dev_iotag)
  /\ seen' = regs
  /\ dev' = "xfer"
  /\ UNCHANGED <<callerVars, queueVars, bufrVars, regs, IntRegState, dpcVars>>

\* Mutant of DevTransfer: the interrupt is raised and no data is moved.
DevTransferNoData ==
  /\ dev = "xfer"
  /\ regs' = [regs EXCEPT !.IntID = seen.IntID \cup {IntBit[iotype]}]
  /\ seen' = RegistersAtReset
  /\ dev' = "isr"
  /\ UNCHANGED <<callerVars, queueVars, bufrVars, IntRegState, iotype, dev_iotag, dpcVars>>

\* mbdt_process_bufrd_io up to the call of the ISR: or the count into Status,
\* raise the interrupt, move the data between the device and the host buffer.
\* One step: madsim_complete_simulated_io decodes the direction again, from
\* registers that only a bus ioctl can have changed since the pick-up.
DevTransfer ==
  /\ dev = "xfer"
  /\ regs' = [regs EXCEPT
               !.IntID = seen.IntID \cup {IntBit[iotype]},
               !.Status = seen.Status,
               !.ReadCount = seen.ReadCount \cup (IF iotype = "rd" THEN seen.IoCount ELSE {}),
               !.WriteCount = seen.WriteCount \cup (IF iotype = "wr" THEN seen.IoCount ELSE {})]
  /\ \/ iotype = "rd" /\ inBufr' = regs.HostPA /\ UNCHANGED accepted
     \/ iotype = "wr" /\ accepted' = outBufr /\ UNCHANGED inBufr
  /\ seen' = RegistersAtReset  \* locals of a function that is done
  /\ dev' = "isr"
  /\ UNCHANGED <<callerVars, queueVars, outBufr, IntRegState, iotype, dev_iotag, dpcVars>>

\* maddevc_isr_worker_fn, called by the device thread: copy the registers,
\* mask the interrupts and, if an interrupt is raised, schedule the DPC.
DevIsr ==
  /\ dev = "isr"
  /\ devlock = NoCaller
  /\ IntRegState' = regs
  /\ regs' = [regs EXCEPT !.IntEnable = {}]
  /\ dpcSched' = (dpcSched \/ regs.IntID # {})
  /\ dev' = "poll"
  /\ UNCHANGED <<callerVars, queueVars, bufrVars, iotype, seen, dev_iotag, dpc>>

-----------------------------------------------------------------------------
(***************************************************************************)
(* maddevc_dpctask, a tasklet.                                             *)
(***************************************************************************)
\* maddev_reset_io_registers, under the lock.
DpcReset ==
  /\ dpcSched
  /\ ~dpc
  /\ devlock = NoCaller
  /\ dpcSched' = FALSE
  /\ dpc' = TRUE
  /\ regs' = IF IntRegState.IntID \cap AllValidMask # {} THEN ResetIoRegisters(regs) ELSE regs
  /\ UNCHANGED <<callerVars, queueVars, bufrVars, IntRegState, devVars>>

\* The completed i/o is an ioctl, whatever its interrupt reports.
IsIoctl(r) ==
  \/ r.Control \cap {"CACHE_XFER", "CHAINED_DMA"} # {}
  \/ r.IntID \cap {"ALIGN_INPUT", "ALIGN_OUTPUT"} # {}

Reported(d) == IntBit[d] \in IntRegState.IntID /\ io_f[d] = "eIoPending"

\* The queue the DPC hands the result to, if any: the ioctl queue, else a queue
\* that waits for the kind of i/o the interrupt reports, a read before a write.
Completes(q) ==
  IF IsIoctl(IntRegState) THEN q = "ioctl"
  ELSE q \in Dir /\ Reported(q) /\ (q = "wr" => ~Reported("rd"))

IoErrno(rc) == IF rc = "ok" THEN "eIoReset" ELSE rc

\* Hand the result to the queue and wake its waiter.
DpcWake ==
  /\ dpc
  /\ dpc' = FALSE
  /\ \/ \E q \in IoQueues :
          /\ Completes(q)
          /\ io_f' = [io_f EXCEPT ![q] = IoErrno(StatusErrno(IntRegState))]
     \/ /\ \A q \in IoQueues : ~Completes(q)  \* "If we got here we got trouble"
        /\ UNCHANGED io_f
  /\ UNCHANGED <<callerVars, devmutex, devlock, bufrVars, regs, IntRegState, devVars, dpcSched>>

-----------------------------------------------------------------------------
CallerStep(p) ==
  \/ LockDevmutex(p) \/ Refuse(p) \/ QueueIsFree(p) \/ FillOutBufr(p) \/ FillFault(p)
  \/ SetPending(p) \/ ProgramIo(p) \/ SetGo(p) \/ ReleaseDevlock(p)
  \/ WaitOk(p) \/ WaitError(p) \/ LateQueueReset(p) \/ CopyToCaller(p) \/ UnlockDevmutex(p)

DevStep == DevPoll \/ DevNop \/ DevSequenceError \/ DevPickUp \/ DevTransfer \/ DevIsr

DpcStep == DpcReset \/ DpcWake

Next ==
  \/ \E p \in Callers : CallerStep(p) \/ (\E r \in Request : Call(p, r))
  \/ DevStep
  \/ DpcStep

\* The device thread yields with schedule() and is bound to a processor of its
\* own; tasklets run; a woken caller runs; the mutex is handed to its waiters in
\* turn.
Fairness ==
  /\ WF_vars(DevStep)
  /\ WF_vars(DpcStep)
  /\ \A p \in Callers : WF_vars(CallerStep(p)) /\ SF_vars(LockDevmutex(p))

Spec == Init /\ [][Next]_vars
FairSpec == Spec /\ Fairness

-----------------------------------------------------------------------------
TypeOK ==
  /\ pc \in [Callers -> {"idle", "lock", "check", "fill", "pend", "prog", "go", "release",
                          "wait", "reset_f", "copy", "unlock"}]
  /\ req \in [Callers -> Request]
  /\ devmutex \in Callers \cup {NoCaller}
  /\ devlock \in Callers \cup {NoCaller}
  /\ io_f \in [IoQueues -> IoState]
  /\ inBufr \in Callers \cup {NoCaller}
  /\ outBufr \in Callers \cup {NoCaller}
  /\ accepted \in Callers \cup {NoCaller}
  /\ regs \in Registers
  /\ IntRegState \in Registers
  /\ dev \in {"poll", "decode", "bug", "xfer", "isr"}
  /\ iotype \in Dir
  /\ seen \in Registers
  /\ dev_iotag \in 0 .. TagMax
  /\ dpcSched \in BOOLEAN
  /\ dpc \in BOOLEAN

-----------------------------------------------------------------------------
InFlight(p) == pc[p] \in {"go", "release", "wait"} /\ Queue(p) = "eIoPending"
Answered(p) == pc[p] = "wait" /\ Queue(p) # "eIoPending"

\* The tag the device expects is the tag in the register while no i/o is
\* picked up, and one ahead of it from then on until the DPC has reset the
\* registers (mbdevthread.c:221, "sequence error").
TagsInStep ==
  dev_iotag = IF dev \in {"xfer", "isr"} \/ dpcSched THEN NextTag(regs.IoTag) ELSE regs.IoTag

\* Whatever the device thread, the ISR or the DPC is working on is the i/o of
\* one caller that waits for it on the queue the completion will look at, and
\* holds the mutex.
WorkHasWaiter ==
  dev \in {"xfer", "isr"} \/ dpcSched \/ dpc =>
    \E p \in Callers :
      /\ pc[p] \in {"release", "wait"} /\ InFlight(p)
      /\ devmutex = p
      /\ regs.HostPA = p
      /\ dev \in {"xfer", "isr"} => iotype = req[p].dir
      /\ dpcSched \/ dpc => IntRegState.HostPA = p /\ IntRegState.IntID = {IntBit[req[p].dir]}

\* What an answered caller reads from the shared register copy is its own
\* completion, and the count it will return is not short.
AnswerIsOwn ==
  \A p \in Callers : Answered(p) =>
    /\ IntRegState.HostPA = p
    /\ IntRegState.IntID = {IntBit[req[p].dir]}
    /\ req[p].cnt \subseteq CompletedCount(p)

\* The device thread works on the registers without the lock: from pick-up to
\* ISR nobody else changes them.
DeviceUndisturbed ==
  [][(dev \in {"xfer", "isr"} /\ regs' # regs) => (dev' # dev)]_vars

\* Weaker, and meant to hold whatever the user writes to the registers: the
\* completion an answered caller finds is not another caller's
\* (maddevcio.c:86-96, 160-180).
AnswerNotStolen ==
  \A p \in Callers : Answered(p) =>
    /\ IntRegState.HostPA \in {p, NoCaller}
    /\ IntBit[req[p].dir] \in IntRegState.IntID

\* A caller that waits for the device, or is past its wait with its queue still
\* its own, holds the mutex; and whoever holds the mutex is still inside its
\* call: no return path leaks it.
MutexFollowsCall ==
  \A p \in Callers :
    /\ pc[p] \in {"pend", "prog", "go", "release", "wait", "unlock"} => devmutex = p
    /\ devmutex = p => pc[p] \notin {"idle", "lock", "reset_f"}

\* A queue is busy only while the caller that made it busy is inside its i/o.
BusyHasCaller ==
  \A d \in Dir : io_f[d] = "eIoPending" =>
    \E p \in Callers : pc[p] \in {"prog", "go", "release", "wait"} /\ req[p].dir = d

\* Between calls both queues are free.
QueuesFreeWhenIdle ==
  (\A p \in Callers : pc[p] \in {"idle", "lock"} \/ (pc[p] = "check" /\ ~Sync(p))) =>
    \A d \in Dir : io_f[d] = "eIoReset"

\* The device takes the data of the write it carries out, and a read returns
\* the data the device gave it.
OwnDataOnly ==
  \A p \in Callers :
    /\ Answered(p) /\ req[p].dir = "wr" => accepted = p
    /\ pc[p] = "copy" => inBufr = p

\* Every i/o that is waited for is answered.
WaitEnds == \A p \in Callers : pc[p] = "wait" ~> pc[p] # "wait"

\* Every call returns.
CallReturns == \A p \in Callers : pc[p] # "idle" ~> pc[p] = "idle"

-----------------------------------------------------------------------------
(***************************************************************************)
(* The i/o path carries out i/o one at a time: the i/o of the caller whose *)
(* go bit is set and who has not yet taken its result, moved once the      *)
(* device thread has moved its data.                                       *)
(***************************************************************************)
Begun == {p \in Callers : pc[p] \in {"release", "wait"}}

SerialView ==
  IF Begun = {} THEN [caller |-> NoCaller, dir |-> "rd", moved |-> FALSE]
  ELSE LET p == CHOOSE q \in Begun : TRUE
       IN  [caller |-> p, dir |-> req[p].dir,
            moved |-> dev = "isr" \/ dpcSched \/ dpc \/ Answered(p)]

Serial == INSTANCE MadSerialIo WITH io <- SerialView, taken <- accepted

SerialSpec == Serial!Spec
=============================================================================
