---------------------------- MODULE MadCharIoInv ----------------------------
(***************************************************************************)
(* The inductive invariant of the character-mode i/o path.  It follows one *)
(* i/o: the caller that holds the device mutex is in one of the phases     *)
(* below, and each phase says what the registers, the device thread, the   *)
(* ISR's copy of the registers and the DPC look like.                      *)
(***************************************************************************)
EXTENDS MadCharIo

\* Program points at which a caller holds the mutex.
AtDevice == {"go", "release", "wait"}
Holding(p) ==
  \/ pc[p] \in {"pend", "prog", "unlock"} \cup AtDevice
  \/ Sync(p) /\ pc[p] \in {"check", "fill", "copy"}

MutexInv == \A p \in Callers : Holding(p) <=> devmutex = p

LockInv == \A p \in Callers : pc[p] \in {"go", "release"} <=> devlock = p

QueueInv ==
  /\ \A q \in IoQueues : io_f[q] \in {"eIoReset", "eIoPending"}
  /\ io_f["ioctl"] = "eIoReset"
  /\ \A p \in Callers : pc[p] \in {"prog", "go", "release"} => Queue(p) = "eIoPending"
  /\ \A d \in Dir : io_f[d] = "eIoPending" =>
       \E p \in Callers : pc[p] \in {"prog"} \cup AtDevice /\ req[p].dir = d
  /\ \A p \in Callers : pc[p] # "reset_f"

\* No i/o: the registers are reset and nothing is scheduled.
Quiet ==
  /\ regs.Control = {} /\ regs.IntID = {} /\ regs.IntEnable = {}
  /\ dev = "poll" /\ ~dpcSched /\ ~dpc
  /\ dev_iotag = regs.IoTag

\* The i/o of p is programmed and the device thread has not picked it up.
Armed(p) ==
  /\ regs.HostPA = p /\ regs.IoCount = req[p].cnt
  /\ regs.IntEnable = {IntBit[req[p].dir], "STATUS_ALERT"}
  /\ regs.IntID = {}
  /\ dev \in {"poll", "decode"} /\ ~dpcSched /\ ~dpc
  /\ dev = "decode" => seen.IoTag = regs.IoTag /\ seen.IntID = {}
  /\ dev_iotag = regs.IoTag

\* The device thread has picked it up.
PickedUp(p) ==
  /\ regs.HostPA = p /\ regs.IoCount = req[p].cnt
  /\ "CACHE_XFER" \notin regs.Control /\ "CHAINED_DMA" \notin regs.Control
  /\ regs.IntID = {}
  /\ dev = "xfer" /\ seen = regs /\ iotype = req[p].dir
  /\ ~dpcSched /\ ~dpc
  /\ dev_iotag = NextTag(regs.IoTag)

\* Registers r tell of the completion of the i/o of p.
Tells(r, p) ==
  /\ r.HostPA = p
  /\ r.IntID = {IntBit[req[p].dir]}
  /\ ~IsIoctl(r)
  /\ req[p].cnt \subseteq (IF req[p].dir = "rd" THEN r.ReadCount ELSE r.WriteCount)

\* The data is moved and the interrupt raised.
Raised(p) ==
  /\ Tells(regs, p)
  /\ dev = "isr" /\ iotype = req[p].dir
  /\ ~dpcSched /\ ~dpc
  /\ dev_iotag = NextTag(regs.IoTag)

\* The ISR has run.
Scheduled(p) ==
  /\ Tells(IntRegState, p)
  /\ regs.HostPA = p /\ regs.IntEnable = {}
  /\ dev = "poll" /\ dpcSched /\ ~dpc
  /\ dev_iotag = NextTag(regs.IoTag)

\* The DPC has reset the registers.
Resetting(p) ==
  /\ Tells(IntRegState, p)
  /\ regs.HostPA = p
  /\ regs.Control = {} /\ regs.IntID = {} /\ regs.IntEnable = {}
  /\ dev = "poll" /\ ~dpcSched /\ dpc
  /\ dev_iotag = regs.IoTag

\* The phase of the i/o of a caller that is at the device.
Phase(p) ==
  /\ pc[p] = "go" => Armed(p) /\ regs.Control = {"IOSIZE_BYTES"}
  /\ pc[p] \in {"release", "wait"} /\ Queue(p) = "eIoPending" =>
       \/ Armed(p) /\ regs.Control = {"IOSIZE_BYTES", "BUFRD_GO"}
       \/ PickedUp(p)
       \/ Raised(p)
       \/ pc[p] = "wait" /\ Scheduled(p)
       \/ pc[p] = "wait" /\ Resetting(p)
  /\ Answered(p) => Quiet /\ Tells(IntRegState, p)

PhaseInv ==
  /\ (\A p \in Callers : pc[p] \notin AtDevice) => Quiet
  /\ \A p \in Callers : Phase(p)

\* The inductive invariant.
IInv == TypeOK /\ MutexInv /\ LockInv /\ QueueInv /\ PhaseInv

-----------------------------------------------------------------------------
\* The device has moved the data of the i/o of p and p has not left its wait.
DataMoved(p) ==
  pc[p] \in {"release", "wait"} /\ (dev = "isr" \/ dpcSched \/ dpc \/ Answered(p))

\* Whose data the shared buffers hold, with synchronous calls only: a write's
\* from the moment it is filled in, a read's from the transfer to the copy.
DataInv ==
  \A p \in Callers :
    /\ Sync(p)
    /\ pc[p] \in {"pend", "prog"} \cup AtDevice /\ req[p].dir = "wr" => outBufr = p
    /\ DataMoved(p) => IF req[p].dir = "rd" THEN inBufr = p ELSE accepted = p
    /\ pc[p] = "copy" => inBufr = p
=============================================================================
