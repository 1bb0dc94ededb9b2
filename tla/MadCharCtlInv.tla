---------------------------- MODULE MadCharCtlInv ----------------------------
(***************************************************************************)
(* The inductive invariants of the character-mode i/o path with its        *)
(* control paths.  The control operations write the registers at any       *)
(* moment, so that nothing of MadCharIoInv about a register survives; what *)
(* survives is the order of the calls (CtlInv) and, with synchronous calls *)
(* only, who may be using the device at all (SyncInv).                     *)
(***************************************************************************)
EXTENDS MadCharCtl, MadCharIoInv

\* The types the proofs rest on; cache i/o is only started by registers that ask
\* for it.
CtlTypeOK ==
  /\ pc \in [Callers -> {"idle", "lock", "check", "fill", "pend", "prog", "go", "release",
                          "wait", "reset_f", "copy", "unlock"}]
  /\ req \in [Callers -> Request]
  /\ devmutex \in Callers \cup {NoCaller}
  /\ devlock \in Callers \cup {NoCaller}
  /\ io_f \in [IoQueues -> IoState]
  /\ regs \in Registers
  /\ IntRegState \in Registers
  /\ dev \in {"poll", "decode", "bug", "xfer", "isr", "cache", "dma"}
  /\ iotype \in Dir
  /\ seen \in Registers
  /\ dev = "cache" => ProgrammedIoType(seen) \in CacheIo

\* A busy queue is that of a caller on its way to the device or waiting for it.
CtlQueueInv ==
  \A d \in Dir : io_f[d] = "eIoPending" =>
    \E p \in Callers : pc[p] \in {"prog"} \cup AtDevice /\ req[p].dir = d

\* Whatever the user writes to the registers, and for every mix of calls.
CtlInv == CtlTypeOK /\ MutexInv /\ LockInv /\ CtlQueueInv

-----------------------------------------------------------------------------
\* Registers the device thread takes for a buffered i/o.
Pickable(r) ==
  /\ r.Control \cap GoBits # {}
  /\ ProgrammedIoType(r) \in {"eBufrdRd", "eBufrdWr"}

\* The device thread, the ISR's schedule or the DPC is working on an i/o.
Moving == dev \in {"xfer", "isr"}
Completing == dpcSched \/ dpc

\* No call is queued, so no queue is reset behind the back of its caller.
SyncOnly ==
  \A p \in Callers :
    /\ Sync(p) /\ pc[p] # "reset_f"
    /\ pc[p] \in {"prog", "go", "release"} => Queue(p) = "eIoPending"

\* One stage at a time, and nothing to pick up while an i/o is completed.
OneStage ==
  /\ Moving => ~dpcSched /\ ~dpc
  /\ dpcSched => ~dpc
  /\ Completing => ~Pickable(regs)

\* Every stage has its caller, who is not answered yet.
StageHasCaller ==
  /\ Pickable(regs) \/ Moving =>
       \E p \in Callers : pc[p] \in {"release", "wait"} /\ Queue(p) = "eIoPending"
  /\ Completing => \E p \in Callers : pc[p] = "wait" /\ Queue(p) = "eIoPending"

\* The registers and their copy name the caller at the device or nobody.
HostIsCaller ==
  \A p \in Callers : pc[p] \in AtDevice =>
    /\ regs.HostPA \in {p, NoCaller}
    /\ Completing => IntRegState.HostPA \in {p, NoCaller}

\* DMA interrupts are enabled, by the init ioctl or the expired registers, only
\* together with CHAINED_DMA: the DMA of one block is never started.
DmaIsChained ==
  /\ dev # "dma"
  /\ regs.IntEnable \cap {"DMA_INPUT", "DMA_OUTPUT"} # {} => "CHAINED_DMA" \in regs.Control

\* With synchronous calls only, and no ioctl that arms the device by hand.
SyncInv == CtlInv /\ SyncOnly /\ OneStage /\ StageHasCaller /\ HostIsCaller /\ AnswerNotStolen
=============================================================================
