----------------------------- MODULE MadCharCtl -----------------------------
(***************************************************************************)
(* The character-mode i/o path of MadCharIo together with the control      *)
(* paths that change the same registers:                                   *)
(*                                                                         *)
(*   bus ioctls     of the simulator's user interface (madbusmain.c): they *)
(*                  take no lock and may run at any moment of an i/o;      *)
(*   device ioctls  of the driver (maddevcmain.c): under devmutex and      *)
(*                  devlock, so a whole ioctl is one step.                 *)
(***************************************************************************)
EXTENDS MadCharIo

CONSTANTS
  CtlOps,      \* control operations in use
  StatusArgs,  \* error bits the user sets with MADBUS_IOCTL_SET_STATUS
  IntIDArgs,   \* interrupt bits the user sets with MADBUS_IOCTL_SET_INTID
  EnableArgs,  \* interrupt bits the user sets with MADDEV_IOCTL_SET_ENABLE
  ControlArgs  \* control bits the user sets with MADDEV_IOCTL_SET_CONTROL

ASSUME CtlOpsAssumption ==
  CtlOps \subseteq {"bus_reset", "bus_expire", "bus_status", "bus_intid",
                    "dev_init", "dev_reset", "dev_enable", "dev_control"}
ASSUME StatusArgsAssumption == StatusArgs \subseteq SUBSET ErrorMask
ASSUME IntIDArgsAssumption == IntIDArgs \subseteq SUBSET AllValidMask
ASSUME EnableArgsAssumption == EnableArgs \subseteq SUBSET AllValidMask
ASSUME ControlArgsAssumption == ControlArgs \subseteq SUBSET ControlBits

onlyRegs == <<callerVars, queueVars, bufrVars, IntRegState, devVars, dpcVars>>

-----------------------------------------------------------------------------
\* madbus_fdev_ioctl: MADBUS_IOCTL_RESET zeroes the registers, IoTag included.
BusReset ==
  /\ "bus_reset" \in CtlOps
  /\ regs' = RegistersAtReset
  /\ UNCHANGED onlyRegs

\* Every register after a memset with 0xFF.
RegistersExpired ==
  [Control |-> ControlBits, IoCount |-> CountBit, Status |-> ErrorMask,
   ReadCount |-> CountBit, WriteCount |-> CountBit, IntEnable |-> AllValidMask,
   IntID |-> AllValidMask, IoTag |-> TagMax, HostPA |-> NoCaller]

\* MADBUS_IOCTL_EXPIRE.
BusExpire ==
  /\ "bus_expire" \in CtlOps
  /\ regs' = RegistersExpired
  /\ UNCHANGED onlyRegs

\* MADBUS_IOCTL_SET_STATUS stores the whole status register, counts included.
BusSetStatus(status) ==
  /\ "bus_status" \in CtlOps
  /\ regs' = [regs EXCEPT !.Status = status, !.ReadCount = {}, !.WriteCount = {}]
  /\ UNCHANGED onlyRegs

\* MADBUS_IOCTL_SET_INTID.
BusSetIntID(id) ==
  /\ "bus_intid" \in CtlOps
  /\ regs' = [regs EXCEPT !.IntID = id]
  /\ UNCHANGED onlyRegs

-----------------------------------------------------------------------------
\* maddevc_ioctl: refused while the ioctl queue is not free, else under both
\* locks.
IoctlRuns ==
  /\ \E p \in Callers : pc[p] = "idle"
  /\ io_f["ioctl"] = "eIoReset"
  /\ devmutex = NoCaller
  /\ devlock = NoCaller

\* MadRegsRst as its initializer fills the register layout: the cache-empty
\* bits meant for Status (0xC0) land in Control, where they are CHAINED_DMA and
\* DMA_GO; 0x080B0B lands in IntEnable, where it enables the three inputs.
MadRegsRst ==
  [RegistersAtReset EXCEPT !.Control = {"CHAINED_DMA", "DMA_GO"}, !.IntEnable = InputMask]

\* MADDEV_IOCTL_INIT copies MadRegsRst over the registers.
IoctlInit ==
  /\ "dev_init" \in CtlOps
  /\ IoctlRuns
  /\ regs' = MadRegsRst
  /\ UNCHANGED onlyRegs

\* MADDEV_IOCTL_RESET clears the indices and the status register.
IoctlReset ==
  /\ "dev_reset" \in CtlOps
  /\ IoctlRuns
  /\ regs' = [regs EXCEPT !.Status = {}, !.ReadCount = {}, !.WriteCount = {}]
  /\ UNCHANGED onlyRegs

\* MADDEV_IOCTL_SET_ENABLE.
IoctlSetEnable(enable) ==
  /\ "dev_enable" \in CtlOps
  /\ IoctlRuns
  /\ regs' = [regs EXCEPT !.IntEnable = enable]
  /\ UNCHANGED onlyRegs

\* MADDEV_IOCTL_SET_CONTROL, the count included.
IoctlSetControl(control) ==
  /\ "dev_control" \in CtlOps
  /\ IoctlRuns
  /\ regs' = [regs EXCEPT !.Control = control, !.IoCount = {}]
  /\ UNCHANGED onlyRegs

-----------------------------------------------------------------------------
(***************************************************************************)
(* What the device thread finds in registers that no read or write of the  *)
(* driver has programmed.                                                  *)
(***************************************************************************)
DmaIo == {"eDmaRead", "eDmaWrite"}

\* A chained DMA whose chain has no end, or a block of 4 GB at an address of all
\* ones, which is what the expired registers ask for: the thread faults.
DevPickUpDma ==
  /\ dev = "decode"
  /\ Programmed
  /\ dev_iotag = seen.IoTag
  /\ ProgrammedIoType(regs) \in DmaIo
  /\ "CHAINED_DMA" \in regs.Control \/ "bus_expire" \in CtlOps
  /\ dev' = "bug"
  /\ UNCHANGED <<callerVars, queueVars, bufrVars, regs, IntRegState, iotype, seen,
                 dev_iotag, dpcVars>>

\* The DMA of one block, of zero bytes because nobody writes DTBC.
DevPickUpOneBlock ==
  /\ dev = "decode"
  /\ Programmed
  /\ dev_iotag = seen.IoTag
  /\ ProgrammedIoType(regs) \in DmaIo
  /\ "CHAINED_DMA" \notin regs.Control
  /\ iotype' = IF ProgrammedIoType(regs) = "eDmaRead" THEN "rd" ELSE "wr"
  /\ dev_iotag' = NextTag(dev_iotag)
  /\ seen' = regs
  /\ dev' = "dma"
  /\ UNCHANGED <<callerVars, queueVars, bufrVars, regs, IntRegState, dpcVars>>

DmaIntBit == [rd |-> "DMA_INPUT", wr |-> "DMA_OUTPUT"]

\* mbdt_process_dma_io warns of the zero bytes, copies none, and goes on to the
\* ISR with the interrupt and the count of a DMA.
DevOneBlockDma ==
  /\ dev = "dma"
  /\ regs' = [regs EXCEPT
               !.IntID = seen.IntID \cup {DmaIntBit[iotype]},
               !.Status = seen.Status,
               !.ReadCount = seen.ReadCount \cup (IF iotype = "rd" THEN seen.IoCount ELSE {}),
               !.WriteCount = seen.WriteCount \cup (IF iotype = "wr" THEN seen.IoCount ELSE {})]
  /\ seen' = RegistersAtReset
  /\ dev' = "isr"
  /\ UNCHANGED <<callerVars, queueVars, bufrVars, IntRegState, iotype, dev_iotag, dpcVars>>

CacheIo == {"eLoadRdCache", "eFlushWrCache", "eAlignRdCache", "eAlignWrCache"}

CacheIntBit ==
  [k \in CacheIo |->
     CASE k = "eLoadRdCache" -> "BUFRD_INPUT" [] k = "eFlushWrCache" -> "BUFRD_OUTPUT"
       [] k = "eAlignRdCache" -> "ALIGN_INPUT" [] k = "eAlignWrCache" -> "ALIGN_OUTPUT"]

\* Interrupts are enabled, but none of a transfer.
DevPickUpNothing ==
  /\ dev = "decode"
  /\ Programmed
  /\ dev_iotag = seen.IoTag
  /\ ProgrammedIoType(regs) = "eNOP"
  /\ dev' = "poll"
  /\ seen' = RegistersAtReset
  /\ UNCHANGED <<callerVars, queueVars, bufrVars, regs, IntRegState, iotype, dev_iotag, dpcVars>>

\* A load, a flush or an alignment of the device's cache.
DevPickUpCache ==
  /\ dev = "decode"
  /\ Programmed
  /\ dev_iotag = seen.IoTag
  /\ ProgrammedIoType(regs) \in CacheIo
  /\ dev_iotag' = NextTag(dev_iotag)
  /\ seen' = regs
  /\ dev' = "cache"
  /\ UNCHANGED <<callerVars, queueVars, bufrVars, regs, IntRegState, iotype, dpcVars>>

\* mbdt_process_cache_io and mbdt_process_align_cache: raise the interrupt of
\* the kind of i/o, or, if the cache was empty, the alert with the error.  The
\* status read at the pick-up is written back with the error and by an
\* alignment, whose cache-empty bit is not in Status here.  The ISR is not
\* called.
DevCacheIo ==
  /\ dev = "cache"
  /\ LET kind == ProgrammedIoType(seen)
         Done == [regs EXCEPT !.IntID = seen.IntID \cup {CacheIntBit[kind]}]
         WriteBack(bit, errors) ==
           [regs EXCEPT !.IntID = seen.IntID \cup {bit}, !.Status = seen.Status \cup errors,
                        !.ReadCount = seen.ReadCount, !.WriteCount = seen.WriteCount]
     IN  \/ /\ kind \in {"eFlushWrCache", "eLoadRdCache"}
            /\ regs' \in {Done, WriteBack("STATUS_ALERT", {"OVER_UNDER_ERR"})}
         \/ /\ kind \in {"eAlignRdCache", "eAlignWrCache"}
            /\ regs' = WriteBack(CacheIntBit[kind], {})
  /\ seen' = RegistersAtReset
  /\ dev' = "poll"
  /\ UNCHANGED <<callerVars, queueVars, bufrVars, IntRegState, iotype, dev_iotag, dpcVars>>

-----------------------------------------------------------------------------
BusCtl ==
  \/ BusReset
  \/ BusExpire
  \/ \E status \in StatusArgs : BusSetStatus(status)
  \/ \E id \in IntIDArgs : BusSetIntID(id)

DevCtl ==
  \/ IoctlInit \/ IoctlReset
  \/ \E enable \in EnableArgs : IoctlSetEnable(enable)
  \/ \E control \in ControlArgs : IoctlSetControl(control)

DevCtlStep ==
  \/ DevPickUpDma \/ DevPickUpOneBlock \/ DevOneBlockDma
  \/ DevPickUpNothing \/ DevPickUpCache \/ DevCacheIo

CtlNext == Next \/ BusCtl \/ DevCtl \/ DevCtlStep

CtlSpec == Init /\ [][CtlNext]_vars

=============================================================================
