----------------------------- MODULE MadBlockIo -----------------------------
(***************************************************************************)
(* The i/o paths of the block-mode driver and the device that serves them: *)
(*                                                                         *)
(*   requests       blk-mq calls maddevb_queue_req; a work item starts the *)
(*                  device, waits and ends the request                     *)
(*                  (maddevb_blk_utils.c, maddevbio.c)                     *)
(*   page i/o       maddevb_rw_page, in the thread of its caller           *)
(*                  (maddevbio.c, maddrvrdefs.c)                           *)
(*   raw i/o        maddevr_read and maddevr_write (maddevbmain.c)         *)
(*   device thread, ISR, DPC   as for the character driver, with a chain   *)
(*                  of scatter-gather elements in the place of one buffer  *)
(*                                                                         *)
(* The three paths exclude one another with the flag batomic alone, which  *)
(* nobody waits for: whoever finds it taken is turned away.  The driver    *)
(* runs with its default parameters: one hardware queue of one tag, work   *)
(* items instead of timers, no memory backing, no write cache.             *)
(*                                                                         *)
(* blk-mq, modelled from how the driver uses it, hands out the tag, keeps  *)
(* a request that was turned away and runs the queue again.                *)
(***************************************************************************)
EXTENDS MadRegisters, FiniteSets

CONSTANTS
  Kinds,    \* paths in use: "rq", "page", "raw"
  Sectors,  \* sectors of the device; a segment is one sector long
  MaxSegs   \* largest number of segments of a request: 64 in the code

ASSUME KindsAssumption == Kinds \subseteq {"rq", "page", "raw"}
ASSUME SectorsAssumption == Sectors \subseteq Nat /\ 0 \in Sectors
ASSUME MaxSegsAssumption == MaxSegs \in Nat \ {0}

VARIABLES
  pc,        \* where each thread's operation is
  req,       \* each thread's operation (NoRequest while idle)
  tag,       \* whose request has the tag of the hardware queue
  runq,      \* a run of the hardware queue is due
  cmd,       \* how far the driver is with the command of each thread's operation
  batomic,   \* the driver's busy flag
  ioctl_f,   \* state of the one i/o queue the DMA paths wait on
  devlock,   \* holder of the device spinlock
  regs,      \* the device's registers
  chain,     \* the device's scatter-gather elements (SgDmaUnits)
  DTBC,      \* the device's transfer-count register, in segments
  IntRegState, \* the driver's copy of the registers taken by the ISR
  dev,       \* where the device thread is in its loop
  iotype,    \* the kind of i/o the device thread is carrying out
  seen,      \* registers the device thread has read and not yet acted on
  dev_iotag, \* the tag the device expects next
  dpcSched,  \* the tasklet is scheduled
  dpc,       \* where the tasklet is
  disk,      \* whose data each sector of the device holds
  bufr       \* whose data each segment of a thread's memory holds

blkVars  == <<pc, req, tag, runq>>
drvVars  == <<cmd, batomic, ioctl_f, devlock>>
chainVars == <<chain, DTBC>>
devVars  == <<dev, iotype, seen, dev_iotag>>
dpcVars  == <<dpcSched, dpc>>
dataVars == <<disk, bufr>>
vars == <<blkVars, drvVars, regs, chainVars, IntRegState, devVars, dpcVars, dataVars>>

Dir == {"rd", "wr"}
Segs == 1 .. MaxSegs
Writer == Callers \cup {NoCaller}

\* A page is one segment, a raw call names no sectors that matter.
Request ==
  {r \in [kind : {"rq", "page", "raw"}, dir : Dir, sector : Sectors, len : Segs] :
     /\ r.kind # "rq" => r.len = 1
     /\ r.kind = "raw" => r.sector = 0
     /\ r.sector .. r.sector + r.len - 1 \subseteq Sectors}

NoRequest == [kind |-> "raw", dir |-> "rd", sector |-> 0, len |-> 1]
NoData == [i \in Segs |-> NoCaller]

IoType == [d \in Dir |-> IF d = "rd" THEN "eDmaRead" ELSE "eDmaWrite"]
IntBit == [d \in Dir |-> IF d = "rd" THEN "DMA_INPUT" ELSE "DMA_OUTPUT"]

\* eIoReset and eIoCmplt are the same value (zero).
IoState == {"eIoReset", "eIoPending"} \cup DeviceErrno

\* A hardware scatter-gather element: the segment of host memory it moves, the
\* sector of the device, the direction, and whether it ends the chain.
Element ==
  [host : Writer, seg : Segs, ofst : Sectors, h2d : BOOLEAN, end : BOOLEAN]

NoElement == [host |-> NoCaller, seg |-> 1, ofst |-> 0, h2d |-> FALSE, end |-> TRUE]

Init ==
  /\ pc = [p \in Callers |-> "idle"]
  /\ req = [p \in Callers |-> NoRequest]
  /\ tag = NoCaller
  /\ runq = FALSE
  /\ cmd = [p \in Callers |-> "none"]
  /\ batomic = FALSE
  /\ ioctl_f = "eIoReset"
  /\ devlock = NoCaller
  /\ regs = RegistersAtReset
  /\ chain = [i \in Segs |-> NoElement]
  /\ DTBC = 0
  /\ IntRegState = RegistersAtReset
  /\ dev = "poll"
  /\ iotype = "rd"
  /\ seen = RegistersAtReset
  /\ dev_iotag = 0
  /\ dpcSched = FALSE
  /\ dpc = "idle"
  /\ disk = [s \in Sectors |-> NoCaller]
  /\ bufr = [p \in Callers |-> NoData]

Rq(p) == req[p].kind = "rq"
At(p, stage) == cmd[p] = stage
Cmd(p, stage) == cmd' = [cmd EXCEPT ![p] = stage]

\* The thread's operation is over, whatever the driver still does for it.
Return(p) ==
  /\ pc' = [pc EXCEPT ![p] = "idle"]
  /\ req' = [req EXCEPT ![p] = NoRequest]
  /\ bufr' = [bufr EXCEPT ![p] = NoData]

-----------------------------------------------------------------------------
(***************************************************************************)
(* blk-mq.                                                                 *)
(***************************************************************************)
Submit(p, r) ==
  /\ pc[p] = "idle"
  /\ r.kind \in Kinds
  /\ pc' = [pc EXCEPT ![p] = IF r.kind = "rq" THEN "tag" ELSE "call"]
  /\ req' = [req EXCEPT ![p] = r]
  /\ UNCHANGED <<tag, runq, drvVars, regs, chainVars, IntRegState, devVars, dpcVars, dataVars>>

GetTag(p) ==
  /\ pc[p] \in {"tag", "tagwait"}
  /\ tag = NoCaller
  /\ tag' = p
  /\ pc' = [pc EXCEPT ![p] = "ready"]
  /\ UNCHANGED <<req, runq, drvVars, regs, chainVars, IntRegState, devVars, dpcVars, dataVars>>

\* No tag: the queue is run once before the thread goes to sleep.
WaitTag(p) ==
  /\ pc[p] = "tag"
  /\ tag # NoCaller
  /\ pc' = [pc EXCEPT ![p] = "tagwait"]
  /\ runq' = TRUE
  /\ UNCHANGED <<req, tag, drvVars, regs, chainVars, IntRegState, devVars, dpcVars, dataVars>>

\* A run of the queue that finds no request on its dispatch list.
RunQueueIdle ==
  /\ runq
  /\ \A p \in Callers : pc[p] # "held"
  /\ runq' = FALSE
  /\ UNCHANGED <<pc, req, tag, drvVars, regs, chainVars, IntRegState, devVars, dpcVars, dataVars>>

\* blk-mq calls queue_rq: from the submitting thread, or from a run of the queue.
Dispatch(p) == pc[p] = "ready" \/ (pc[p] = "held" /\ runq)

-----------------------------------------------------------------------------
(***************************************************************************)
(* maddevb_queue_req and maddevb_handle_cmd.                               *)
(***************************************************************************)
\* BLK_STS_DEV_RESOURCE: the first time the queue is run once more at once,
\* from then on blk-mq relies on a request that completes.
QueueReqBusy(p) ==
  /\ Dispatch(p)
  /\ batomic
  /\ pc' = [pc EXCEPT ![p] = "held"]
  /\ runq' = (pc[p] = "ready" \/ (runq /\ pc[p] # "held"))
  /\ UNCHANGED <<req, tag, drvVars, regs, chainVars, IntRegState, devVars, dpcVars, dataVars>>

\* Mutant of QueueReq: the flag is read and set without a check.
QueueReqNoCheck(p) ==
  /\ Dispatch(p)
  /\ batomic' = TRUE
  /\ pc' = [pc EXCEPT ![p] = "issued"]
  /\ runq' = (runq /\ pc[p] # "held")
  /\ Cmd(p, "alloc")
  /\ UNCHANGED <<req, tag, ioctl_f, devlock, regs, chainVars, IntRegState, devVars, dpcVars, dataVars>>

QueueReq(p) ==
  /\ Dispatch(p)
  /\ ~batomic
  /\ batomic' = TRUE
  /\ pc' = [pc EXCEPT ![p] = "issued"]
  /\ runq' = (runq /\ pc[p] # "held")
  /\ Cmd(p, "alloc")
  /\ UNCHANGED <<req, tag, ioctl_f, devlock, regs, chainVars, IntRegState, devVars, dpcVars, dataVars>>

\* No memory for the command: BLK_STS_RESOURCE, and blk-mq runs the queue
\* again after a delay.
AllocFails(p) ==
  /\ At(p, "alloc")
  /\ batomic' = FALSE
  /\ pc' = [pc EXCEPT ![p] = "held"]
  /\ runq' = TRUE
  /\ Cmd(p, "none")
  /\ UNCHANGED <<req, tag, ioctl_f, devlock, regs, chainVars, IntRegState, devVars, dpcVars, dataVars>>

AllocCmd(p) ==
  /\ At(p, "alloc")
  /\ Cmd(p, "map")
  /\ UNCHANGED <<blkVars, batomic, ioctl_f, devlock, regs, chainVars, IntRegState, devVars, dpcVars, dataVars>>

\* Mutant of RequestFails: the request ends with the command still under way.
RequestFailsTwice(p) ==
  /\ At(p, "map")
  /\ Rq(p)
  /\ Return(p)
  /\ tag' = NoCaller
  /\ Cmd(p, "end")
  /\ UNCHANGED <<runq, batomic, ioctl_f, devlock, regs, chainVars, IntRegState, devVars, dpcVars, disk>>

\* The segments cannot be mapped, or the operation is not supported: the
\* request ends with the error before the command is freed.
RequestFails(p) ==
  /\ At(p, "map")
  /\ Rq(p)
  /\ Return(p)
  /\ tag' = NoCaller
  /\ Cmd(p, "free")
  /\ UNCHANGED <<runq, batomic, ioctl_f, devlock, regs, chainVars, IntRegState, devVars, dpcVars, disk>>

-----------------------------------------------------------------------------
(***************************************************************************)
(* maddevb_init_sglist_io and, for a page, maddev_xfer_sgdma_pages.        *)
(***************************************************************************)
SetPending(p) ==
  /\ At(p, "map")
  /\ ioctl_f' = "eIoPending"
  /\ Cmd(p, "prog")
  /\ UNCHANGED <<blkVars, batomic, devlock, regs, chainVars, IntRegState, devVars, dpcVars, dataVars>>

\* Next_HWSGLE, the element after the i-th: it increments its copy of the
\* pointer after it has returned it.
NextHwSgle(i) == i

\* The hardware element into which the j-th segment is written.
HwSgle[j \in Nat] == IF j <= 1 THEN 1 ELSE NextHwSgle(HwSgle[j - 1])

\* Mutant of CdeFromSgle: the direction is not put into the element.
CdeFromSgleNoDir(p, j) ==
  [host |-> p, seg |-> j, ofst |-> req[p].sector + j - 1,
   h2d |-> FALSE, end |-> j = req[p].len]

\* maddevb_init_cde_from_sgle for the j-th segment.
CdeFromSgle(p, j) ==
  [host |-> p, seg |-> j, ofst |-> req[p].sector + j - 1,
   h2d |-> req[p].dir = "wr", end |-> j = req[p].len]

\* The loop over the segments: a later segment overwrites an earlier one in
\* the same element.
BuiltChain(p) ==
  [i \in Segs |->
     LET Written == {j \in 1 .. req[p].len : HwSgle[j] = i}
     IN  IF Written = {} THEN chain[i]
         ELSE CdeFromSgle(p, CHOOSE j \in Written : \A k \in Written : k <= j)]

\* Under the lock: everything but the go bit.  The page path keeps the lock.
Program(p) ==
  /\ At(p, "prog")
  /\ devlock = NoCaller
  /\ regs' = ProgramIoRegs(regs, {"CHAINED_DMA"}, {},
                           {IntBit[req[p].dir], "STATUS_ALERT"}, NoCaller)
  /\ chain' = BuiltChain(p)
  /\ devlock' = IF Rq(p) THEN NoCaller ELSE p
  /\ Cmd(p, "go")
  /\ UNCHANGED <<blkVars, batomic, ioctl_f, DTBC, IntRegState, devVars, dpcVars, dataVars>>

\* The go bit: maddevb_init_io in the work item, under the lock, or the end of
\* maddev_xfer_sgdma_pages, still under the lock.
SetGo(p) ==
  /\ At(p, "go")
  /\ devlock = IF Rq(p) THEN NoCaller ELSE p
  /\ regs' = [regs EXCEPT !.Control = @ \cup {"DMA_GO"}]
  /\ Cmd(p, IF Rq(p) THEN "wait" ELSE "release")
  /\ UNCHANGED <<blkVars, batomic, ioctl_f, devlock, chainVars, IntRegState, devVars, dpcVars, dataVars>>

ReleaseDevlock(p) ==
  /\ At(p, "release")
  /\ devlock' = NoCaller
  /\ Cmd(p, "wait")
  /\ UNCHANGED <<blkVars, batomic, ioctl_f, regs, chainVars, IntRegState, devVars, dpcVars, dataVars>>

\* maddev_wait_get_io_status returns; the queue is freed.  A request takes the
\* transfer count for its result, whatever the status.
WaitEnd(p) ==
  /\ At(p, "wait")
  /\ ioctl_f # "eIoPending"
  /\ ioctl_f' = "eIoReset"
  /\ Cmd(p, "end")
  /\ UNCHANGED <<blkVars, batomic, devlock, regs, chainVars, IntRegState, devVars, dpcVars, dataVars>>

\* maddevb_end_cmd: blk_mq_end_request gives the tag away, ...
EndRequest(p) ==
  /\ At(p, "end")
  /\ Rq(p)
  /\ Return(p)
  /\ tag' = NoCaller
  /\ Cmd(p, "free")
  /\ UNCHANGED <<runq, batomic, ioctl_f, devlock, regs, chainVars, IntRegState, devVars, dpcVars, disk>>

\* Mutant of FreeCmd: the command is freed and the flag stays.
FreeCmdKeepsFlag(p) ==
  /\ At(p, "free")
  /\ Cmd(p, "none")
  /\ UNCHANGED <<blkVars, batomic, ioctl_f, devlock, regs, chainVars, IntRegState, devVars, dpcVars, dataVars>>

\* ... then maddevb_free_cmd clears the flag; nobody is told.
FreeCmd(p) ==
  /\ At(p, "free")
  /\ batomic' = FALSE
  /\ Cmd(p, "none")
  /\ UNCHANGED <<blkVars, ioctl_f, devlock, regs, chainVars, IntRegState, devVars, dpcVars, dataVars>>

-----------------------------------------------------------------------------
(***************************************************************************)
(* maddevb_rw_page, maddevr_read and maddevr_write.                        *)
(***************************************************************************)
\* BLK_STS_RESOURCE, -EAGAIN.
CallBusy(p) ==
  /\ pc[p] = "call"
  /\ batomic
  /\ Return(p)
  /\ UNCHANGED <<tag, runq, drvVars, regs, chainVars, IntRegState, devVars, dpcVars, disk>>

CallTakes(p) ==
  /\ pc[p] = "call"
  /\ ~batomic
  /\ batomic' = TRUE
  /\ pc' = [pc EXCEPT ![p] = "issued"]
  /\ Cmd(p, IF req[p].kind = "page" THEN "map" ELSE "raw")
  /\ UNCHANGED <<req, tag, runq, ioctl_f, devlock, regs, chainVars, IntRegState, devVars, dpcVars, dataVars>>

\* maddevb_direct_io asks for the flag its caller has taken: -EAGAIN.
RawRefused(p) ==
  /\ At(p, "raw")
  /\ batomic
  /\ batomic' = FALSE
  /\ Return(p)
  /\ Cmd(p, "none")
  /\ UNCHANGED <<tag, runq, ioctl_f, devlock, regs, chainVars, IntRegState, devVars, dpcVars, disk>>

\* The page cannot be mapped (-EADDRNOTAVAIL), or its i/o is over: the flag is
\* cleared and the call returns.
PageReturns(p) ==
  /\ At(p, "map") \/ At(p, "end")
  /\ req[p].kind = "page"
  /\ batomic' = FALSE
  /\ Return(p)
  /\ Cmd(p, "none")
  /\ UNCHANGED <<tag, runq, ioctl_f, devlock, regs, chainVars, IntRegState, devVars, dpcVars, disk>>

-----------------------------------------------------------------------------
(***************************************************************************)
(* The device thread.  It takes no lock before it calls the ISR.           *)
(***************************************************************************)
\* mbdt_get_programmed_iotype: IntEnable, IntID and IoTag are read first, ...
DevPoll ==
  /\ dev = "poll"
  /\ regs.IntEnable # {}
  /\ seen' = [RegistersAtReset EXCEPT !.IntID = regs.IntID, !.IoTag = regs.IoTag]
  /\ dev' = "decode"
  /\ UNCHANGED <<blkVars, drvVars, regs, chainVars, IntRegState, iotype, dev_iotag, dpcVars, dataVars>>

Programmed == regs.Control \cap GoBits # {} /\ seen.IntID = {}

\* ... then Control.
DevNop ==
  /\ dev = "decode"
  /\ ~Programmed
  /\ dev' = "poll"
  /\ seen' = RegistersAtReset
  /\ UNCHANGED <<blkVars, drvVars, regs, chainVars, IntRegState, iotype, dev_iotag, dpcVars, dataVars>>

\* The tag matches (TagsInStep); mbdt_process_dma_io reads what it will update.
DevPickUp ==
  /\ dev = "decode"
  /\ Programmed
  /\ dev_iotag = seen.IoTag
  /\ \E d \in Dir :
       /\ ProgrammedIoType(regs) = IoType[d]
       /\ iotype' = d
  /\ dev_iotag' = NextTag(dev_iotag)
  /\ seen' = regs
  /\ dev' = "xfer"
  /\ UNCHANGED <<blkVars, drvVars, regs, chainVars, IntRegState, dpcVars, dataVars>>

\* madsim_complete_simulated_sgdma walks the elements up to the one that ends
\* the chain.
Walked == {i \in Segs : \A j \in 1 .. i - 1 : ~chain[j].end}

Moved(p, k, h2d) == {i \in Walked : chain[i].host = p /\ chain[i].seg = k /\ chain[i].h2d = h2d}

\* mbdt_process_dma_io up to the call of the ISR.  The direction of the data is
\* that of each element.
DevTransfer ==
  /\ dev = "xfer"
  /\ regs' = [regs EXCEPT !.IntID = seen.IntID \cup {IntBit[iotype]}, !.Status = seen.Status]
  /\ disk' = [s \in Sectors |->
               IF \E i \in Walked : chain[i].h2d /\ chain[i].ofst = s
               THEN chain[CHOOSE i \in Walked : chain[i].h2d /\ chain[i].ofst = s].host
               ELSE disk[s]]
  /\ bufr' = [p \in Callers |-> [k \in Segs |->
               IF Moved(p, k, FALSE) = {} THEN bufr[p][k]
               ELSE disk[chain[CHOOSE i \in Moved(p, k, FALSE) : TRUE].ofst]]]
  /\ DTBC' = Cardinality(Walked)
  /\ seen' = RegistersAtReset
  /\ dev' = "isr"
  /\ UNCHANGED <<blkVars, drvVars, chain, IntRegState, iotype, dev_iotag, dpcVars>>

\* maddevb_isr_worker_fn, called by the device thread.
DevIsr ==
  /\ dev = "isr"
  /\ devlock = NoCaller
  /\ IntRegState' = regs
  /\ regs' = [regs EXCEPT !.IntEnable = {}]
  /\ dpcSched' = (dpcSched \/ regs.IntID # {})
  /\ dev' = "poll"
  /\ UNCHANGED <<blkVars, drvVars, chainVars, iotype, seen, dev_iotag, dpc, dataVars>>

-----------------------------------------------------------------------------
(***************************************************************************)
(* maddevb_dpctask, a tasklet.                                             *)
(***************************************************************************)
DpcReset ==
  /\ dpcSched
  /\ dpc = "idle"
  /\ devlock = NoCaller
  /\ dpcSched' = FALSE
  /\ dpc' = "wake"
  /\ regs' = IF IntRegState.IntID \cap AllValidMask # {} THEN ResetIoRegisters(regs) ELSE regs
  /\ UNCHANGED <<blkVars, drvVars, chainVars, IntRegState, devVars, dataVars>>

IoErrno(rc) == IF rc = "ok" THEN "eIoReset" ELSE rc

\* A DMA completion goes to the ioctl queue, if anybody waits there.
DpcWake ==
  /\ dpc = "wake"
  /\ IntRegState.IntID \cap {"DMA_INPUT", "DMA_OUTPUT"} # {}
  /\ dpc' = "idle"
  /\ ioctl_f' = IF ioctl_f = "eIoPending" THEN IoErrno(StatusErrno(IntRegState)) ELSE ioctl_f
  /\ UNCHANGED <<blkVars, cmd, batomic, devlock, regs, chainVars, IntRegState, devVars, dpcSched, dataVars>>

-----------------------------------------------------------------------------
BlkMqStep(p) == GetTag(p) \/ WaitTag(p) \/ QueueReqBusy(p) \/ QueueReq(p)

CmdStep(p) ==
  \/ AllocFails(p) \/ AllocCmd(p) \/ RequestFails(p) \/ SetPending(p) \/ Program(p)
  \/ SetGo(p) \/ ReleaseDevlock(p) \/ WaitEnd(p) \/ EndRequest(p) \/ FreeCmd(p)
  \/ RawRefused(p) \/ PageReturns(p)

CallStep(p) == CallBusy(p) \/ CallTakes(p)

DevStep == DevPoll \/ DevNop \/ DevPickUp \/ DevTransfer \/ DevIsr
DpcStep == DpcReset \/ DpcWake

Next ==
  \/ \E p \in Callers :
       BlkMqStep(p) \/ CmdStep(p) \/ CallStep(p) \/ (\E r \in Request : Submit(p, r))
  \/ RunQueueIdle
  \/ DevStep
  \/ DpcStep

\* Work items, the threads inside their calls, the device thread and tasklets
\* run.
Fairness ==
  /\ WF_vars(DevStep)
  /\ WF_vars(DpcStep)
  /\ \A p \in Callers : WF_vars(CmdStep(p)) /\ WF_vars(CallStep(p))

Spec == Init /\ [][Next]_vars
FairSpec == Spec /\ Fairness

-----------------------------------------------------------------------------
TypeOK ==
  /\ pc \in [Callers -> {"idle", "tag", "tagwait", "ready", "held", "call", "issued"}]
  /\ req \in [Callers -> Request]
  /\ tag \in Writer
  /\ runq \in BOOLEAN
  /\ cmd \in [Callers -> {"none", "alloc", "map", "prog", "go", "release", "wait", "end",
                           "free", "raw"}]
  /\ batomic \in BOOLEAN
  /\ ioctl_f \in IoState
  /\ devlock \in Writer
  /\ regs \in Registers
  /\ chain \in [Segs -> Element]
  /\ DTBC \in 0 .. MaxSegs
  /\ IntRegState \in Registers
  /\ dev \in {"poll", "decode", "xfer", "isr"}
  /\ iotype \in Dir
  /\ seen \in Registers
  /\ dev_iotag \in 0 .. TagMax
  /\ dpcSched \in BOOLEAN
  /\ dpc \in {"idle", "wake"}
  /\ disk \in [Sectors -> Writer]
  /\ bufr \in [Callers -> [Segs -> Writer]]

-----------------------------------------------------------------------------
\* The busy flag is taken exactly while one command is under way, and never
\* two are: of the request, page and raw paths, none enters while another is
\* between its cmpxchg and its atomic_set, on any of their eight exits.
FlagIsExclusive ==
  /\ batomic <=> \E p \in Callers : cmd[p] # "none"
  /\ \A p, q \in Callers : cmd[p] # "none" /\ cmd[q] # "none" => p = q

\* A request keeps its tag from the moment blk-mq hands it to the driver until
\* the driver ends it, and the driver ends no request twice: a command that
\* will still end a request has one that was not ended.
TagFollowsRequest ==
  \A p \in Callers :
    /\ tag = p <=> pc[p] \in {"ready", "held"} \/ (pc[p] = "issued" /\ Rq(p))
    /\ pc[p] = "issued" <=> cmd[p] \notin {"none", "free"}

\* The tag the device expects is the tag in the register while no i/o is
\* picked up, and one ahead of it from then on until the DPC has reset the
\* registers (mbdevthread.c:221, "sequence error").
TagsInStep ==
  dev_iotag = IF dev \in {"xfer", "isr"} \/ dpcSched THEN NextTag(regs.IoTag) ELSE regs.IoTag

\* Whatever the device thread, the ISR or the DPC is working on is the i/o of
\* one operation that waits for it on the ioctl queue, in its direction.
WorkHasWaiter ==
  dev \in {"xfer", "isr"} \/ dpcSched \/ dpc = "wake" =>
    \E p \in Callers :
      /\ cmd[p] \in {"release", "wait"}
      /\ ioctl_f = "eIoPending"
      /\ dev \in {"xfer", "isr"} => iotype = req[p].dir
      /\ dpcSched \/ dpc = "wake" => IntRegState.IntID = {IntBit[req[p].dir]}

\* The chain the device walks moves memory of the operation under way only, all
\* of it in the direction of that operation: no element is left from before.
ChainIsOwn ==
  dev = "xfer" =>
    \E p \in Callers :
      /\ cmd[p] \in {"release", "wait"}
      /\ \A i \in Walked : chain[i].host = p /\ chain[i].h2d = (req[p].dir = "wr")

\* maddevb_blk_utils.c:479 and maddrvrdefs.c:1061, the drivers' own assertions:
\* the transfer count, read from the live register after the wait, is the size
\* of the operation that ends.
EndSizeMatches == \A p \in Callers : At(p, "end") => DTBC = req[p].len

\* The device thread works on registers and chain without the lock: from
\* pick-up to ISR nobody else changes them.
DeviceUndisturbed ==
  [][(dev \in {"xfer", "isr"} /\ (regs' # regs \/ chain' # chain)) => (dev' # dev)]_vars

\* The busy flag always comes back: no path and no error keeps it.
FlagReturns == batomic ~> ~batomic

\* Every operation the driver has accepted ends, or blk-mq gets it back.
IssuedEnds == \A p \in Callers : pc[p] = "issued" ~> pc[p] # "issued"

-----------------------------------------------------------------------------
(***************************************************************************)
(* The driver and the device implement a disk that carries out one         *)
(* operation at a time.                                                    *)
(***************************************************************************)
IsMoved(p) ==
  \/ At(p, "end")
  \/ /\ cmd[p] \in {"release", "wait"}
     /\ dev = "isr" \/ dpcSched \/ dpc = "wake" \/ ioctl_f # "eIoPending"

OpView ==
  [p \in Callers |->
     IF pc[p] = "idle" THEN [state |-> "none", dir |-> "rd", sector |-> 0, len |-> 0]
     ELSE [state |-> IF pc[p] = "issued" /\ IsMoved(p) THEN "moved" ELSE "asked",
           dir |-> req[p].dir, sector |-> req[p].sector, len |-> req[p].len]]

Disk == INSTANCE MadSerialDisk WITH op <- OpView, got <- bufr

SerialDisk == Disk!Spec
=============================================================================
