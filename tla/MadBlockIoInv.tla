---------------------------- MODULE MadBlockIoInv ----------------------------
(***************************************************************************)
(* The inductive invariant of MadBlockIo.  One command is under way at     *)
(* most; its stage says what the registers, the device thread, the copy of *)
(* the registers and the DPC look like, and without one all of them rest.  *)
(* With it goes what the chain and the memory of the threads hold: one     *)
(* element, the last segment of the operation, whatever its length.        *)
(***************************************************************************)
EXTENDS MadBlockIo

AtRest == dpcSched = FALSE /\ dpc = "idle"

Quiet ==
  /\ dev = "poll" /\ AtRest
  /\ regs.Control = {} /\ regs.IntEnable = {} /\ regs.IntID = {}
  /\ dev_iotag = regs.IoTag

\* The registers as p has programmed them, with or without the go bit.
ProgrammedFor(p) ==
  /\ regs.IntEnable = {IntBit[req[p].dir], "STATUS_ALERT"}
  /\ regs.Control \subseteq {"CHAINED_DMA", "DMA_GO"}

Armed(p) ==
  /\ dev \in {"poll", "decode"} /\ AtRest
  /\ ProgrammedFor(p) /\ regs.IntID = {}
  /\ dev_iotag = regs.IoTag
  /\ dev = "decode" => seen.IntID = {} /\ seen.IoTag = regs.IoTag

PickedUp(p) ==
  /\ dev = "xfer" /\ AtRest
  /\ ProgrammedFor(p) /\ regs.IntID = {} /\ seen.IntID = {}
  /\ dev_iotag = NextTag(regs.IoTag) /\ iotype = req[p].dir

Raised(p) ==
  /\ dev = "isr" /\ AtRest
  /\ ProgrammedFor(p) /\ regs.IntID = {IntBit[req[p].dir]}
  /\ dev_iotag = NextTag(regs.IoTag) /\ iotype = req[p].dir

Scheduled(p) ==
  /\ dev = "poll" /\ dpcSched = TRUE /\ dpc = "idle"
  /\ regs.IntEnable = {} /\ IntRegState.IntID = {IntBit[req[p].dir]}
  /\ dev_iotag = NextTag(regs.IoTag)

Resetting(p) ==
  /\ dev = "poll" /\ dpcSched = FALSE /\ dpc = "wake"
  /\ regs.Control = {} /\ regs.IntEnable = {} /\ regs.IntID = {}
  /\ IntRegState.IntID = {IntBit[req[p].dir]}
  /\ dev_iotag = regs.IoTag

\* What the stage of p's command says.
CmdInv(p) ==
  /\ cmd[p] \in {"alloc", "map", "end", "free", "raw"} =>
       Quiet /\ ioctl_f = "eIoReset" /\ devlock = NoCaller
  /\ cmd[p] = "prog" => Quiet /\ ioctl_f = "eIoPending" /\ devlock = NoCaller
  /\ cmd[p] = "go" =>
       /\ Armed(p) /\ "DMA_GO" \notin regs.Control /\ ioctl_f = "eIoPending"
       /\ devlock = IF Rq(p) THEN NoCaller ELSE p
  /\ cmd[p] = "release" =>
       (Armed(p) \/ PickedUp(p) \/ Raised(p)) /\ ioctl_f = "eIoPending" /\ devlock = p
  /\ cmd[p] = "wait" =>
       /\ devlock = NoCaller
       /\ \/ ioctl_f # "eIoPending" /\ Quiet
          \/ /\ ioctl_f = "eIoPending"
             /\ Armed(p) \/ PickedUp(p) \/ Raised(p) \/ Scheduled(p) \/ Resetting(p)

\* A request, a page and a raw call are where they can be.
PathInv(p) ==
  /\ pc[p] \in {"tag", "tagwait", "ready", "held"} => Rq(p)
  /\ pc[p] = "call" => ~Rq(p)
  /\ cmd[p] = "alloc" => Rq(p)
  /\ cmd[p] \in {"release", "raw"} => ~Rq(p)

\* Without a command everything rests.
RestInv ==
  (\A p \in Callers : cmd[p] = "none") =>
    Quiet /\ ioctl_f = "eIoReset" /\ devlock = NoCaller

Types ==
  /\ pc \in [Callers -> {"idle", "tag", "tagwait", "ready", "held", "call", "issued"}]
  /\ req \in [Callers -> Request]
  /\ tag \in Writer
  /\ cmd \in [Callers -> {"none", "alloc", "map", "prog", "go", "release", "wait", "end",
                           "free", "raw"}]
  /\ batomic \in BOOLEAN
  /\ iotype \in Dir
  /\ regs \in Registers /\ seen \in Registers /\ IntRegState \in Registers

BInv ==
  /\ Types
  /\ FlagIsExclusive
  /\ TagFollowsRequest
  /\ \A p \in Callers : PathInv(p)
  /\ RestInv
  /\ \A p \in Callers : CmdInv(p)

-----------------------------------------------------------------------------
\* From its programming to its end an operation has its last segment in the
\* first element, which ends the chain; that segment is all that is counted.
ChainInv(p) ==
  /\ cmd[p] \in {"go", "release", "wait", "end"} => chain[1] = CdeFromSgle(p, req[p].len)
  /\ IsMoved(p) => DTBC = 1

\* Nothing is in a thread's memory before its operation has moved.
BufrInv(p) == IsMoved(p) \/ bufr[p] = NoData

DiskInv == TypeOK /\ \A p \in Callers : ChainInv(p) /\ BufrInv(p)

\* What the device moves for a request of any length is its last segment alone
\* (maddevb_init_sglist_io, Next_HWSGLE).
LastSegmentMoves ==
  dev = "xfer" =>
    \E p \in Callers :
      /\ cmd[p] \in {"release", "wait"}
      /\ Walked = {1}
      /\ chain[1] = [host |-> p, seg |-> req[p].len, ofst |-> req[p].sector + req[p].len - 1,
                     h2d |-> req[p].dir = "wr", end |-> TRUE]

\* Every operation under way is one segment long, as a page always is.
OneSegmentOps == \A p \in Callers : req[p].len = 1
=============================================================================
