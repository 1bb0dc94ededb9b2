------------------------ MODULE MadBlockIoData_proof ------------------------
(***************************************************************************)
(* What the block driver's chain and the memory of its threads hold, for   *)
(* any threads, sectors and segments: Spec => []DiskInv, and with it the   *)
(* types, that the chain is the operation's own, and that it is one        *)
(* element long, however long the operation is.  For operations of one     *)
(* segment that is all of them, and the driver and its device implement    *)
(* MadSerialDisk step by step.                                             *)
(***************************************************************************)
EXTENDS MadBlockIo_proof, FiniteSetTheorems, WellFoundedInduction

\* Every non-empty set of numbers has a smallest one.
LEMMA SmallestNumber ==
  ASSUME NEW T, T \subseteq Nat, T # {}
  PROVE  \E x \in T : \A y \in T : ~(y < x)
<1> DEFINE Less == OpToRel(<, Nat)
<1>1. IsWellFoundedOn(Less, Nat)
  BY NatLessThanWellFounded
<1>2. \A x, y \in Nat : y < x => <<y, x>> \in Less
  BY DEF OpToRel
<1> HIDE DEF Less
<1>3. PICK x \in T : \A y \in T : ~(<<y, x>> \in Less)
  BY <1>1, WFMin
<1> QED
  BY <1>2, <1>3

\* Next_HWSGLE never leaves the first hardware element.
LEMMA HwSgleStays == \A j \in Nat : HwSgle[j] = 1
<1> DEFINE G(f) == [j \in Nat |-> IF j <= 1 THEN 1 ELSE NextHwSgle(f[j - 1])]
           one == [j \in Nat |-> 1]
<1>1. one = G(one)
  BY DEF NextHwSgle
<1>2. HwSgle = CHOOSE f : f = G(f)
  BY DEF HwSgle
<1>3. HwSgle = G(HwSgle)
  <2> HIDE DEF G, one
  <2> QED
    BY <1>1, <1>2
<1> DEFINE Bad == {j \in Nat : HwSgle[j] # 1}
<1>4. Bad = {}
  <2> SUFFICES ASSUME Bad # {}
               PROVE  FALSE
    OBVIOUS
  <2>1. PICK x \in Bad : \A y \in Bad : ~(y < x)
    BY SmallestNumber
  <2>2. HwSgle[x] = IF x <= 1 THEN 1 ELSE HwSgle[x - 1]
    BY <1>3 DEF NextHwSgle
  <2>3. x - 1 \in Nat /\ x - 1 \notin Bad
    BY <2>1, <2>2
  <2> QED
    BY <2>1, <2>2, <2>3
<1> QED
  BY <1>4

\* The loop over the segments leaves the last one in the first hardware element
\* and the other elements as they were (maddevb_init_sglist_io).
LEMMA BuiltChainIsLast ==
  ASSUME NEW p \in Callers, req[p].len \in Segs
  PROVE  BuiltChain(p) = [i \in Segs |-> IF i = 1 THEN CdeFromSgle(p, req[p].len) ELSE chain[i]]
<1> DEFINE Written(i) == {j \in 1 .. req[p].len : HwSgle[j] = i}
           last(i) == CHOOSE j \in Written(i) : \A k \in Written(i) : k <= j
<1>1. req[p].len \in Nat \ {0}
  BY MaxSegsAssumption DEF Segs
<1>2. \A i \in Segs : i # 1 => Written(i) = {}
  BY <1>1, HwSgleStays
<1>3. Written(1) = 1 .. req[p].len
  BY <1>1, HwSgleStays
<1>4. last(1) = req[p].len
  <2>1. /\ req[p].len \in Written(1) /\ \A k \in Written(1) : k <= req[p].len
        /\ \A j \in Written(1) : (\A k \in Written(1) : k <= j) => j = req[p].len
    BY <1>1, <1>3
  <2> HIDE DEF Written
  <2> QED
    BY <2>1
<1>5. Written(1) # {}
  BY <1>1, <1>3
<1>6. \A i \in Segs : (IF Written(i) = {} THEN chain[i] ELSE CdeFromSgle(p, last(i)))
                        = (IF i = 1 THEN CdeFromSgle(p, req[p].len) ELSE chain[i])
  <2> HIDE DEF Written
  <2>1. \A i \in Segs : i = 1 => last(i) = req[p].len /\ Written(i) # {}
    BY <1>4, <1>5
  <2> HIDE DEF last
  <2> QED
    BY <1>2, <2>1
<1>7. BuiltChain(p) = [i \in Segs |-> IF Written(i) = {} THEN chain[i]
                                      ELSE CdeFromSgle(p, last(i))]
  BY DEF BuiltChain
<1> HIDE DEF Written, last
<1> QED
  BY <1>6, <1>7

\* The last segment of an operation is an element of the device.
LEMMA CdeType ==
  ASSUME NEW p \in Callers, req[p] \in Request
  PROVE  CdeFromSgle(p, req[p].len) \in Element
<1>1. req[p].len \in Segs /\ req[p].len \in Nat \ {0} /\ req[p].sector \in Nat
  <2>1. req[p].len \in Segs /\ req[p].sector \in Sectors
    BY DEF Request
  <2>2. req[p].sector \in Nat
    BY <2>1, SectorsAssumption
  <2>3. req[p].len \in Nat \ {0}
    <3> DEFINE n == req[p].len
    <3> HIDE DEF n
    <3> SUFFICES n \in Nat \ {0}
      BY DEF n
    <3>1. n \in 1 .. MaxSegs
      BY <2>1 DEF n, Segs
    <3> QED
      BY <3>1, MaxSegsAssumption
  <2> QED
    BY <2>1, <2>2, <2>3
<1>2. req[p].sector + req[p].len - 1 \in Sectors
  <2>1. req[p].sector .. req[p].sector + req[p].len - 1 \subseteq Sectors
    BY DEF Request
  <2> QED
    BY <1>1, <2>1
<1>3. (req[p].dir = "wr") \in BOOLEAN /\ (req[p].len = req[p].len) \in BOOLEAN
  OBVIOUS
<1> QED
  BY <1>1, <1>2, <1>3 DEF CdeFromSgle, Element, Writer

\* The device walks the first element only when that one ends the chain
\* (madsim_complete_simulated_sgdma).
LEMMA WalkedIsFirst ==
  ASSUME chain[1].end
  PROVE  Walked = {1} /\ Cardinality(Walked) = 1
<1>1. 1 \in Segs /\ Segs \subseteq Nat \ {0}
  BY MaxSegsAssumption DEF Segs
<1>2. \A i \in Walked : i = 1
  BY <1>1 DEF Walked
<1>3. 1 \in Walked
  BY <1>1 DEF Walked
<1> QED
  BY <1>2, <1>3, FS_Singleton

-----------------------------------------------------------------------------
\* An operation that stands still, or does not use the chain, keeps what the
\* chain and its memory hold.
LEMMA ChainFrame ==
  ASSUME NEW q \in Callers, ChainInv(q), BufrInv(q),
         UNCHANGED <<chain, DTBC, ioctl_f, dev, dpcSched, dpc>>,
         \/ UNCHANGED <<cmd[q], req[q], bufr[q]>>
         \/ cmd'[q] \notin {"go", "release", "wait", "end"} /\ bufr'[q] = NoData
  PROVE  ChainInv(q)' /\ BufrInv(q)'
BY DEF ChainInv, BufrInv, IsMoved, At, CdeFromSgle

\* The threads' side of blk-mq does not reach the chain.
LEMMA BlkMqKeepsChain ==
  ASSUME BInv, DiskInv, NEW p \in Callers,
         BlkMqStep(p) \/ CallStep(p) \/ RunQueueIdle \/ (\E r \in Request : Submit(p, r)),
         NEW q \in Callers
  PROVE  ChainInv(q)' /\ BufrInv(q)'
<1> USE DEF blkVars, drvVars, chainVars, devVars, dpcVars, dataVars
<1>1. ChainInv(q) /\ BufrInv(q)
  BY DEF DiskInv
<1>2. /\ cmd \in [Callers -> {"none", "alloc", "map", "prog", "go", "release", "wait", "end",
                           "free", "raw"}]
      /\ req \in [Callers -> Request] /\ bufr \in [Callers -> [Segs -> Writer]]
      /\ pc \in [Callers -> {"idle", "tag", "tagwait", "ready", "held", "call", "issued"}]
      /\ \A c \in Callers : pc[c] # "issued" => cmd[c] \in {"none", "free"}
  BY DEF BInv, Types, DiskInv, TypeOK, TagFollowsRequest
<1>3. UNCHANGED <<chain, DTBC, ioctl_f, dev, dpcSched, dpc>>
  BY DEF BlkMqStep, CallStep, RunQueueIdle, GetTag, WaitTag, QueueReqBusy, QueueReq, CallBusy,
         CallTakes, Submit
<1>4. CASE RunQueueIdle
  BY <1>1, <1>3, <1>4, ChainFrame DEF RunQueueIdle
<1>5. CASE GetTag(p) \/ WaitTag(p) \/ QueueReqBusy(p)
  BY <1>1, <1>3, <1>5, ChainFrame DEF GetTag, WaitTag, QueueReqBusy
<1>6. CASE QueueReq(p) \/ CallTakes(p)
  <2>1. UNCHANGED <<req, bufr>> /\ pc[p] # "issued"
    BY <1>6 DEF QueueReq, CallTakes, Dispatch
  <2>2. CASE q # p
    BY <1>1, <1>2, <1>3, <1>6, <2>1, <2>2, ChainFrame DEF QueueReq, CallTakes, Cmd
  <2>3. CASE q = p
    <3>1. cmd'[q] \notin {"go", "release", "wait", "end"}
      BY <1>2, <1>6, <2>3 DEF QueueReq, CallTakes, Cmd
    <3>2. bufr'[q] = NoData
      BY <1>1, <1>2, <2>1, <2>3 DEF BufrInv, IsMoved, At
    <3> QED
      BY <1>1, <1>3, <3>1, <3>2, ChainFrame
  <2> QED
    BY <2>2, <2>3
<1>7. CASE CallBusy(p) \/ (\E r \in Request : Submit(p, r))
  <2>1. UNCHANGED cmd /\ pc[p] # "issued"
    BY <1>7 DEF CallBusy, Submit
  <2>2. CASE q # p
    BY <1>1, <1>2, <1>3, <1>7, <2>1, <2>2, ChainFrame DEF CallBusy, Submit, Return
  <2>3. CASE q = p
    <3>1. bufr[q] = NoData
      BY <1>1, <1>2, <2>1, <2>3 DEF BufrInv, IsMoved, At
    <3>2. bufr'[q] = NoData
      BY <1>2, <1>7, <2>3, <3>1 DEF CallBusy, Submit, Return
    <3>3. cmd'[q] \notin {"go", "release", "wait", "end"}
      BY <1>2, <2>1, <2>3
    <3> QED
      BY <1>1, <1>3, <3>2, <3>3, ChainFrame
  <2> QED
    BY <2>2, <2>3
<1> QED
  BY <1>4, <1>5, <1>6, <1>7 DEF BlkMqStep, CallStep

\* Without a command that was programmed nothing has moved.
LEMMA NotMoved ==
  ASSUME BInv, DiskInv, NEW p \in Callers,
         cmd[p] \notin {"release", "wait", "end"}
  PROVE  ~IsMoved(p) /\ bufr[p] = NoData
<1>1. ~IsMoved(p)
  BY DEF IsMoved, At
<1> QED
  BY <1>1 DEF DiskInv, BufrInv

\* Of the driver's steps only the programming writes the chain.
LEMMA CmdStepKeepsChain ==
  ASSUME BInv, DiskInv, NEW p \in Callers, CmdStep(p), NEW q \in Callers
  PROVE  ChainInv(q)' /\ BufrInv(q)'
<1> USE DEF blkVars, drvVars, chainVars, devVars, dpcVars, dataVars, At, Cmd
<1>1. ChainInv(q) /\ BufrInv(q)
  BY DEF DiskInv
<1>2. /\ cmd \in [Callers -> {"none", "alloc", "map", "prog", "go", "release", "wait", "end",
                           "free", "raw"}]
      /\ req \in [Callers -> Request] /\ bufr \in [Callers -> [Segs -> Writer]]
      /\ \A c, d \in Callers : cmd[c] # "none" /\ cmd[d] # "none" => c = d
  BY DEF BInv, Types, DiskInv, TypeOK, FlagIsExclusive
<1>3. CASE q # p
  <2>1. cmd[p] # "none"
    BY DEF CmdStep, AllocFails, AllocCmd, RequestFails, SetPending, Program, SetGo,
           ReleaseDevlock, WaitEnd, EndRequest, FreeCmd, RawRefused, PageReturns
  <2>2. cmd[q] = "none" /\ bufr[q] = NoData
    BY <1>2, <1>3, <2>1, NotMoved
  <2>3. cmd'[q] = "none"
    BY <1>2, <1>3, <2>2 DEF CmdStep, AllocFails, AllocCmd, RequestFails, SetPending, Program,
           SetGo, ReleaseDevlock, WaitEnd, EndRequest, FreeCmd, RawRefused, PageReturns
  <2>4. bufr'[q] = NoData
    BY <1>2, <1>3, <2>2 DEF CmdStep, AllocFails, AllocCmd, RequestFails, SetPending, Program,
           SetGo, ReleaseDevlock, WaitEnd, EndRequest, FreeCmd, RawRefused, PageReturns, Return
  <2> QED
    BY <2>3, <2>4 DEF ChainInv, BufrInv, IsMoved
<1>4. CASE q = p
  <2>1. CASE RequestFails(p) \/ EndRequest(p) \/ RawRefused(p) \/ PageReturns(p)
    <3>1. cmd'[q] \in {"free", "none"} /\ bufr'[q] = NoData
      BY <1>2, <1>4, <2>1 DEF RequestFails, EndRequest, RawRefused, PageReturns, Return
    <3> QED
      BY <3>1 DEF ChainInv, BufrInv, IsMoved
  <2>2. CASE AllocFails(p) \/ AllocCmd(p) \/ SetPending(p) \/ FreeCmd(p)
    <3>1. cmd[q] \notin {"release", "wait", "end"} /\ bufr' = bufr
      BY <1>4, <2>2 DEF AllocFails, AllocCmd, SetPending, FreeCmd
    <3>2. cmd'[q] \in {"none", "map", "prog"}
      BY <1>2, <1>4, <2>2 DEF AllocFails, AllocCmd, SetPending, FreeCmd
    <3> QED
      BY <3>1, <3>2, NotMoved DEF ChainInv, BufrInv, IsMoved
  <2>3. CASE Program(p)
    <3>1. cmd'[q] = "go" /\ bufr'[q] = NoData /\ req' = req
      BY <1>2, <1>4, <2>3, NotMoved DEF Program
    <3>2. chain'[1] = CdeFromSgle(q, req[q].len)
      <4>1. req[p].len \in Segs /\ 1 \in Segs
        BY <1>2, MaxSegsAssumption DEF Request, Segs
      <4> QED
        BY <1>4, <2>3, <4>1, BuiltChainIsLast DEF Program
    <3> QED
      BY <3>1, <3>2 DEF ChainInv, BufrInv, IsMoved, CdeFromSgle
  <2>4. CASE SetGo(p)
    <3>1. dev \in {"poll", "decode"} /\ dpcSched = FALSE /\ dpc = "idle" /\ ioctl_f = "eIoPending"
      BY <2>4 DEF BInv, CmdInv, Armed, AtRest, SetGo
    <3>2. cmd'[q] \in {"wait", "release"} /\ bufr'[q] = NoData
      BY <1>2, <1>4, <2>4, NotMoved DEF SetGo
    <3> QED
      BY <1>1, <1>4, <2>4, <3>1, <3>2 DEF SetGo, ChainInv, BufrInv, IsMoved, CdeFromSgle
  <2>5. CASE ReleaseDevlock(p) \/ WaitEnd(p)
    <3>1. UNCHANGED <<chain, DTBC, bufr, req>> /\ cmd[q] \in {"release", "wait"}
      BY <1>4, <2>5 DEF ReleaseDevlock, WaitEnd
    <3>2. IsMoved(q)' = IsMoved(q)
      BY <1>2, <1>4, <2>5 DEF ReleaseDevlock, WaitEnd, IsMoved
    <3> QED
      BY <1>1, <3>1, <3>2 DEF ChainInv, BufrInv, CdeFromSgle
  <2> QED
    BY <2>1, <2>2, <2>3, <2>4, <2>5 DEF CmdStep
<1> QED
  BY <1>3, <1>4

\* While the device thread carries out an i/o, its chain is the first element.
LEMMA TransferOfOne ==
  ASSUME BInv, DiskInv, dev \in {"xfer", "isr"} \/ dpcSched \/ dpc = "wake"
  PROVE  \E p \in Callers :
           /\ cmd[p] \in {"release", "wait"} /\ ioctl_f = "eIoPending"
           /\ dev = "xfer" => PickedUp(p)
           /\ PickedUp(p) \/ Raised(p) \/ Scheduled(p) \/ Resetting(p)
           /\ chain[1] = CdeFromSgle(p, req[p].len)
           /\ Walked = {1} /\ Cardinality(Walked) = 1
           /\ \A q \in Callers : q # p => cmd[q] = "none"
<1>1. PICK p \in Callers : cmd[p] # "none"
  BY DEF BInv, RestInv, Quiet, AtRest
<1>2. /\ cmd[p] \in {"release", "wait"} /\ ioctl_f = "eIoPending"
      /\ PickedUp(p) \/ Raised(p) \/ Scheduled(p) \/ Resetting(p)
  BY <1>1 DEF BInv, Types, CmdInv, Quiet, AtRest, Armed
<1>3. dev = "xfer" => PickedUp(p)
  BY <1>2 DEF PickedUp, Raised, Scheduled, Resetting
<1>4. chain[1] = CdeFromSgle(p, req[p].len)
  BY <1>2 DEF DiskInv, ChainInv
<1>5. Walked = {1} /\ Cardinality(Walked) = 1
  <2>1. chain[1].end = (req[p].len = req[p].len)
    BY <1>4 DEF CdeFromSgle
  <2> QED
    BY <2>1, WalkedIsFirst
<1>6. \A q \in Callers : q # p => cmd[q] = "none"
  BY <1>1 DEF BInv, FlagIsExclusive
<1> QED
  BY <1>2, <1>3, <1>4, <1>5, <1>6

\* A thread without a command has nothing moved, before a step and after it.
LEMMA IdleKeepsChain ==
  ASSUME NEW q \in Callers, cmd[q] = "none", cmd' = cmd, bufr'[q] = NoData
  PROVE  ChainInv(q)' /\ BufrInv(q)'
BY DEF ChainInv, BufrInv, IsMoved, At

\* The device moves memory of the one operation under way only.
LEMMA OthersBufrStays ==
  ASSUME BInv, DiskInv, DevTransfer, NEW q \in Callers, cmd[q] = "none"
  PROVE  bufr'[q] = NoData
<1>1. PICK p \in Callers :
        /\ cmd[p] \in {"release", "wait"} /\ chain[1] = CdeFromSgle(p, req[p].len)
        /\ Walked = {1}
  BY TransferOfOne DEF DevTransfer
<1>2. \A k \in Segs : Moved(q, k, FALSE) = {}
  BY <1>1 DEF Moved, CdeFromSgle
<1>3. bufr[q] = NoData
  BY NotMoved
<1>4. bufr'[q] = [k \in Segs |-> IF Moved(q, k, FALSE) = {} THEN bufr[q][k]
                    ELSE disk[chain[CHOOSE i \in Moved(q, k, FALSE) : TRUE].ofst]]
  BY DEF DevTransfer
<1>5. \A k \in Segs : bufr'[q][k] = NoCaller
  BY <1>2, <1>3, <1>4 DEF NoData
<1> QED
  BY <1>4, <1>5 DEF NoData

\* From the interrupt to the answer an operation stays moved: the ISR schedules
\* the DPC, the DPC wakes the waiter.
LEMMA IsMovedStays ==
  ASSUME BInv, DiskInv, DevIsr \/ DpcStep, NEW p \in Callers,
         cmd[p] \in {"release", "wait"}
  PROVE  IsMoved(p)'
<1> USE DEF blkVars, drvVars
<1>1. CmdInv(p) /\ cmd'[p] = cmd[p]
  BY DEF BInv, DevIsr, DpcStep, DpcReset, DpcWake
<1>2. CASE DevIsr
  <2>1. Raised(p)
    BY <1>1, <1>2 DEF CmdInv, DevIsr, Quiet, Armed, PickedUp, Scheduled, Resetting
  <2>2. dpcSched'
    BY <1>2, <2>1 DEF DevIsr, Raised
  <2> QED
    BY <1>1, <2>2 DEF IsMoved
<1>3. CASE DpcReset
  BY <1>1, <1>3 DEF DpcReset, IsMoved
<1>4. CASE DpcWake
  <2>1. Resetting(p)
    BY <1>1, <1>4 DEF CmdInv, DpcWake, Quiet, AtRest, Armed, PickedUp, Raised, Scheduled
  <2>2. ioctl_f' # "eIoPending"
    BY <1>4, <2>1 DEF DpcWake, IoErrno, StatusErrno
  <2> QED
    BY <1>1, <2>2 DEF IsMoved
<1> QED
  BY <1>2, <1>3, <1>4 DEF DpcStep

\* The device thread leaves the chain alone and counts the one element.
LEMMA DevStepKeepsChain ==
  ASSUME BInv, DiskInv, DevStep \/ DpcStep, NEW q \in Callers
  PROVE  ChainInv(q)' /\ BufrInv(q)'
<1> USE DEF blkVars, drvVars, chainVars, devVars, dpcVars, dataVars
<1>1. ChainInv(q) /\ BufrInv(q)
  BY DEF DiskInv
<1>2. UNCHANGED <<cmd, req, chain>>
  BY DEF DevStep, DpcStep, DevPoll, DevNop, DevPickUp, DevTransfer, DevIsr, DpcReset, DpcWake
<1>3. CASE DevPoll \/ DevNop \/ DevPickUp
  <2>1. UNCHANGED <<DTBC, bufr, ioctl_f, dpcSched, dpc>> /\ dev # "isr" /\ dev' # "isr"
    BY <1>3 DEF DevPoll, DevNop, DevPickUp
  <2> QED
    BY <1>1, <1>2, <2>1 DEF ChainInv, BufrInv, IsMoved, At, CdeFromSgle
<1>4. CASE DevTransfer
  <2>1. PICK p \in Callers :
          /\ cmd[p] \in {"release", "wait"} /\ Cardinality(Walked) = 1
          /\ \A c \in Callers : c # p => cmd[c] = "none"
    BY <1>4, TransferOfOne DEF DevTransfer
  <2>2. CASE q # p
    BY <1>2, <1>4, <2>1, <2>2, OthersBufrStays, IdleKeepsChain
  <2>3. CASE q = p
    <3>1. DTBC' = 1 /\ dev' = "isr"
      BY <1>4, <2>1 DEF DevTransfer
    <3> QED
      BY <1>1, <1>2, <2>1, <2>3, <3>1 DEF ChainInv, BufrInv, IsMoved, At, CdeFromSgle
  <2> QED
    BY <2>2, <2>3
<1>5. CASE DevIsr \/ DpcStep
  <2>1. PICK p \in Callers :
          /\ cmd[p] \in {"release", "wait"}
          /\ PickedUp(p) \/ Raised(p) \/ Scheduled(p) \/ Resetting(p)
          /\ \A c \in Callers : c # p => cmd[c] = "none"
    BY <1>5, TransferOfOne DEF DevIsr, DpcStep, DpcReset, DpcWake
  <2>2. UNCHANGED <<bufr, DTBC>> /\ dev # "xfer"
    BY <1>5, <2>1 DEF DevIsr, DpcStep, DpcReset, DpcWake, Raised, PickedUp, Scheduled, Resetting,
                      AtRest
  <2>3. CASE q # p
    BY <1>2, <2>1, <2>2, <2>3, NotMoved, IdleKeepsChain
  <2>4. CASE q = p
    <3>1. IsMoved(q) /\ DTBC = 1
      BY <1>1, <2>1, <2>2, <2>4 DEF ChainInv, IsMoved, PickedUp, Raised, Scheduled, Resetting
    <3>2. IsMoved(q)'
      BY <1>5, <2>1, <2>4, IsMovedStays
    <3> QED
      BY <1>1, <1>2, <2>2, <3>1, <3>2 DEF ChainInv, BufrInv, CdeFromSgle
  <2> QED
    BY <2>3, <2>4
<1> QED
  BY <1>3, <1>4, <1>5 DEF DevStep

-----------------------------------------------------------------------------
\* What a returning operation leaves of its thread is in its type.
LEMMA ReturnType ==
  ASSUME TypeOK, NEW p \in Callers, Return(p)
  PROVE  bufr' \in [Callers -> [Segs -> Writer]]
<1>1. NoData \in [Segs -> Writer]
  BY DEF NoData, Writer
<1> QED
  BY <1>1 DEF TypeOK, Return

\* An answer of the device is a state of the i/o queue.
LEMMA IoErrnoType ==
  ASSUME NEW r
  PROVE  IoErrno(StatusErrno(r)) \in IoState
<1>1. StatusErrno(r) \in DeviceErrno \cup {"ok"}
  BY DEF StatusErrno, DeviceErrno
<1> QED
  BY <1>1 DEF IoErrno, IoState

\* The threads' side of blk-mq keeps the types.
LEMMA BlkMqKeepsTypes ==
  ASSUME BInv, DiskInv, Types', NEW p \in Callers,
         BlkMqStep(p) \/ CallStep(p) \/ RunQueueIdle \/ (\E r \in Request : Submit(p, r))
  PROVE  TypeOK'
<1> USE DEF blkVars, drvVars, chainVars, devVars, dpcVars, dataVars
<1>1. TypeOK
  BY DEF DiskInv
<1>2. UNCHANGED <<ioctl_f, devlock, chain, DTBC, dev, dev_iotag, dpcSched, dpc, disk>>
  BY DEF BlkMqStep, CallStep, RunQueueIdle, GetTag, WaitTag, QueueReqBusy, QueueReq, CallBusy,
         CallTakes, Submit
<1>3. runq' \in BOOLEAN
  BY <1>1 DEF TypeOK, BlkMqStep, CallStep, RunQueueIdle, GetTag, WaitTag, QueueReqBusy,
              QueueReq, CallBusy, CallTakes, Submit
<1>4. bufr' \in [Callers -> [Segs -> Writer]]
  <2>1. bufr' = bufr \/ Return(p)
    BY DEF BlkMqStep, CallStep, RunQueueIdle, GetTag, WaitTag, QueueReqBusy, QueueReq, CallBusy,
           CallTakes, Submit
  <2> QED
    BY <1>1, <2>1, ReturnType DEF TypeOK
<1> QED
  BY <1>1, <1>2, <1>3, <1>4 DEF TypeOK, Types

\* The driver's steps keep the types.
LEMMA CmdStepKeepsTypes ==
  ASSUME BInv, DiskInv, Types', NEW p \in Callers, CmdStep(p)
  PROVE  TypeOK'
<1> USE DEF blkVars, drvVars, chainVars, devVars, dpcVars, dataVars
<1>1. TypeOK
  BY DEF DiskInv
<1>2. UNCHANGED <<DTBC, dev, dev_iotag, dpcSched, dpc, disk>>
  BY DEF CmdStep, AllocFails, AllocCmd, RequestFails, SetPending, Program, SetGo,
         ReleaseDevlock, WaitEnd, EndRequest, FreeCmd, RawRefused, PageReturns
<1>3. runq' \in BOOLEAN
  BY <1>1 DEF TypeOK, CmdStep, AllocFails, AllocCmd, RequestFails, SetPending, Program, SetGo,
         ReleaseDevlock, WaitEnd, EndRequest, FreeCmd, RawRefused, PageReturns
<1>4. ioctl_f' \in IoState /\ devlock' \in Writer
  BY <1>1 DEF TypeOK, IoState, Writer, CmdStep, AllocFails, AllocCmd, RequestFails, SetPending,
         Program, SetGo, ReleaseDevlock, WaitEnd, EndRequest, FreeCmd, RawRefused, PageReturns
<1>5. bufr' \in [Callers -> [Segs -> Writer]]
  <2>1. bufr' = bufr \/ Return(p)
    BY DEF CmdStep, AllocFails, AllocCmd, RequestFails, SetPending, Program, SetGo,
         ReleaseDevlock, WaitEnd, EndRequest, FreeCmd, RawRefused, PageReturns
  <2> QED
    BY <1>1, <2>1, ReturnType DEF TypeOK
<1>6. chain' \in [Segs -> Element]
  <2>1. CASE Program(p)
    <3>1. req[p] \in Request /\ req[p].len \in Segs
      BY <1>1 DEF TypeOK, Request
    <3>2. chain' = [i \in Segs |-> IF i = 1 THEN CdeFromSgle(p, req[p].len) ELSE chain[i]]
      BY <2>1, <3>1, BuiltChainIsLast DEF Program
    <3>3. CdeFromSgle(p, req[p].len) \in Element
      BY <3>1, CdeType
    <3> QED
      BY <1>1, <3>2, <3>3 DEF TypeOK
  <2>2. CASE ~Program(p)
    BY <1>1, <2>2 DEF TypeOK, CmdStep, AllocFails, AllocCmd, RequestFails, SetPending, SetGo,
         ReleaseDevlock, WaitEnd, EndRequest, FreeCmd, RawRefused, PageReturns
  <2> QED
    BY <2>1, <2>2
<1> QED
  BY <1>1, <1>2, <1>3, <1>4, <1>5, <1>6 DEF TypeOK, Types

\* What a transfer leaves on the disk and in memory is in its type.
LEMMA TransferType ==
  ASSUME BInv, DiskInv, DevTransfer
  PROVE  /\ disk' \in [Sectors -> Writer]
         /\ bufr' \in [Callers -> [Segs -> Writer]]
         /\ DTBC' \in 0 .. MaxSegs
<1>1. TypeOK
  BY DEF DiskInv
<1>2. Walked = {1} /\ Cardinality(Walked) = 1 /\ 1 \in Segs
  BY TransferOfOne, MaxSegsAssumption DEF DevTransfer, Segs
<1>3. DTBC' \in 0 .. MaxSegs
  BY <1>2, MaxSegsAssumption DEF DevTransfer
<1>4. chain[1].host \in Writer /\ chain[1].ofst \in Sectors
  BY <1>1, <1>2 DEF TypeOK, Element
<1>5. disk' \in [Sectors -> Writer]
  <2> DEFINE Hit(s) == {i \in Walked : chain[i].h2d /\ chain[i].ofst = s}
             hit(s) == CHOOSE i \in Walked : chain[i].h2d /\ chain[i].ofst = s
  <2>1. ASSUME NEW s \in Sectors, \E i \in Walked : chain[i].h2d /\ chain[i].ofst = s
        PROVE  chain[hit(s)].host \in Writer
    <3>1. hit(s) \in Walked
      BY <2>1
    <3> HIDE DEF hit
    <3> QED
      BY <1>2, <1>4, <3>1
  <2>2. disk' = [s \in Sectors |-> IF \E i \in Walked : chain[i].h2d /\ chain[i].ofst = s
                                   THEN chain[hit(s)].host ELSE disk[s]]
    BY DEF DevTransfer
  <2>3. \A s \in Sectors : disk[s] \in Writer
    BY <1>1 DEF TypeOK
  <2> HIDE DEF hit
  <2> QED
    BY <2>1, <2>2, <2>3
<1>6. bufr' \in [Callers -> [Segs -> Writer]]
  <2> DEFINE hit(p, k) == CHOOSE i \in Moved(p, k, FALSE) : TRUE
  <2>1. ASSUME NEW p \in Callers, NEW k \in Segs, Moved(p, k, FALSE) # {}
        PROVE  disk[chain[hit(p, k)].ofst] \in Writer
    <3>1. hit(p, k) \in Moved(p, k, FALSE)
      BY <2>1
    <3> HIDE DEF hit
    <3>2. hit(p, k) = 1
      BY <1>2, <3>1 DEF Moved
    <3> QED
      BY <1>1, <1>4, <3>2 DEF TypeOK
  <2>2. bufr' = [p \in Callers |-> [k \in Segs |->
                   IF Moved(p, k, FALSE) = {} THEN bufr[p][k] ELSE disk[chain[hit(p, k)].ofst]]]
    BY DEF DevTransfer
  <2>3. \A p \in Callers, k \in Segs : bufr[p][k] \in Writer
    BY <1>1 DEF TypeOK
  <2> HIDE DEF hit
  <2> QED
    BY <2>1, <2>2, <2>3
<1> QED
  BY <1>3, <1>5, <1>6

\* The device thread and the DPC keep the types.
LEMMA DevStepKeepsTypes ==
  ASSUME BInv, DiskInv, Types', DevStep \/ DpcStep
  PROVE  TypeOK'
<1> USE DEF blkVars, drvVars, chainVars, devVars, dpcVars, dataVars
<1>1. TypeOK
  BY DEF DiskInv
<1>2. UNCHANGED <<runq, devlock, chain>>
  BY DEF DevStep, DpcStep, DevPoll, DevNop, DevPickUp, DevTransfer, DevIsr, DpcReset, DpcWake
<1>3. dev' \in {"poll", "decode", "xfer", "isr"} /\ dpc' \in {"idle", "wake"}
  BY <1>1 DEF TypeOK, DevStep, DpcStep, DevPoll, DevNop, DevPickUp, DevTransfer, DevIsr,
              DpcReset, DpcWake
<1>4. dpcSched' \in BOOLEAN
  BY <1>1 DEF TypeOK, DevStep, DpcStep, DevPoll, DevNop, DevPickUp, DevTransfer, DevIsr,
              DpcReset, DpcWake
<1>5. dev_iotag' \in 0 .. TagMax
  <2>1. dev_iotag' \in {dev_iotag, NextTag(dev_iotag)}
    BY DEF DevStep, DpcStep, DevPoll, DevNop, DevPickUp, DevTransfer, DevIsr, DpcReset, DpcWake
  <2> QED
    BY <1>1, <2>1, TagMaxAssumption DEF TypeOK, NextTag
<1>6. ioctl_f' \in IoState
  BY <1>1, IoErrnoType DEF TypeOK, DevStep, DpcStep, DevPoll, DevNop, DevPickUp, DevTransfer,
              DevIsr, DpcReset, DpcWake
<1>7. /\ disk' \in [Sectors -> Writer]
      /\ bufr' \in [Callers -> [Segs -> Writer]]
      /\ DTBC' \in 0 .. MaxSegs
  BY <1>1, TransferType DEF TypeOK, DevStep, DpcStep, DevPoll, DevNop, DevPickUp, DevIsr,
              DpcReset, DpcWake
<1> QED
  BY <1>1, <1>2, <1>3, <1>4, <1>5, <1>6, <1>7 DEF TypeOK, Types

-----------------------------------------------------------------------------
\* At first the chain and the memory are empty.
LEMMA InitSatisfiesDiskInv ==
  ASSUME Init
  PROVE  DiskInv
<1>1. Types
  BY InitSatisfiesBInv DEF BInv
<1>2. NoElement \in Element /\ NoData \in [Segs -> Writer] /\ 0 \in 0 .. MaxSegs /\ 0 \in 0 .. TagMax
  BY MaxSegsAssumption, SectorsAssumption, TagMaxAssumption
     DEF NoElement, Element, NoData, Segs, Writer
<1>3. TypeOK
  BY <1>1, <1>2 DEF Init, TypeOK, Types, IoState, Writer
<1>4. \A p \in Callers : ChainInv(p) /\ BufrInv(p)
  BY DEF Init, ChainInv, BufrInv, IsMoved, At
<1> QED
  BY <1>3, <1>4 DEF DiskInv

\* Every step keeps DiskInv.
LEMMA StepKeepsDiskInv ==
  ASSUME BInv, DiskInv, [Next]_vars
  PROVE  DiskInv'
<1>1. Types'
  BY StepKeepsBInv DEF BInv
<1>2. CASE UNCHANGED vars
  BY <1>2 DEF vars, blkVars, drvVars, chainVars, devVars, dpcVars, dataVars, DiskInv, TypeOK,
     ChainInv, BufrInv, IsMoved, At, CdeFromSgle
<1>3. ASSUME NEW p \in Callers,
             BlkMqStep(p) \/ CallStep(p) \/ RunQueueIdle \/ (\E r \in Request : Submit(p, r))
      PROVE  DiskInv'
  BY <1>1, <1>3, BlkMqKeepsTypes, BlkMqKeepsChain DEF DiskInv
<1>4. ASSUME NEW p \in Callers, CmdStep(p)
      PROVE  DiskInv'
  BY <1>1, <1>4, CmdStepKeepsTypes, CmdStepKeepsChain DEF DiskInv
<1>5. CASE DevStep \/ DpcStep
  BY <1>1, <1>5, DevStepKeepsTypes, DevStepKeepsChain DEF DiskInv
<1>6. CASE RunQueueIdle /\ Callers = {}
  BY <1>6, <1>1 DEF RunQueueIdle, vars, blkVars, drvVars, chainVars, devVars, dpcVars, dataVars,
     DiskInv, TypeOK, Types
<1> QED
  BY <1>2, <1>3, <1>4, <1>5, <1>6 DEF Next

\* DiskInv is an invariant of the block driver and its device.
THEOREM DiskInvariance == Spec => []DiskInv
<1>1. Init => DiskInv
  BY InitSatisfiesDiskInv
<1>2. BInv /\ DiskInv /\ [Next]_vars => DiskInv'
  BY StepKeepsDiskInv
<1> QED
  BY <1>1, <1>2, BlockInvariance, PTL DEF Spec

\* Every variable of the block driver and its device keeps its type: the sectors
\* and segments the driver computes exist, and the transfer count never exceeds
\* the largest request (maddevb_init_cde_from_sgle, DTBC).
THEOREM BlockTypes == Spec => []TypeOK
<1>1. DiskInv => TypeOK
  BY DEF DiskInv
<1> QED
  BY <1>1, DiskInvariance, PTL

\* A chain of many segments is one element, the last, for every length of a
\* request (maddevb_init_sglist_io, Next_HWSGLE): the segments before it are
\* never moved.
THEOREM OnlyTheLastSegmentMoves == Spec => []LastSegmentMoves
<1>1. BInv /\ DiskInv => LastSegmentMoves
  <2> SUFFICES ASSUME BInv, DiskInv, dev = "xfer"
               PROVE  LastSegmentMoves
    BY DEF LastSegmentMoves
  <2>1. PICK p \in Callers :
          /\ cmd[p] \in {"release", "wait"}
          /\ chain[1] = CdeFromSgle(p, req[p].len) /\ Walked = {1}
    BY TransferOfOne
  <2>2. chain[1].end
    <3>1. chain[1].end = (req[p].len = req[p].len)
      BY <2>1 DEF CdeFromSgle
    <3> QED
      BY <3>1
  <2>3. chain[1] = [host |-> p, seg |-> req[p].len, ofst |-> req[p].sector + req[p].len - 1,
                    h2d |-> req[p].dir = "wr", end |-> TRUE]
    BY <2>1, <2>2, Zenon DEF CdeFromSgle
  <2> QED
    BY <2>1, <2>3 DEF LastSegmentMoves
<1> QED
  BY <1>1, BlockInvariance, DiskInvariance, PTL

\* The chain the device walks moves memory of the operation under way, in its
\* direction, whatever was programmed before (maddevb_init_cde_from_sgle,
\* madsim_complete_simulated_sgdma).
THEOREM TheChainIsOwn == Spec => []ChainIsOwn
<1>1. BInv /\ DiskInv => ChainIsOwn
  <2> SUFFICES ASSUME BInv, DiskInv, dev = "xfer"
               PROVE  ChainIsOwn
    BY DEF ChainIsOwn
  <2>1. PICK p \in Callers :
          /\ cmd[p] \in {"release", "wait"}
          /\ chain[1] = CdeFromSgle(p, req[p].len) /\ Walked = {1}
    BY TransferOfOne
  <2>2. chain[1].host = p /\ chain[1].h2d = (req[p].dir = "wr")
    BY <2>1 DEF CdeFromSgle
  <2> QED
    BY <2>1, <2>2 DEF ChainIsOwn
<1> QED
  BY <1>1, BlockInvariance, DiskInvariance, PTL

\* The drivers' assertion on the size of the operation that ends
\* (maddevb_blk_utils.c:479, maddrvrdefs.c:1061) holds as long as no operation is
\* longer than a segment; the run blkchain shows that it fails for two.
THEOREM OneSegmentSizeMatches == Spec /\ []OneSegmentOps => []EndSizeMatches
<1>1. DiskInv /\ OneSegmentOps => EndSizeMatches
  BY DEF DiskInv, ChainInv, IsMoved, At, OneSegmentOps, EndSizeMatches
<1> QED
  BY <1>1, DiskInvariance, PTL

-----------------------------------------------------------------------------
(***************************************************************************)
(* The safety part of the refinement of MadSerialDisk.                     *)
(***************************************************************************)
\* A step that changes the abstract operation of p at most.
LEMMA ViewExcept ==
  ASSUME NEW p \in Callers, \A q \in Callers : q # p => OpView'[q] = OpView[q]
  PROVE  OpView' = [OpView EXCEPT ![p] = OpView'[p]]
<1>1. OpView = [q \in Callers |-> OpView[q]] /\ OpView' = [q \in Callers |-> OpView'[q]]
  BY DEF OpView
<1> DEFINE F == OpView
           G == OpView'
<1>2. F = [q \in Callers |-> F[q]] /\ G = [q \in Callers |-> G[q]]
      /\ \A q \in Callers : q # p => G[q] = F[q]
  BY <1>1
<1> HIDE DEF F, G
<1>3. G = [F EXCEPT ![p] = G[p]]
  BY <1>2
<1> QED
  BY <1>3 DEF F, G

\* An operation that stands still, goes on, or is not yet moved, is the same
\* abstract operation.
LEMMA OpFrame ==
  ASSUME NEW q \in Callers, pc'[q] = "idle" <=> pc[q] = "idle", req'[q] = req[q],
         (pc'[q] = "issued" /\ IsMoved(q)') <=> (pc[q] = "issued" /\ IsMoved(q))
  PROVE  OpView'[q] = OpView[q]
<1> DEFINE view(i, m, r) ==
      IF i THEN [state |-> "none", dir |-> "rd", sector |-> 0, len |-> 0]
      ELSE [state |-> IF m THEN "moved" ELSE "asked",
            dir |-> r.dir, sector |-> r.sector, len |-> r.len]
<1>1. OpView[q] = view(pc[q] = "idle", pc[q] = "issued" /\ IsMoved(q), req[q])
  BY DEF OpView
<1>2. OpView'[q] = view(pc'[q] = "idle", pc'[q] = "issued" /\ IsMoved(q)', req'[q])
  BY DEF OpView
<1> QED
  BY <1>1, <1>2

\* A step that leaves every abstract operation and all data alone is a stutter.
LEMMA DiskStutter ==
  ASSUME \A q \in Callers : OpView'[q] = OpView[q], UNCHANGED <<disk, bufr>>
  PROVE  UNCHANGED Disk!vars
<1>1. OpView' = OpView
  BY DEF OpView
<1> QED
  BY <1>1 DEF Disk!vars

\* Whatever p does with its own operation leaves those of the others alone.
LEMMA OthersStay ==
  ASSUME BInv, DiskInv, NEW p \in Callers, NEW q \in Callers, q # p,
         UNCHANGED <<pc[q], req[q], cmd[q]>>,
         \/ UNCHANGED <<ioctl_f, dev, dpcSched, dpc>>
         \/ cmd[p] # "none"
  PROVE  OpView'[q] = OpView[q]
<1>1. IsMoved(q)' <=> IsMoved(q)
  <2>1. CASE cmd[p] # "none"
    BY <2>1 DEF BInv, FlagIsExclusive, IsMoved, At
  <2>2. CASE UNCHANGED <<ioctl_f, dev, dpcSched, dpc>>
    BY <2>2 DEF IsMoved, At
  <2> QED
    BY <2>1, <2>2
<1> QED
  BY <1>1, OpFrame

\* Requests that wait, are turned away or get through, and calls that get
\* through, are still asked for.
LEMMA BlkMqStutters ==
  ASSUME BInv, DiskInv, NEW p \in Callers, BlkMqStep(p) \/ RunQueueIdle \/ CallTakes(p)
  PROVE  UNCHANGED Disk!vars
<1> USE DEF blkVars, drvVars, chainVars, devVars, dpcVars, dataVars
<1>1. UNCHANGED <<req, disk, bufr, ioctl_f, dev, dpcSched, dpc>>
  BY DEF BlkMqStep, RunQueueIdle, GetTag, WaitTag, QueueReqBusy, QueueReq, CallTakes
<1>2. /\ cmd \in [Callers -> {"none", "alloc", "map", "prog", "go", "release", "wait", "end",
                           "free", "raw"}]
      /\ pc \in [Callers -> {"idle", "tag", "tagwait", "ready", "held", "call", "issued"}]
      /\ \A c \in Callers : pc[c] # "issued" => cmd[c] \in {"none", "free"}
  BY DEF BInv, Types, TagFollowsRequest
<1>3. ASSUME NEW q \in Callers
      PROVE  OpView'[q] = OpView[q]
  <2>1. CASE q # p
    <3>1. pc'[q] = pc[q] /\ cmd'[q] = cmd[q]
      BY <1>2, <2>1 DEF BlkMqStep, RunQueueIdle, GetTag, WaitTag, QueueReqBusy, QueueReq,
                        CallTakes, Cmd
    <3> QED
      BY <1>1, <2>1, <3>1, OthersStay
  <2>2. CASE q = p
    <3>1. CASE RunQueueIdle
      BY <1>1, <3>1, OpFrame DEF RunQueueIdle, IsMoved, At
    <3>2. CASE GetTag(p) \/ WaitTag(p) \/ QueueReqBusy(p)
      <4>1. pc[p] \notin {"idle", "issued"} /\ pc'[p] \notin {"idle", "issued"}
        BY <1>2, <3>2 DEF GetTag, WaitTag, QueueReqBusy, Dispatch
      <4> QED
        BY <1>1, <2>2, <4>1, OpFrame
    <3>3. CASE QueueReq(p) \/ CallTakes(p)
      <4>1. pc[p] \notin {"idle", "issued"} /\ pc'[p] = "issued"
            /\ cmd'[p] \in {"alloc", "map", "raw"}
        BY <1>2, <3>3 DEF QueueReq, CallTakes, Dispatch, Cmd
      <4>2. ~IsMoved(p)'
        BY <4>1 DEF IsMoved, At
      <4> QED
        BY <1>1, <2>2, <4>1, <4>2, OpFrame
    <3> QED
      BY <3>1, <3>2, <3>3 DEF BlkMqStep
  <2> QED
    BY <2>1, <2>2
<1> QED
  BY <1>1, <1>3, DiskStutter

\* A thread asks for an operation.
LEMMA SubmitAsks ==
  ASSUME BInv, DiskInv, NEW p \in Callers, NEW r \in Request, Submit(p, r)
  PROVE  Disk!Next
<1> USE DEF blkVars, drvVars, chainVars, devVars, dpcVars, dataVars
<1>1. /\ UNCHANGED <<disk, bufr, cmd, ioctl_f, dev, dpcSched, dpc>>
      /\ pc[p] = "idle" /\ pc'[p] \in {"tag", "call"} /\ req'[p] = r
      /\ \A q \in Callers : q # p => pc'[q] = pc[q] /\ req'[q] = req[q]
  BY DEF Submit, BInv, Types
<1>2. OpView' = [OpView EXCEPT ![p] = OpView'[p]]
  BY <1>1, OthersStay, ViewExcept
<1>3. OpView[p] = Disk!NoOp
  BY <1>1 DEF OpView, Disk!NoOp
<1>4. OpView'[p] = [state |-> "asked", dir |-> r.dir, sector |-> r.sector, len |-> r.len]
  BY <1>1 DEF OpView
<1>5. r.dir \in {"rd", "wr"} /\ r.sector \in Sectors /\ r.len \in 1 .. MaxSegs
  BY DEF Request, Dir, Segs
<1>6. Disk!Ask(p, r.dir, r.sector, r.len)
  BY <1>1, <1>2, <1>3, <1>4 DEF Disk!Ask
<1> QED
  BY <1>5, <1>6 DEF Disk!Next

\* What the return of p's operation does to the abstract operations and to the
\* memory.
LEMMA ReturnView ==
  ASSUME BInv, DiskInv, NEW p \in Callers, Return(p), UNCHANGED disk,
         \A q \in Callers : q # p => cmd'[q] = cmd[q],
         \/ UNCHANGED <<ioctl_f, dev, dpcSched, dpc>>
         \/ cmd[p] # "none"
  PROVE  /\ OpView' = [OpView EXCEPT ![p] = Disk!NoOp]
         /\ bufr' = [bufr EXCEPT ![p] = Disk!NoData]
<1>1. /\ pc'[p] = "idle"
      /\ \A q \in Callers : q # p => pc'[q] = pc[q] /\ req'[q] = req[q]
  BY DEF Return, BInv, Types
<1>2. OpView' = [OpView EXCEPT ![p] = OpView'[p]]
  BY <1>1, OthersStay, ViewExcept
<1>3. OpView'[p] = Disk!NoOp
  BY <1>1 DEF OpView, Disk!NoOp
<1> QED
  BY <1>2, <1>3 DEF Return, NoData, Disk!NoData, Segs

\* An operation that returns before it has reached the device is refused.
LEMMA EarlyReturnRefuses ==
  ASSUME BInv, DiskInv, NEW p \in Callers,
         CallBusy(p) \/ RequestFails(p) \/ RawRefused(p) \/ (PageReturns(p) /\ At(p, "map"))
  PROVE  Disk!Next
<1> USE DEF blkVars, drvVars, chainVars, devVars, dpcVars, dataVars, At, Cmd
<1>1. /\ Return(p) /\ disk' = disk
      /\ UNCHANGED <<ioctl_f, dev, dpcSched, dpc>>
      /\ \A q \in Callers : q # p => cmd'[q] = cmd[q]
  BY DEF BInv, Types, CallBusy, RequestFails, RawRefused, PageReturns
<1>2. /\ OpView' = [OpView EXCEPT ![p] = Disk!NoOp]
      /\ bufr' = [bufr EXCEPT ![p] = Disk!NoData]
  BY <1>1, ReturnView
<1>3. cmd[p] \notin {"release", "wait", "end"} /\ pc[p] # "idle"
  BY DEF BInv, TagFollowsRequest, CallBusy, RequestFails, RawRefused, PageReturns
<1>4. ~IsMoved(p) /\ bufr[p] = Disk!NoData
  BY <1>3, NotMoved DEF NoData, Disk!NoData, Segs
<1>5. bufr' = bufr
  <2>1. bufr \in [Callers -> [Segs -> Writer]]
    BY DEF DiskInv, TypeOK
  <2> QED
    BY <1>2, <1>4, <2>1
<1>6. OpView[p].state = "asked"
  BY <1>3, <1>4 DEF OpView
<1>7. Disk!Refuse(p)
  BY <1>1, <1>2, <1>5, <1>6 DEF Disk!Refuse
<1> QED
  BY <1>7 DEF Disk!Next

\* An operation that ends after its wait is answered.
LEMMA EndAnswers ==
  ASSUME BInv, DiskInv, NEW p \in Callers, EndRequest(p) \/ (PageReturns(p) /\ At(p, "end"))
  PROVE  Disk!Next
<1> USE DEF blkVars, drvVars, chainVars, devVars, dpcVars, dataVars, At, Cmd
<1>1. /\ Return(p) /\ disk' = disk /\ cmd[p] = "end"
      /\ UNCHANGED <<ioctl_f, dev, dpcSched, dpc>>
      /\ \A q \in Callers : q # p => cmd'[q] = cmd[q]
  BY DEF BInv, Types, EndRequest, PageReturns
<1>2. /\ OpView' = [OpView EXCEPT ![p] = Disk!NoOp]
      /\ bufr' = [bufr EXCEPT ![p] = Disk!NoData]
  BY <1>1, ReturnView
<1>3. pc[p] = "issued"
  BY <1>1 DEF BInv, TagFollowsRequest
<1>4. OpView[p].state = "moved"
  BY <1>1, <1>3 DEF OpView, IsMoved
<1>5. Disk!Answer(p)
  BY <1>1, <1>2, <1>4 DEF Disk!Answer
<1> QED
  BY <1>5 DEF Disk!Next

\* The other steps of the driver move nothing and answer nobody.
LEMMA CmdStutters ==
  ASSUME BInv, DiskInv, NEW p \in Callers, CmdStep(p),
         ~RequestFails(p), ~RawRefused(p), ~PageReturns(p), ~EndRequest(p)
  PROVE  UNCHANGED Disk!vars
<1> USE DEF blkVars, drvVars, chainVars, devVars, dpcVars, dataVars, At, Cmd
<1>1. /\ UNCHANGED <<req, disk, bufr, dev, dpcSched, dpc>> /\ cmd[p] # "none"
      /\ \A q \in Callers : q # p => pc'[q] = pc[q] /\ cmd'[q] = cmd[q]
  BY DEF CmdStep, AllocFails, AllocCmd, SetPending, Program, SetGo, ReleaseDevlock, WaitEnd,
         FreeCmd, BInv, Types
<1>2. \A q \in Callers : q # p => OpView'[q] = OpView[q]
  BY <1>1, OthersStay
<1>3. OpView'[p] = OpView[p]
  <2>1. cmd \in [Callers -> {"none", "alloc", "map", "prog", "go", "release", "wait", "end",
                           "free", "raw"}]
    BY DEF BInv, Types
  <2>2. CASE AllocFails(p)
    <3>1. pc[p] = "issued" /\ pc'[p] = "held" /\ ~IsMoved(p)
      BY <2>2, NotMoved DEF AllocFails, BInv, Types, TagFollowsRequest
    <3> QED
      BY <1>1, <3>1, OpFrame
  <2>3. CASE AllocCmd(p) \/ SetPending(p) \/ Program(p) \/ FreeCmd(p)
    <3>1. /\ cmd[p] \notin {"release", "wait", "end"} /\ cmd'[p] \notin {"release", "wait", "end"}
          /\ pc' = pc
      BY <2>1, <2>3 DEF AllocCmd, SetPending, Program, FreeCmd
    <3>2. ~IsMoved(p) /\ ~IsMoved(p)'
      BY <3>1 DEF IsMoved
    <3> QED
      BY <1>1, <3>1, <3>2, OpFrame
  <2>4. CASE SetGo(p)
    <3>1. dev \in {"poll", "decode"} /\ dpcSched = FALSE /\ dpc = "idle" /\ ioctl_f = "eIoPending"
          /\ UNCHANGED <<pc, ioctl_f>> /\ cmd[p] = "go" /\ cmd'[p] \in {"wait", "release"}
      BY <2>1, <2>4 DEF BInv, CmdInv, Armed, AtRest, SetGo
    <3>2. ~IsMoved(p) /\ ~IsMoved(p)'
      BY <1>1, <3>1 DEF IsMoved
    <3> QED
      BY <1>1, <3>1, <3>2, OpFrame
  <2>5. CASE ReleaseDevlock(p) \/ WaitEnd(p)
    <3>1. (IsMoved(p)' <=> IsMoved(p)) /\ pc' = pc
      BY <1>1, <2>1, <2>5 DEF ReleaseDevlock, WaitEnd, IsMoved
    <3> QED
      BY <1>1, <3>1, OpFrame
  <2> QED
    BY <2>2, <2>3, <2>4, <2>5 DEF CmdStep
<1> QED
  BY <1>1, <1>2, <1>3, DiskStutter

\* The device thread but for its transfer, the ISR and the DPC move nothing.
LEMMA DevStutters ==
  ASSUME BInv, DiskInv, DevStep \/ DpcStep, ~DevTransfer
  PROVE  UNCHANGED Disk!vars
<1> USE DEF blkVars, drvVars, chainVars, devVars, dpcVars, dataVars
<1>1. UNCHANGED <<pc, req, cmd, disk, bufr>>
  BY DEF DevStep, DpcStep, DevPoll, DevNop, DevPickUp, DevIsr, DpcReset, DpcWake
<1>2. ASSUME NEW q \in Callers
      PROVE  IsMoved(q)' <=> IsMoved(q)
  <2>1. CASE DevPoll \/ DevNop \/ DevPickUp
    <3>1. UNCHANGED <<ioctl_f, dpcSched, dpc>> /\ dev # "isr" /\ dev' # "isr"
      BY <2>1 DEF DevPoll, DevNop, DevPickUp
    <3> QED
      BY <1>1, <3>1 DEF IsMoved, At
  <2>2. CASE DevIsr \/ DpcStep
    <3>1. PICK p \in Callers :
            /\ cmd[p] \in {"release", "wait"}
            /\ PickedUp(p) \/ Raised(p) \/ Scheduled(p) \/ Resetting(p)
            /\ \A c \in Callers : c # p => cmd[c] = "none"
      BY <2>2, TransferOfOne DEF DevIsr, DpcStep, DpcReset, DpcWake
    <3>2. CASE q # p
      BY <1>1, <3>1, <3>2 DEF IsMoved, At
    <3>3. CASE q = p
      <4>1. IsMoved(q)
        BY <2>2, <3>1, <3>3 DEF DevIsr, DpcStep, DpcReset, DpcWake, IsMoved
      <4> QED
        BY <2>2, <3>1, <3>3, <4>1, IsMovedStays
    <3> QED
      BY <3>2, <3>3
  <2> QED
    BY <2>1, <2>2 DEF DevStep
<1>3. \A q \in Callers : OpView'[q] = OpView[q]
  BY <1>1, <1>2, OpFrame
<1> QED
  BY <1>1, <1>3, DiskStutter

\* Marking an abstract operation as moved changes nothing else of it.
LEMMA MarkOp ==
  ASSUME NEW d, NEW s, NEW n
  PROVE  [[state |-> "asked", dir |-> d, sector |-> s, len |-> n] EXCEPT !.state = "moved"]
           = [state |-> "moved", dir |-> d, sector |-> s, len |-> n]
OBVIOUS

\* The transfer of an operation of one segment moves all of it, in one step, to
\* where it belongs, while nobody else's has moved and is not answered.
LEMMA TransferPerforms ==
  ASSUME BInv, DiskInv, OneSegmentOps, DevTransfer
  PROVE  Disk!Next
<1> USE DEF blkVars, drvVars, chainVars, devVars, dpcVars, dataVars
<1>1. PICK p \in Callers :
        /\ cmd[p] \in {"release", "wait"} /\ ioctl_f = "eIoPending" /\ PickedUp(p)
        /\ chain[1] = CdeFromSgle(p, req[p].len) /\ Walked = {1}
        /\ \A q \in Callers : q # p => cmd[q] = "none"
  BY TransferOfOne DEF DevTransfer
<1>2. /\ UNCHANGED <<pc, req, cmd>> /\ dev' = "isr" /\ pc[p] = "issued"
      /\ req[p] \in Request /\ req[p].len = 1 /\ req[p].sector \in Sectors
      /\ req[p].dir \in {"rd", "wr"} /\ req[p].sector \in Nat
  BY <1>1, SectorsAssumption DEF DevTransfer, BInv, Types, TagFollowsRequest, OneSegmentOps,
     Request, Dir
<1>3. ~IsMoved(p) /\ IsMoved(p)' /\ bufr[p] = NoData
  <2>1. ~IsMoved(p)
    BY <1>1 DEF IsMoved, At, PickedUp, AtRest
  <2> QED
    BY <1>1, <1>2, <2>1 DEF DiskInv, BufrInv, IsMoved
<1>4. \A q \in Callers : q # p => ~IsMoved(q)
  BY <1>1 DEF IsMoved, At
<1>5. OpView[p] = [state |-> "asked", dir |-> req[p].dir, sector |-> req[p].sector,
                   len |-> req[p].len]
  BY <1>2, <1>3 DEF OpView
<1>6. OpView'[p] = [state |-> "moved", dir |-> req[p].dir, sector |-> req[p].sector,
                    len |-> req[p].len]
  BY <1>2, <1>3 DEF OpView
<1>7. \A q \in Callers : OpView[q].state # "moved"
  BY <1>3, <1>4 DEF OpView
<1>8. OpView' = [OpView EXCEPT ![p].state = "moved"]
  <2>1. OpView' = [OpView EXCEPT ![p] = OpView'[p]]
    BY <1>1, <1>2, OthersStay, ViewExcept
  <2>2. OpView'[p] = [OpView[p] EXCEPT !.state = "moved"]
    BY <1>5, <1>6, MarkOp
  <2> QED
    BY <2>1, <2>2
<1>9. /\ chain[1].host = p /\ chain[1].seg = 1 /\ chain[1].ofst = req[p].sector
      /\ chain[1].h2d = (req[p].dir = "wr")
  BY <1>1, <1>2 DEF CdeFromSgle
<1>10. \A s : s \in req[p].sector .. req[p].sector + req[p].len - 1 <=> s = req[p].sector
  BY <1>2
<1>11. CASE req[p].dir = "wr"
  <2>1. \A q \in Callers, k \in Segs : Moved(q, k, FALSE) = {}
    BY <1>1, <1>9, <1>11 DEF Moved
  <2>2. bufr' = bufr
    BY <2>1 DEF DevTransfer, DiskInv, TypeOK
  <2>3. disk' = [s \in Sectors |-> IF s = req[p].sector THEN p ELSE disk[s]]
    <3> DEFINE hit(s) == CHOOSE i \in Walked : chain[i].h2d /\ chain[i].ofst = s
    <3>1. \A s \in Sectors :
            (\E i \in Walked : chain[i].h2d /\ chain[i].ofst = s) <=> s = req[p].sector
      BY <1>1, <1>9, <1>11
    <3>2. chain[hit(req[p].sector)].host = p
      <4>1. hit(req[p].sector) \in Walked
        BY <1>2, <3>1
      <4> HIDE DEF hit
      <4> QED
        BY <1>1, <1>9, <4>1
    <3>3. disk' = [s \in Sectors |-> IF \E i \in Walked : chain[i].h2d /\ chain[i].ofst = s
                                     THEN chain[hit(s)].host ELSE disk[s]]
      BY DEF DevTransfer
    <3> HIDE DEF hit
    <3> QED
      BY <3>1, <3>2, <3>3
  <2>4. disk' = [s \in Sectors |->
                  IF s \in req[p].sector .. req[p].sector + req[p].len - 1 THEN p ELSE disk[s]]
    BY <1>10, <2>3
  <2>5. Disk!Perform(p)
    BY <1>5, <1>7, <1>8, <1>11, <2>2, <2>4 DEF Disk!Perform
  <2> QED
    BY <2>5 DEF Disk!Next
<1>12. CASE req[p].dir = "rd"
  <2>1. disk' = disk
    BY <1>1, <1>9, <1>12 DEF DevTransfer, DiskInv, TypeOK
  <2>2. \A q \in Callers : q # p => bufr'[q] = bufr[q]
    BY <1>1, OthersBufrStays, NotMoved
  <2>3. bufr'[p] = [i \in 1 .. MaxSegs |->
                     IF i <= req[p].len THEN disk[req[p].sector + i - 1] ELSE NoCaller]
    <3> DEFINE hit(k) == CHOOSE i \in Moved(p, k, FALSE) : TRUE
    <3>1. Moved(p, 1, FALSE) = {1} /\ \A k \in Segs : k # 1 => Moved(p, k, FALSE) = {}
      BY <1>1, <1>9, <1>12 DEF Moved
    <3>2. hit(1) = 1
      BY <3>1
    <3>3. bufr'[p] = [k \in Segs |-> IF Moved(p, k, FALSE) = {} THEN bufr[p][k]
                                     ELSE disk[chain[hit(k)].ofst]]
      BY DEF DevTransfer
    <3> HIDE DEF hit
    <3>4. bufr'[p] = [k \in Segs |-> IF k = 1 THEN disk[req[p].sector] ELSE NoCaller]
      <4>1. ASSUME NEW k \in Segs
            PROVE  (IF Moved(p, k, FALSE) = {} THEN bufr[p][k] ELSE disk[chain[hit(k)].ofst])
                     = (IF k = 1 THEN disk[req[p].sector] ELSE NoCaller)
        <5>1. CASE k = 1
          BY <1>9, <3>1, <3>2, <5>1
        <5>2. CASE k # 1
          BY <1>3, <3>1, <5>2 DEF NoData
        <5> QED
          BY <5>1, <5>2
      <4> HIDE DEF Moved
      <4> QED
        BY <3>3, <4>1
    <3>5. \A k \in Segs : /\ k <= req[p].len <=> k = 1
                          /\ req[p].sector + 1 - 1 = req[p].sector
      BY <1>2, MaxSegsAssumption DEF Segs
    <3> QED
      BY <3>4, <3>5 DEF Segs
  <2>4. bufr' = [bufr EXCEPT ![p] = [i \in 1 .. MaxSegs |->
                  IF i <= req[p].len THEN disk[req[p].sector + i - 1] ELSE NoCaller]]
    <3>1. bufr \in [Callers -> [Segs -> Writer]]
      BY DEF DiskInv, TypeOK
    <3>2. bufr' = [q \in Callers |-> bufr'[q]]
      BY DEF DevTransfer
    <3> QED
      BY <2>2, <2>3, <3>1, <3>2
  <2>5. Disk!Perform(p)
    BY <1>5, <1>7, <1>8, <1>12, <2>1, <2>4 DEF Disk!Perform
  <2> QED
    BY <2>5 DEF Disk!Next
<1> QED
  BY <1>2, <1>11, <1>12

\* Every step of the driver and the device is a step or a stutter of the disk.
LEMMA DiskStep ==
  ASSUME BInv, DiskInv, OneSegmentOps, [Next]_vars
  PROVE  [Disk!Next]_(Disk!vars)
<1>1. CASE UNCHANGED vars
  BY <1>1 DEF vars, blkVars, drvVars, chainVars, devVars, dpcVars, dataVars, OpView, IsMoved, At,
              Disk!vars
<1>2. ASSUME NEW p \in Callers, BlkMqStep(p) \/ CallStep(p) \/ (\E r \in Request : Submit(p, r))
      PROVE  [Disk!Next]_(Disk!vars)
  BY <1>2, BlkMqStutters, EarlyReturnRefuses, SubmitAsks DEF CallStep
<1>3. ASSUME NEW p \in Callers, CmdStep(p)
      PROVE  [Disk!Next]_(Disk!vars)
  <2>1. PageReturns(p) => At(p, "map") \/ At(p, "end")
    BY DEF PageReturns
  <2> QED
    BY <1>3, <2>1, CmdStutters, EarlyReturnRefuses, EndAnswers
<1>4. CASE DevStep \/ DpcStep
  BY <1>4, DevStutters, TransferPerforms
<1>5. CASE RunQueueIdle
  BY <1>5 DEF RunQueueIdle, drvVars, chainVars, devVars, dpcVars, dataVars, OpView, IsMoved, At,
              Disk!vars
<1> QED
  BY <1>1, <1>2, <1>3, <1>4, <1>5 DEF Next

\* At first the disk is empty and nobody has asked for anything.
LEMMA DiskInit == Init => Disk!Init
BY DEF Init, OpView, Disk!Init, Disk!NoOp, Disk!NoData, NoData, Segs

\* As long as no operation is longer than a segment, the driver and the device,
\* with their tag, flag, locks, chain, registers and interrupts, are a disk that
\* refuses an operation or carries it out in one step, one after the other
\* (maddevb_queue_req, maddevb_rw_page, mbdevthread.c): the safety part of
\* SerialDisk.  A longer one loses all segments but the last
\* (OnlyTheLastSegmentMoves).
THEOREM OneOperationAtATime ==
  Spec /\ []OneSegmentOps => Disk!Init /\ [][Disk!Next]_(Disk!vars)
<1>1. BInv /\ DiskInv /\ OneSegmentOps /\ [Next]_vars => [Disk!Next]_(Disk!vars)
  BY DiskStep
<1> QED
  BY <1>1, DiskInit, BlockInvariance, DiskInvariance, PTL DEF Spec
-----------------------------------------------------------------------------
\* Pages and raw calls are one segment long.
LEMMA PagesAreOneSegment ==
  ASSUME Kinds \subseteq {"page", "raw"}
  PROVE  Spec => []OneSegmentOps
<1> DEFINE NoRequests == \A p \in Callers : req[p].kind # "rq"
<1> USE DEF blkVars, drvVars, chainVars, devVars, dpcVars, dataVars
<1>1. Init => NoRequests
  BY DEF Init, NoRequest
<1>2. BInv /\ NoRequests /\ [Next]_vars => NoRequests'
  <2> SUFFICES ASSUME BInv, NoRequests, [Next]_vars
               PROVE  NoRequests'
    OBVIOUS
  <2>1. req \in [Callers -> Request]
    BY DEF BInv, Types
  <2>2. CASE UNCHANGED req
    BY <2>2
  <2>3. ASSUME NEW p \in Callers, Return(p)
        PROVE  NoRequests'
    BY <2>1, <2>3 DEF Return, NoRequest
  <2>4. ASSUME NEW p \in Callers, NEW r \in Request, Submit(p, r)
        PROVE  NoRequests'
    BY <2>1, <2>4 DEF Submit
  <2>5. ASSUME NEW p \in Callers, BlkMqStep(p) \/ CmdStep(p) \/ CallStep(p)
        PROVE  UNCHANGED req \/ Return(p)
    BY <2>5 DEF BlkMqStep, CmdStep, CallStep, GetTag, WaitTag, QueueReqBusy, QueueReq, AllocFails,
       AllocCmd, RequestFails, SetPending, Program, SetGo, ReleaseDevlock, WaitEnd, EndRequest,
       FreeCmd, RawRefused, PageReturns, CallBusy, CallTakes
  <2>6. CASE RunQueueIdle \/ DevStep \/ DpcStep \/ UNCHANGED vars
    BY <2>2, <2>6 DEF RunQueueIdle, DevStep, DpcStep, DevPoll, DevNop, DevPickUp, DevTransfer,
       DevIsr, DpcReset, DpcWake, vars
  <2> QED
    BY <2>2, <2>3, <2>4, <2>5, <2>6 DEF Next
<1>3. BInv /\ NoRequests => OneSegmentOps
  BY DEF BInv, Types, Request, OneSegmentOps
<1> QED
  BY <1>1, <1>2, <1>3, BlockInvariance, PTL DEF Spec

\* Nor are requests, when the largest is one segment.
LEMMA ShortRequestsAreOneSegment ==
  ASSUME MaxSegs = 1
  PROVE  Spec => []OneSegmentOps
<1>1. BInv => OneSegmentOps
  BY SMTT(20) DEF BInv, Types, Request, Segs, OneSegmentOps
<1> QED
  BY <1>1, BlockInvariance, PTL

\* Without hypothesis on the operations: the page path (maddevb_rw_page), and
\* every path when the largest request is one segment, keep to the promise of
\* the disk, and the size that ends an operation is right (maddrvrdefs.c:1061).
THEOREM ShortOperationsAreADisk ==
  ASSUME Kinds \subseteq {"page", "raw"} \/ MaxSegs = 1
  PROVE  Spec => /\ Disk!Init /\ [][Disk!Next]_(Disk!vars)
                 /\ []EndSizeMatches
<1>1. Spec => []OneSegmentOps
  BY PagesAreOneSegment, ShortRequestsAreOneSegment
<1> QED
  BY <1>1, OneOperationAtATime, OneSegmentSizeMatches, PTL
=============================================================================
