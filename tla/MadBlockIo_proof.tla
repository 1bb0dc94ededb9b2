-------------------------- MODULE MadBlockIo_proof --------------------------
(***************************************************************************)
(* For any threads, kinds of operations, sectors, segments and tag width:  *)
(* Spec => []BInv, and with it that the busy flag excludes the paths from  *)
(* one another, that every request is ended once, that the device's tag is *)
(* in step, that its work is waited for, and that nobody disturbs it.      *)
(*                                                                         *)
(* There is one lemma for each action, with one step for each part of      *)
(* BInv.  An action of a thread without a command leaves the stage of the  *)
(* command under way alone (CmdFrame); an action of the device thread or   *)
(* the DPC finds the one command in the stage before and leaves it in the  *)
(* next.                                                                   *)
(***************************************************************************)
EXTENDS MadBlockIoInv, TLAPS

\* Registers as the bus driver leaves them, with the bits and the tag that the
\* device thread has read, are a register file.
LEMMA SeenType ==
  ASSUME NEW r \in Registers
  PROVE  [RegistersAtReset EXCEPT !.IntID = r.IntID, !.IoTag = r.IoTag] \in Registers
BY TagMaxAssumption DEF RegistersAtReset, Registers, Count

\* The registers at reset are a register file.
LEMMA ResetType == RegistersAtReset \in Registers
BY TagMaxAssumption DEF RegistersAtReset, Registers, Count

\* Programming an i/o and resetting the registers leave a register file.
LEMMA ProgramIoRegsType ==
  ASSUME NEW r \in Registers, NEW d \in Dir
  PROVE  ProgramIoRegs(r, {"CHAINED_DMA"}, {}, {IntBit[d], "STATUS_ALERT"},
        NoCaller) \in Registers
BY DEF ProgramIoRegs, Registers, Count, ControlBits, AllValidMask, InputMask, OutputMask,
      IntBit, Dir

LEMMA ResetIoRegistersType ==
  ASSUME NEW r \in Registers
  PROVE  /\ ResetIoRegisters(r) \in Registers
         /\ ResetIoRegisters(r).Control = {} /\ ResetIoRegisters(r).IntEnable = {}
         /\ ResetIoRegisters(r).IntID = {} /\ ResetIoRegisters(r).IoTag = NextTag(r.IoTag)
<1>1. NextTag(r.IoTag) \in 0 .. TagMax
  BY TagMaxAssumption DEF Registers, NextTag
<1> QED
  BY <1>1 DEF ResetIoRegisters, Registers, Count

\* An idle thread still has a request in its type.
LEMMA NoRequestType == NoRequest \in Request
BY SectorsAssumption, MaxSegsAssumption DEF NoRequest, Request, Dir, Segs

\* The device side, and a command that stands still, keep what the stage of the
\* command says.
LEMMA CmdFrame ==
  ASSUME NEW q \in Callers, CmdInv(q),
         UNCHANGED <<ioctl_f, devlock, regs, IntRegState, devVars, dpcVars>>,
         cmd'[q] = cmd[q], req'[q] = req[q] \/ cmd[q] \in {"none", "free"}
  PROVE  CmdInv(q)'
BY DEF CmdInv, Quiet, AtRest, ProgrammedFor, Armed, PickedUp, Raised, Scheduled, Resetting,
       devVars, dpcVars, Rq


\* BInv is kept when a thread gets the tag.
LEMMA GetTagKeeps ==
  ASSUME BInv, NEW p \in Callers, GetTag(p)
  PROVE  BInv'
<1> USE NoCallerAssumption DEF BInv, RestInv, Types, vars, blkVars, drvVars, chainVars, devVars,
      dpcVars, dataVars, At, Cmd, Return, Rq
<1>1. Types'
  BY DEF GetTag, Writer
<1>2. FlagIsExclusive'
  BY SMTT(12) DEF GetTag, FlagIsExclusive
<1>3. TagFollowsRequest'
  BY SMTT(12) DEF GetTag, TagFollowsRequest, FlagIsExclusive, PathInv, Dispatch, NoRequest
<1>4. \A q \in Callers : PathInv(q)'
  BY SMTT(12) DEF GetTag, PathInv, Dispatch, NoRequest, TagFollowsRequest
<1>5. RestInv'
  BY SMTT(12) DEF GetTag, FlagIsExclusive, CmdInv, Quiet, AtRest, ProgrammedFor, Armed,
        PickedUp, Raised, Scheduled, Resetting, IntBit, NoRequest
<1>6. \A q \in Callers : CmdInv(q)'
  <2> SUFFICES ASSUME NEW q \in Callers
               PROVE  CmdInv(q)'
    OBVIOUS
  <2>1. UNCHANGED <<ioctl_f, devlock, regs, IntRegState, devVars, dpcVars>> /\ cmd'[q] = cmd[q]
    BY DEF GetTag
  <2>2. req'[q] = req[q] \/ cmd[q] \in {"none", "free"}
    BY DEF GetTag, TagFollowsRequest
  <2> QED
    BY <2>1, <2>2, CmdFrame
<1> QED
  BY <1>1, <1>2, <1>3, <1>4, <1>5, <1>6

\* BInv is kept when a thread goes to sleep for the tag.
LEMMA WaitTagKeeps ==
  ASSUME BInv, NEW p \in Callers, WaitTag(p)
  PROVE  BInv'
<1> USE NoCallerAssumption DEF BInv, RestInv, Types, vars, blkVars, drvVars, chainVars, devVars,
      dpcVars, dataVars, At, Cmd, Return, Rq
<1>1. Types'
  BY SMTT(12) DEF WaitTag
<1>2. FlagIsExclusive'
  BY SMTT(12) DEF WaitTag, FlagIsExclusive
<1>3. TagFollowsRequest'
  BY SMTT(12) DEF WaitTag, TagFollowsRequest, FlagIsExclusive, PathInv, Dispatch, NoRequest
<1>4. \A q \in Callers : PathInv(q)'
  BY SMTT(12) DEF WaitTag, PathInv, Dispatch, NoRequest, TagFollowsRequest
<1>5. RestInv'
  BY SMTT(12) DEF WaitTag, FlagIsExclusive, CmdInv, Quiet, AtRest, ProgrammedFor, Armed,
        PickedUp, Raised, Scheduled, Resetting, IntBit, NoRequest
<1>6. \A q \in Callers : CmdInv(q)'
  <2> SUFFICES ASSUME NEW q \in Callers
               PROVE  CmdInv(q)'
    OBVIOUS
  <2>1. UNCHANGED <<ioctl_f, devlock, regs, IntRegState, devVars, dpcVars>> /\ cmd'[q] = cmd[q]
    BY DEF WaitTag
  <2>2. req'[q] = req[q] \/ cmd[q] \in {"none", "free"}
    BY DEF WaitTag, TagFollowsRequest
  <2> QED
    BY <2>1, <2>2, CmdFrame
<1> QED
  BY <1>1, <1>2, <1>3, <1>4, <1>5, <1>6

\* BInv is kept when a request is turned away.
LEMMA QueueReqBusyKeeps ==
  ASSUME BInv, NEW p \in Callers, QueueReqBusy(p)
  PROVE  BInv'
<1> USE NoCallerAssumption DEF BInv, RestInv, Types, vars, blkVars, drvVars, chainVars, devVars,
      dpcVars, dataVars, At, Cmd, Return, Rq
<1>1. Types'
  BY SMTT(12) DEF QueueReqBusy
<1>2. FlagIsExclusive'
  BY SMTT(12) DEF QueueReqBusy, FlagIsExclusive
<1>3. TagFollowsRequest'
  BY SMTT(12) DEF QueueReqBusy, TagFollowsRequest, FlagIsExclusive, PathInv, Dispatch, NoRequest
<1>4. \A q \in Callers : PathInv(q)'
  BY SMTT(12) DEF QueueReqBusy, PathInv, Dispatch, NoRequest, TagFollowsRequest
<1>5. RestInv'
  BY SMTT(12) DEF QueueReqBusy, FlagIsExclusive, CmdInv, Quiet, AtRest, ProgrammedFor, Armed,
        PickedUp, Raised, Scheduled, Resetting, IntBit, NoRequest
<1>6. \A q \in Callers : CmdInv(q)'
  <2> SUFFICES ASSUME NEW q \in Callers
               PROVE  CmdInv(q)'
    OBVIOUS
  <2>1. UNCHANGED <<ioctl_f, devlock, regs, IntRegState, devVars, dpcVars>> /\ cmd'[q] = cmd[q]
    BY DEF QueueReqBusy
  <2>2. req'[q] = req[q] \/ cmd[q] \in {"none", "free"}
    BY DEF QueueReqBusy, TagFollowsRequest
  <2> QED
    BY <2>1, <2>2, CmdFrame
<1> QED
  BY <1>1, <1>2, <1>3, <1>4, <1>5, <1>6

\* BInv is kept when a request takes the flag.
LEMMA QueueReqKeeps ==
  ASSUME BInv, NEW p \in Callers, QueueReq(p)
  PROVE  BInv'
<1> USE NoCallerAssumption DEF BInv, RestInv, Types, vars, blkVars, drvVars, chainVars, devVars,
      dpcVars, dataVars, At, Cmd, Return, Rq
<1>1. Types'
  BY SMTT(12) DEF QueueReq
<1>2. FlagIsExclusive'
  BY SMTT(12) DEF QueueReq, FlagIsExclusive
<1>3. TagFollowsRequest'
  BY SMTT(12) DEF QueueReq, TagFollowsRequest, FlagIsExclusive, PathInv, Dispatch, NoRequest
<1>4. \A q \in Callers : PathInv(q)'
  BY SMTT(12) DEF QueueReq, PathInv, Dispatch, NoRequest, TagFollowsRequest
<1>5. RestInv'
  BY SMTT(12) DEF QueueReq, FlagIsExclusive, CmdInv, Quiet, AtRest, ProgrammedFor, Armed,
        PickedUp, Raised, Scheduled, Resetting, IntBit, NoRequest
<1>6. \A q \in Callers : CmdInv(q)'
  BY SMTT(12) DEF QueueReq, FlagIsExclusive, TagFollowsRequest, PathInv, CmdInv, Quiet, AtRest,
        ProgrammedFor, Armed, PickedUp, Raised, Scheduled, Resetting, IntBit, NoRequest
<1> QED
  BY <1>1, <1>2, <1>3, <1>4, <1>5, <1>6

\* BInv is kept when the command of a request cannot be allocated.
LEMMA AllocFailsKeeps ==
  ASSUME BInv, NEW p \in Callers, AllocFails(p)
  PROVE  BInv'
<1> USE NoCallerAssumption DEF BInv, RestInv, Types, vars, blkVars, drvVars, chainVars, devVars,
      dpcVars, dataVars, At, Cmd, Return, Rq
<1>1. Types'
  <2>1. batomic' = FALSE
    BY DEF AllocFails
  <2>2. UNCHANGED <<regs, seen, IntRegState,
        iotype>> /\ req' \in [Callers -> Request] /\ tag' \in Writer
    BY NoRequestType DEF AllocFails, Writer
  <2>3. pc' \in [Callers -> {"idle", "tag", "tagwait", "ready", "held", "call", "issued"}]
    BY DEF AllocFails
  <2>4. cmd' \in [Callers -> {"none", "alloc", "map", "prog", "go", "release", "wait", "end",
                            "free", "raw"}]
    BY DEF AllocFails
  <2> QED
    BY <2>1, <2>2, <2>3, <2>4
<1>2. FlagIsExclusive'
  BY SMTT(12) DEF AllocFails, FlagIsExclusive
<1>3. TagFollowsRequest'
  BY SMTT(12) DEF AllocFails, TagFollowsRequest, FlagIsExclusive, PathInv, Dispatch, NoRequest
<1>4. \A q \in Callers : PathInv(q)'
  BY SMTT(12) DEF AllocFails, PathInv, Dispatch, NoRequest, TagFollowsRequest
<1>5. RestInv'
  BY SMTT(12) DEF AllocFails, FlagIsExclusive, CmdInv, Quiet, AtRest, ProgrammedFor, Armed,
        PickedUp, Raised, Scheduled, Resetting, IntBit, NoRequest
<1>6. \A q \in Callers : CmdInv(q)'
  BY SMTT(12) DEF AllocFails, FlagIsExclusive, TagFollowsRequest, PathInv, CmdInv, Quiet,
        AtRest, ProgrammedFor, Armed, PickedUp, Raised, Scheduled, Resetting, IntBit, NoRequest
<1> QED
  BY <1>1, <1>2, <1>3, <1>4, <1>5, <1>6

\* BInv is kept when the command of a request is allocated.
LEMMA AllocCmdKeeps ==
  ASSUME BInv, NEW p \in Callers, AllocCmd(p)
  PROVE  BInv'
<1> USE NoCallerAssumption DEF BInv, RestInv, Types, vars, blkVars, drvVars, chainVars, devVars,
      dpcVars, dataVars, At, Cmd, Return, Rq
<1>1. Types'
  BY SMTT(12) DEF AllocCmd
<1>2. FlagIsExclusive'
  BY SMTT(12) DEF AllocCmd, FlagIsExclusive
<1>3. TagFollowsRequest'
  BY SMTT(12) DEF AllocCmd, TagFollowsRequest, FlagIsExclusive, PathInv, Dispatch, NoRequest
<1>4. \A q \in Callers : PathInv(q)'
  BY SMTT(12) DEF AllocCmd, PathInv, Dispatch, NoRequest, TagFollowsRequest
<1>5. RestInv'
  BY SMTT(12) DEF AllocCmd, FlagIsExclusive, CmdInv, Quiet, AtRest, ProgrammedFor, Armed,
        PickedUp, Raised, Scheduled, Resetting, IntBit, NoRequest
<1>6. \A q \in Callers : CmdInv(q)'
  BY SMTT(12) DEF AllocCmd, FlagIsExclusive, TagFollowsRequest, PathInv, CmdInv, Quiet, AtRest,
        ProgrammedFor, Armed, PickedUp, Raised, Scheduled, Resetting, IntBit, NoRequest
<1> QED
  BY <1>1, <1>2, <1>3, <1>4, <1>5, <1>6

\* BInv is kept when a request fails before it reaches the device.
LEMMA RequestFailsKeeps ==
  ASSUME BInv, NEW p \in Callers, RequestFails(p)
  PROVE  BInv'
<1> USE NoCallerAssumption DEF BInv, RestInv, Types, vars, blkVars, drvVars, chainVars, devVars,
      dpcVars, dataVars, At, Cmd, Return, Rq
<1>1. Types'
  BY NoRequestType DEF RequestFails, Writer
<1>2. FlagIsExclusive'
  BY SMTT(12) DEF RequestFails, FlagIsExclusive
<1>3. TagFollowsRequest'
  BY SMTT(12) DEF RequestFails, TagFollowsRequest, FlagIsExclusive, PathInv, Dispatch, NoRequest
<1>4. \A q \in Callers : PathInv(q)'
  BY SMTT(12) DEF RequestFails, PathInv, Dispatch, NoRequest, TagFollowsRequest
<1>5. RestInv'
  BY SMTT(12) DEF RequestFails, FlagIsExclusive, CmdInv, Quiet, AtRest, ProgrammedFor, Armed,
        PickedUp, Raised, Scheduled, Resetting, IntBit, NoRequest
<1>6. \A q \in Callers : CmdInv(q)'
  BY SMTT(12) DEF RequestFails, FlagIsExclusive, TagFollowsRequest, PathInv, CmdInv, Quiet,
        AtRest, ProgrammedFor, Armed, PickedUp, Raised, Scheduled, Resetting, IntBit, NoRequest
<1> QED
  BY <1>1, <1>2, <1>3, <1>4, <1>5, <1>6

\* BInv is kept when the queue is set pending.
LEMMA SetPendingKeeps ==
  ASSUME BInv, NEW p \in Callers, SetPending(p)
  PROVE  BInv'
<1> USE NoCallerAssumption DEF BInv, RestInv, Types, vars, blkVars, drvVars, chainVars, devVars,
      dpcVars, dataVars, At, Cmd, Return, Rq
<1>1. Types'
  BY SMTT(12) DEF SetPending
<1>2. FlagIsExclusive'
  BY SMTT(12) DEF SetPending, FlagIsExclusive
<1>3. TagFollowsRequest'
  BY SMTT(12) DEF SetPending, TagFollowsRequest, FlagIsExclusive, PathInv, Dispatch, NoRequest
<1>4. \A q \in Callers : PathInv(q)'
  BY SMTT(12) DEF SetPending, PathInv, Dispatch, NoRequest, TagFollowsRequest
<1>5. RestInv'
  BY SMTT(12) DEF SetPending, FlagIsExclusive, CmdInv, Quiet, AtRest, ProgrammedFor, Armed,
        PickedUp, Raised, Scheduled, Resetting, IntBit, NoRequest
<1>6. \A q \in Callers : CmdInv(q)'
  BY SMTT(12) DEF SetPending, FlagIsExclusive, TagFollowsRequest, PathInv, CmdInv, Quiet,
        AtRest, ProgrammedFor, Armed, PickedUp, Raised, Scheduled, Resetting, IntBit, NoRequest
<1> QED
  BY <1>1, <1>2, <1>3, <1>4, <1>5, <1>6

\* BInv is kept when the registers and the chain are programmed.
LEMMA ProgramKeeps ==
  ASSUME BInv, NEW p \in Callers, Program(p)
  PROVE  BInv'
<1> USE NoCallerAssumption DEF BInv, RestInv, Types, vars, blkVars, drvVars, chainVars, devVars,
      dpcVars, dataVars, At, Cmd, Return, Rq
<1>1. Types'
  <2>1. regs' \in Registers /\ seen' \in Registers /\ IntRegState' \in Registers
    BY ProgramIoRegsType DEF Program, Request
  <2> QED
    BY <2>1 DEF Program
<1>2. FlagIsExclusive'
  BY SMTT(12) DEF Program, FlagIsExclusive
<1>3. TagFollowsRequest'
  BY SMTT(12) DEF Program, TagFollowsRequest, FlagIsExclusive, PathInv, Dispatch, NoRequest
<1>4. \A q \in Callers : PathInv(q)'
  BY SMTT(12) DEF Program, PathInv, Dispatch, NoRequest, TagFollowsRequest
<1>5. RestInv'
  BY SMTT(12) DEF Program, FlagIsExclusive, CmdInv, Quiet, AtRest, ProgrammedFor, Armed,
        PickedUp, Raised, Scheduled, Resetting, IntBit, NoRequest
<1>6. \A q \in Callers : CmdInv(q)'
  <2> SUFFICES ASSUME NEW q \in Callers, cmd'[q] # "none"
               PROVE  CmdInv(q)'
    BY DEF CmdInv
  <2>1. q = p /\ cmd'[p] = "go"
    BY DEF Program, FlagIsExclusive
  <2>2. /\ regs'.IntEnable = {IntBit[req[p].dir], "STATUS_ALERT"}
        /\ regs'.Control = {"CHAINED_DMA"}
        /\ regs'.IntID = {} /\ regs'.IoTag = regs.IoTag
    BY DEF Program, ProgramIoRegs, Registers
  <2>3. Quiet /\ ioctl_f = "eIoPending"
    BY DEF Program, CmdInv
  <2>4. Armed(p)'
    BY <2>2, <2>3 DEF Program, Armed, Quiet, AtRest, ProgrammedFor
  <2> QED
    BY <2>1, <2>2, <2>3, <2>4 DEF Program, CmdInv
<1> QED
  BY <1>1, <1>2, <1>3, <1>4, <1>5, <1>6

\* BInv is kept when the go bit is set.
LEMMA SetGoKeeps ==
  ASSUME BInv, NEW p \in Callers, SetGo(p)
  PROVE  BInv'
<1> USE NoCallerAssumption DEF BInv, RestInv, Types, vars, blkVars, drvVars, chainVars, devVars,
      dpcVars, dataVars, At, Cmd, Return, Rq
<1>1. Types'
  <2>1. regs' \in Registers /\ seen' \in Registers /\ IntRegState' \in Registers
    BY DEF SetGo, Registers, ControlBits, GoBits
  <2> QED
    BY <2>1 DEF SetGo
<1>2. FlagIsExclusive'
  BY SMTT(12) DEF SetGo, FlagIsExclusive
<1>3. TagFollowsRequest'
  BY SMTT(12) DEF SetGo, TagFollowsRequest, FlagIsExclusive, PathInv, Dispatch, NoRequest
<1>4. \A q \in Callers : PathInv(q)'
  BY SMTT(12) DEF SetGo, PathInv, Dispatch, NoRequest, TagFollowsRequest
<1>5. RestInv'
  BY SMTT(12) DEF SetGo, FlagIsExclusive, CmdInv, Quiet, AtRest, ProgrammedFor, Armed,
        PickedUp, Raised, Scheduled, Resetting, IntBit, NoRequest
<1>6. \A q \in Callers : CmdInv(q)'
  BY SMTT(12) DEF SetGo, FlagIsExclusive, TagFollowsRequest, PathInv, CmdInv, Quiet, AtRest,
        ProgrammedFor, Armed, PickedUp, Raised, Scheduled, Resetting, IntBit, NoRequest
<1> QED
  BY <1>1, <1>2, <1>3, <1>4, <1>5, <1>6

\* BInv is kept when the page path releases the lock.
LEMMA ReleaseDevlockKeeps ==
  ASSUME BInv, NEW p \in Callers, ReleaseDevlock(p)
  PROVE  BInv'
<1> USE NoCallerAssumption DEF BInv, RestInv, Types, vars, blkVars, drvVars, chainVars, devVars,
      dpcVars, dataVars, At, Cmd, Return, Rq
<1>1. Types'
  BY SMTT(12) DEF ReleaseDevlock
<1>2. FlagIsExclusive'
  BY SMTT(12) DEF ReleaseDevlock, FlagIsExclusive
<1>3. TagFollowsRequest'
  BY SMTT(12) DEF ReleaseDevlock, TagFollowsRequest, FlagIsExclusive, PathInv, Dispatch, NoRequest
<1>4. \A q \in Callers : PathInv(q)'
  BY SMTT(12) DEF ReleaseDevlock, PathInv, Dispatch, NoRequest, TagFollowsRequest
<1>5. RestInv'
  BY SMTT(12) DEF ReleaseDevlock, FlagIsExclusive, CmdInv, Quiet, AtRest, ProgrammedFor, Armed,
        PickedUp, Raised, Scheduled, Resetting, IntBit, NoRequest
<1>6. \A q \in Callers : CmdInv(q)'
  BY SMTT(12) DEF ReleaseDevlock, FlagIsExclusive, TagFollowsRequest, PathInv, CmdInv, Quiet,
        AtRest, ProgrammedFor, Armed, PickedUp, Raised, Scheduled, Resetting, IntBit, NoRequest
<1> QED
  BY <1>1, <1>2, <1>3, <1>4, <1>5, <1>6

\* BInv is kept when the wait for the device ends.
LEMMA WaitEndKeeps ==
  ASSUME BInv, NEW p \in Callers, WaitEnd(p)
  PROVE  BInv'
<1> USE NoCallerAssumption DEF BInv, RestInv, Types, vars, blkVars, drvVars, chainVars, devVars,
      dpcVars, dataVars, At, Cmd, Return, Rq
<1>1. Types'
  BY SMTT(12) DEF WaitEnd
<1>2. FlagIsExclusive'
  BY SMTT(12) DEF WaitEnd, FlagIsExclusive
<1>3. TagFollowsRequest'
  BY SMTT(12) DEF WaitEnd, TagFollowsRequest, FlagIsExclusive, PathInv, Dispatch, NoRequest
<1>4. \A q \in Callers : PathInv(q)'
  BY SMTT(12) DEF WaitEnd, PathInv, Dispatch, NoRequest, TagFollowsRequest
<1>5. RestInv'
  BY SMTT(12) DEF WaitEnd, FlagIsExclusive, CmdInv, Quiet, AtRest, ProgrammedFor, Armed,
        PickedUp, Raised, Scheduled, Resetting, IntBit, NoRequest
<1>6. \A q \in Callers : CmdInv(q)'
  BY SMTT(12) DEF WaitEnd, FlagIsExclusive, TagFollowsRequest, PathInv, CmdInv, Quiet, AtRest,
        ProgrammedFor, Armed, PickedUp, Raised, Scheduled, Resetting, IntBit, NoRequest
<1> QED
  BY <1>1, <1>2, <1>3, <1>4, <1>5, <1>6

\* BInv is kept when a request is ended.
LEMMA EndRequestKeeps ==
  ASSUME BInv, NEW p \in Callers, EndRequest(p)
  PROVE  BInv'
<1> USE NoCallerAssumption DEF BInv, RestInv, Types, vars, blkVars, drvVars, chainVars, devVars,
      dpcVars, dataVars, At, Cmd, Return, Rq
<1>1. Types'
  BY NoRequestType DEF EndRequest, Writer
<1>2. FlagIsExclusive'
  BY SMTT(12) DEF EndRequest, FlagIsExclusive
<1>3. TagFollowsRequest'
  BY SMTT(12) DEF EndRequest, TagFollowsRequest, FlagIsExclusive, PathInv, Dispatch, NoRequest
<1>4. \A q \in Callers : PathInv(q)'
  BY SMTT(12) DEF EndRequest, PathInv, Dispatch, NoRequest, TagFollowsRequest
<1>5. RestInv'
  BY SMTT(12) DEF EndRequest, FlagIsExclusive, CmdInv, Quiet, AtRest, ProgrammedFor, Armed,
        PickedUp, Raised, Scheduled, Resetting, IntBit, NoRequest
<1>6. \A q \in Callers : CmdInv(q)'
  BY SMTT(12) DEF EndRequest, FlagIsExclusive, TagFollowsRequest, PathInv, CmdInv, Quiet,
        AtRest, ProgrammedFor, Armed, PickedUp, Raised, Scheduled, Resetting, IntBit, NoRequest
<1> QED
  BY <1>1, <1>2, <1>3, <1>4, <1>5, <1>6

\* BInv is kept when the command is freed.
LEMMA FreeCmdKeeps ==
  ASSUME BInv, NEW p \in Callers, FreeCmd(p)
  PROVE  BInv'
<1> USE NoCallerAssumption DEF BInv, RestInv, Types, vars, blkVars, drvVars, chainVars, devVars,
      dpcVars, dataVars, At, Cmd, Return, Rq
<1>1. Types'
  <2>1. batomic' = FALSE
    BY DEF FreeCmd
  <2>2. UNCHANGED <<regs, seen, IntRegState,
        iotype>> /\ req' \in [Callers -> Request] /\ tag' \in Writer
    BY NoRequestType DEF FreeCmd, Writer
  <2>3. pc' \in [Callers -> {"idle", "tag", "tagwait", "ready", "held", "call", "issued"}]
    BY DEF FreeCmd
  <2>4. cmd' \in [Callers -> {"none", "alloc", "map", "prog", "go", "release", "wait", "end",
                            "free", "raw"}]
    BY DEF FreeCmd
  <2> QED
    BY <2>1, <2>2, <2>3, <2>4
<1>2. FlagIsExclusive'
  BY SMTT(12) DEF FreeCmd, FlagIsExclusive
<1>3. TagFollowsRequest'
  BY SMTT(12) DEF FreeCmd, TagFollowsRequest, FlagIsExclusive, PathInv, Dispatch, NoRequest
<1>4. \A q \in Callers : PathInv(q)'
  BY SMTT(12) DEF FreeCmd, PathInv, Dispatch, NoRequest, TagFollowsRequest
<1>5. RestInv'
  BY SMTT(12) DEF FreeCmd, FlagIsExclusive, CmdInv, Quiet, AtRest, ProgrammedFor, Armed,
        PickedUp, Raised, Scheduled, Resetting, IntBit, NoRequest
<1>6. \A q \in Callers : CmdInv(q)'
  BY SMTT(12) DEF FreeCmd, FlagIsExclusive, TagFollowsRequest, PathInv, CmdInv, Quiet, AtRest,
        ProgrammedFor, Armed, PickedUp, Raised, Scheduled, Resetting, IntBit, NoRequest
<1> QED
  BY <1>1, <1>2, <1>3, <1>4, <1>5, <1>6

\* BInv is kept when direct i/o is refused.
LEMMA RawRefusedKeeps ==
  ASSUME BInv, NEW p \in Callers, RawRefused(p)
  PROVE  BInv'
<1> USE NoCallerAssumption DEF BInv, RestInv, Types, vars, blkVars, drvVars, chainVars, devVars,
      dpcVars, dataVars, At, Cmd, Return, Rq
<1>1. Types'
  <2>1. batomic' = FALSE
    BY DEF RawRefused
  <2>2. UNCHANGED <<regs, seen, IntRegState,
        iotype>> /\ req' \in [Callers -> Request] /\ tag' \in Writer
    BY NoRequestType DEF RawRefused, Writer
  <2>3. pc' \in [Callers -> {"idle", "tag", "tagwait", "ready", "held", "call", "issued"}]
    BY DEF RawRefused
  <2>4. cmd' \in [Callers -> {"none", "alloc", "map", "prog", "go", "release", "wait", "end",
                            "free", "raw"}]
    BY DEF RawRefused
  <2> QED
    BY <2>1, <2>2, <2>3, <2>4
<1>2. FlagIsExclusive'
  BY SMTT(12) DEF RawRefused, FlagIsExclusive
<1>3. TagFollowsRequest'
  BY SMTT(12) DEF RawRefused, TagFollowsRequest, FlagIsExclusive, PathInv, Dispatch, NoRequest
<1>4. \A q \in Callers : PathInv(q)'
  BY SMTT(12) DEF RawRefused, PathInv, Dispatch, NoRequest, TagFollowsRequest
<1>5. RestInv'
  BY SMTT(12) DEF RawRefused, FlagIsExclusive, CmdInv, Quiet, AtRest, ProgrammedFor, Armed,
        PickedUp, Raised, Scheduled, Resetting, IntBit, NoRequest
<1>6. \A q \in Callers : CmdInv(q)'
  BY SMTT(12) DEF RawRefused, FlagIsExclusive, TagFollowsRequest, PathInv, CmdInv, Quiet,
        AtRest, ProgrammedFor, Armed, PickedUp, Raised, Scheduled, Resetting, IntBit, NoRequest
<1> QED
  BY <1>1, <1>2, <1>3, <1>4, <1>5, <1>6

\* BInv is kept when the page path returns.
LEMMA PageReturnsKeeps ==
  ASSUME BInv, NEW p \in Callers, PageReturns(p)
  PROVE  BInv'
<1> USE NoCallerAssumption DEF BInv, RestInv, Types, vars, blkVars, drvVars, chainVars, devVars,
      dpcVars, dataVars, At, Cmd, Return, Rq
<1>1. Types'
  <2>1. batomic' = FALSE
    BY DEF PageReturns
  <2>2. UNCHANGED <<regs, seen, IntRegState,
        iotype>> /\ req' \in [Callers -> Request] /\ tag' \in Writer
    BY NoRequestType DEF PageReturns, Writer
  <2>3. pc' \in [Callers -> {"idle", "tag", "tagwait", "ready", "held", "call", "issued"}]
    BY DEF PageReturns
  <2>4. cmd' \in [Callers -> {"none", "alloc", "map", "prog", "go", "release", "wait", "end",
                            "free", "raw"}]
    BY DEF PageReturns
  <2> QED
    BY <2>1, <2>2, <2>3, <2>4
<1>2. FlagIsExclusive'
  BY SMTT(12) DEF PageReturns, FlagIsExclusive
<1>3. TagFollowsRequest'
  BY SMTT(12) DEF PageReturns, TagFollowsRequest, FlagIsExclusive, PathInv, Dispatch, NoRequest
<1>4. \A q \in Callers : PathInv(q)'
  BY SMTT(12) DEF PageReturns, PathInv, Dispatch, NoRequest, TagFollowsRequest
<1>5. RestInv'
  BY SMTT(12) DEF PageReturns, FlagIsExclusive, CmdInv, Quiet, AtRest, ProgrammedFor, Armed,
        PickedUp, Raised, Scheduled, Resetting, IntBit, NoRequest
<1>6. \A q \in Callers : CmdInv(q)'
  BY SMTT(12) DEF PageReturns, FlagIsExclusive, TagFollowsRequest, PathInv, CmdInv, Quiet,
        AtRest, ProgrammedFor, Armed, PickedUp, Raised, Scheduled, Resetting, IntBit, NoRequest
<1> QED
  BY <1>1, <1>2, <1>3, <1>4, <1>5, <1>6

\* BInv is kept when a call is turned away.
LEMMA CallBusyKeeps ==
  ASSUME BInv, NEW p \in Callers, CallBusy(p)
  PROVE  BInv'
<1> USE NoCallerAssumption DEF BInv, RestInv, Types, vars, blkVars, drvVars, chainVars, devVars,
      dpcVars, dataVars, At, Cmd, Return, Rq
<1>1. Types'
  BY NoRequestType DEF CallBusy, Writer
<1>2. FlagIsExclusive'
  BY SMTT(12) DEF CallBusy, FlagIsExclusive
<1>3. TagFollowsRequest'
  BY SMTT(12) DEF CallBusy, TagFollowsRequest, FlagIsExclusive, PathInv, Dispatch, NoRequest
<1>4. \A q \in Callers : PathInv(q)'
  BY SMTT(12) DEF CallBusy, PathInv, Dispatch, NoRequest, TagFollowsRequest
<1>5. RestInv'
  BY SMTT(12) DEF CallBusy, FlagIsExclusive, CmdInv, Quiet, AtRest, ProgrammedFor, Armed,
        PickedUp, Raised, Scheduled, Resetting, IntBit, NoRequest
<1>6. \A q \in Callers : CmdInv(q)'
  <2> SUFFICES ASSUME NEW q \in Callers
               PROVE  CmdInv(q)'
    OBVIOUS
  <2>1. UNCHANGED <<ioctl_f, devlock, regs, IntRegState, devVars, dpcVars>> /\ cmd'[q] = cmd[q]
    BY DEF CallBusy
  <2>2. req'[q] = req[q] \/ cmd[q] \in {"none", "free"}
    BY DEF CallBusy, TagFollowsRequest
  <2> QED
    BY <2>1, <2>2, CmdFrame
<1> QED
  BY <1>1, <1>2, <1>3, <1>4, <1>5, <1>6

\* BInv is kept when a call takes the flag.
LEMMA CallTakesKeeps ==
  ASSUME BInv, NEW p \in Callers, CallTakes(p)
  PROVE  BInv'
<1> USE NoCallerAssumption DEF BInv, RestInv, Types, vars, blkVars, drvVars, chainVars, devVars,
      dpcVars, dataVars, At, Cmd, Return, Rq
<1>1. Types'
  BY SMTT(12) DEF CallTakes
<1>2. FlagIsExclusive'
  BY SMTT(12) DEF CallTakes, FlagIsExclusive
<1>3. TagFollowsRequest'
  BY SMTT(12) DEF CallTakes, TagFollowsRequest, FlagIsExclusive, PathInv, Dispatch, NoRequest
<1>4. \A q \in Callers : PathInv(q)'
  BY SMTT(12) DEF CallTakes, PathInv, Dispatch, NoRequest, TagFollowsRequest
<1>5. RestInv'
  BY SMTT(12) DEF CallTakes, FlagIsExclusive, CmdInv, Quiet, AtRest, ProgrammedFor, Armed,
        PickedUp, Raised, Scheduled, Resetting, IntBit, NoRequest
<1>6. \A q \in Callers : CmdInv(q)'
  BY SMTT(12) DEF CallTakes, FlagIsExclusive, TagFollowsRequest, PathInv, CmdInv, Quiet,
        AtRest, ProgrammedFor, Armed, PickedUp, Raised, Scheduled, Resetting, IntBit, NoRequest
<1> QED
  BY <1>1, <1>2, <1>3, <1>4, <1>5, <1>6

\* BInv is kept when a thread starts an operation.
LEMMA SubmitKeeps ==
  ASSUME BInv, NEW p \in Callers, NEW r \in Request, Submit(p, r)
  PROVE  BInv'
<1> USE NoCallerAssumption DEF BInv, RestInv, Types, vars, blkVars, drvVars, chainVars, devVars,
      dpcVars, dataVars, At, Cmd, Return, Rq
<1>1. Types'
  BY SMTT(12) DEF Submit
<1>2. FlagIsExclusive'
  BY SMTT(12) DEF Submit, FlagIsExclusive
<1>3. TagFollowsRequest'
  BY SMTT(12) DEF Submit, TagFollowsRequest, FlagIsExclusive, PathInv, Dispatch, NoRequest
<1>4. \A q \in Callers : PathInv(q)'
  BY SMTT(12) DEF Submit, PathInv, Dispatch, NoRequest, TagFollowsRequest
<1>5. RestInv'
  BY SMTT(12) DEF Submit, FlagIsExclusive, CmdInv, Quiet, AtRest, ProgrammedFor, Armed,
        PickedUp, Raised, Scheduled, Resetting, IntBit, NoRequest
<1>6. \A q \in Callers : CmdInv(q)'
  <2> SUFFICES ASSUME NEW q \in Callers
               PROVE  CmdInv(q)'
    OBVIOUS
  <2>1. UNCHANGED <<ioctl_f, devlock, regs, IntRegState, devVars, dpcVars>> /\ cmd'[q] = cmd[q]
    BY DEF Submit
  <2>2. req'[q] = req[q] \/ cmd[q] \in {"none", "free"}
    BY DEF Submit, TagFollowsRequest
  <2> QED
    BY <2>1, <2>2, CmdFrame
<1> QED
  BY <1>1, <1>2, <1>3, <1>4, <1>5, <1>6

\* BInv is kept when the queue is run in vain.
LEMMA RunQueueIdleKeeps ==
  ASSUME BInv, RunQueueIdle
  PROVE  BInv'
<1> USE NoCallerAssumption DEF BInv, RestInv, Types, vars, blkVars, drvVars, chainVars, devVars,
      dpcVars, dataVars, At, Cmd, Return, Rq
<1>1. Types'
  BY SMTT(12) DEF RunQueueIdle
<1>2. FlagIsExclusive'
  BY SMTT(12) DEF RunQueueIdle, FlagIsExclusive
<1>3. TagFollowsRequest'
  BY SMTT(12) DEF RunQueueIdle, TagFollowsRequest, FlagIsExclusive, PathInv, Dispatch, NoRequest
<1>4. \A q \in Callers : PathInv(q)'
  BY SMTT(12) DEF RunQueueIdle, PathInv, Dispatch, NoRequest, TagFollowsRequest
<1>5. RestInv'
  BY SMTT(12) DEF RunQueueIdle, FlagIsExclusive, CmdInv, Quiet, AtRest, ProgrammedFor, Armed,
        PickedUp, Raised, Scheduled, Resetting, IntBit, NoRequest
<1>6. \A q \in Callers : CmdInv(q)'
  <2> SUFFICES ASSUME NEW q \in Callers
               PROVE  CmdInv(q)'
    OBVIOUS
  <2>1. UNCHANGED <<ioctl_f, devlock, regs, IntRegState, devVars, dpcVars>> /\ cmd'[q] = cmd[q]
    BY DEF RunQueueIdle
  <2>2. req'[q] = req[q] \/ cmd[q] \in {"none", "free"}
    BY DEF RunQueueIdle, TagFollowsRequest
  <2> QED
    BY <2>1, <2>2, CmdFrame
<1> QED
  BY <1>1, <1>2, <1>3, <1>4, <1>5, <1>6

\* BInv is kept when the device thread reads the registers.
LEMMA DevPollKeeps ==
  ASSUME BInv, DevPoll
  PROVE  BInv'
<1> USE NoCallerAssumption DEF BInv, RestInv, Types, vars, blkVars, drvVars, chainVars, devVars,
      dpcVars, dataVars, At, Cmd, Return, Rq
<1>1. Types'
  <2>1. regs' \in Registers /\ seen' \in Registers /\ IntRegState' \in Registers
    BY SeenType DEF DevPoll
  <2> QED
    BY <2>1 DEF DevPoll
<1>2. FlagIsExclusive'
  BY SMTT(12) DEF DevPoll, FlagIsExclusive
<1>3. TagFollowsRequest'
  BY SMTT(12) DEF DevPoll, TagFollowsRequest, FlagIsExclusive, PathInv, Dispatch, NoRequest
<1>4. \A q \in Callers : PathInv(q)'
  BY SMTT(12) DEF DevPoll, PathInv, Dispatch, NoRequest, TagFollowsRequest
<1>5. RestInv'
  BY SMTT(12) DEF DevPoll, FlagIsExclusive, CmdInv, Quiet, AtRest, ProgrammedFor, Armed,
        PickedUp, Raised, Scheduled, Resetting, IntBit, NoRequest
<1>6. \A q \in Callers : CmdInv(q)'
  <2> SUFFICES ASSUME NEW q \in Callers, cmd[q] # "none"
               PROVE  CmdInv(q)'
    BY DEF DevPoll, CmdInv
  <2>1. Armed(q) /\ cmd[q] \in {"go", "release", "wait"} /\ ioctl_f = "eIoPending"
    BY DEF CmdInv, DevPoll, Quiet, AtRest, ProgrammedFor, Armed, PickedUp, Raised, Scheduled,
          Resetting
  <2>2. Armed(q)'
    BY <2>1 DEF DevPoll, Armed, AtRest, ProgrammedFor, RegistersAtReset
  <2> QED
    BY <2>1, <2>2 DEF DevPoll, CmdInv
<1> QED
  BY <1>1, <1>2, <1>3, <1>4, <1>5, <1>6

\* BInv is kept when the device thread finds nothing to do.
LEMMA DevNopKeeps ==
  ASSUME BInv, DevNop
  PROVE  BInv'
<1> USE NoCallerAssumption DEF BInv, RestInv, Types, vars, blkVars, drvVars, chainVars, devVars,
      dpcVars, dataVars, At, Cmd, Return, Rq
<1>1. Types'
  <2>1. regs' \in Registers /\ seen' \in Registers /\ IntRegState' \in Registers
    BY ResetType DEF DevNop
  <2> QED
    BY <2>1 DEF DevNop
<1>2. FlagIsExclusive'
  BY SMTT(12) DEF DevNop, FlagIsExclusive
<1>3. TagFollowsRequest'
  BY SMTT(12) DEF DevNop, TagFollowsRequest, FlagIsExclusive, PathInv, Dispatch, NoRequest
<1>4. \A q \in Callers : PathInv(q)'
  BY SMTT(12) DEF DevNop, PathInv, Dispatch, NoRequest, TagFollowsRequest
<1>5. RestInv'
  BY SMTT(12) DEF DevNop, FlagIsExclusive, CmdInv, Quiet, AtRest, ProgrammedFor, Armed,
        PickedUp, Raised, Scheduled, Resetting, IntBit, NoRequest
<1>6. \A q \in Callers : CmdInv(q)'
  BY SMTT(12) DEF DevNop, FlagIsExclusive, TagFollowsRequest, PathInv, CmdInv, Quiet, AtRest,
        ProgrammedFor, Armed, PickedUp, Raised, Scheduled, Resetting, IntBit, NoRequest
<1> QED
  BY <1>1, <1>2, <1>3, <1>4, <1>5, <1>6

\* BInv is kept when the device thread picks up an i/o.
LEMMA DevPickUpKeeps ==
  ASSUME BInv, DevPickUp
  PROVE  BInv'
<1> USE NoCallerAssumption DEF BInv, RestInv, Types, vars, blkVars, drvVars, chainVars, devVars,
      dpcVars, dataVars, At, Cmd, Return, Rq
<1>1. Types'
  BY SMTT(12) DEF DevPickUp
<1>2. FlagIsExclusive'
  BY SMTT(12) DEF DevPickUp, FlagIsExclusive
<1>3. TagFollowsRequest'
  BY SMTT(12) DEF DevPickUp, TagFollowsRequest, FlagIsExclusive, PathInv, Dispatch, NoRequest
<1>4. \A q \in Callers : PathInv(q)'
  BY SMTT(12) DEF DevPickUp, PathInv, Dispatch, NoRequest, TagFollowsRequest
<1>5. RestInv'
  BY SMTT(12) DEF DevPickUp, FlagIsExclusive, CmdInv, Quiet, AtRest, ProgrammedFor, Armed,
        PickedUp, Raised, Scheduled, Resetting, IntBit, NoRequest
<1>6. \A q \in Callers : CmdInv(q)'
  <2> SUFFICES ASSUME NEW q \in Callers, cmd[q] # "none"
               PROVE  CmdInv(q)'
    BY DEF DevPickUp, CmdInv
  <2>1. Armed(q) /\ cmd[q] \in {"release", "wait"} /\ ioctl_f = "eIoPending"
    BY DEF CmdInv, DevPickUp, Programmed, GoBits, Quiet, AtRest, ProgrammedFor, Armed,
          PickedUp, Raised, Scheduled, Resetting
  <2>2. PickedUp(q)'
    BY <2>1 DEF DevPickUp, Armed, PickedUp, AtRest, ProgrammedFor, ProgrammedIoType, IoType,
          IntBit, Request, Dir
  <2> QED
    BY <2>1, <2>2 DEF DevPickUp, CmdInv
<1> QED
  BY <1>1, <1>2, <1>3, <1>4, <1>5, <1>6

\* BInv is kept when the device thread moves the data.
LEMMA DevTransferKeeps ==
  ASSUME BInv, DevTransfer
  PROVE  BInv'
<1> USE NoCallerAssumption DEF BInv, RestInv, Types, vars, blkVars, drvVars, chainVars, devVars,
      dpcVars, dataVars, At, Cmd, Return, Rq
<1>1. Types'
  <2>1. regs' \in Registers /\ seen' \in Registers /\ IntRegState' \in Registers
    BY ResetType DEF DevTransfer, Registers, IntBit, Dir, AllValidMask, InputMask, OutputMask
  <2> QED
    BY <2>1 DEF DevTransfer
<1>2. FlagIsExclusive'
  BY SMTT(12) DEF DevTransfer, FlagIsExclusive
<1>3. TagFollowsRequest'
  BY SMTT(12) DEF DevTransfer, TagFollowsRequest, FlagIsExclusive, PathInv, Dispatch, NoRequest
<1>4. \A q \in Callers : PathInv(q)'
  BY SMTT(12) DEF DevTransfer, PathInv, Dispatch, NoRequest, TagFollowsRequest
<1>5. RestInv'
  BY SMTT(12) DEF DevTransfer, FlagIsExclusive, CmdInv, Quiet, AtRest, ProgrammedFor, Armed,
        PickedUp, Raised, Scheduled, Resetting, IntBit, NoRequest
<1>6. \A q \in Callers : CmdInv(q)'
  <2> SUFFICES ASSUME NEW q \in Callers, cmd[q] # "none"
               PROVE  CmdInv(q)'
    BY DEF DevTransfer, CmdInv
  <2>1. PickedUp(q) /\ cmd[q] \in {"release", "wait"} /\ ioctl_f = "eIoPending"
    BY DEF CmdInv, DevTransfer, Quiet, AtRest, ProgrammedFor, Armed, PickedUp, Raised,
          Scheduled, Resetting
  <2>2. Raised(q)'
    BY <2>1 DEF DevTransfer, PickedUp, Raised, AtRest, ProgrammedFor, Registers
  <2> QED
    BY <2>1, <2>2 DEF DevTransfer, CmdInv
<1> QED
  BY <1>1, <1>2, <1>3, <1>4, <1>5, <1>6

\* BInv is kept when the ISR runs.
LEMMA DevIsrKeeps ==
  ASSUME BInv, DevIsr
  PROVE  BInv'
<1> USE NoCallerAssumption DEF BInv, RestInv, Types, vars, blkVars, drvVars, chainVars, devVars,
      dpcVars, dataVars, At, Cmd, Return, Rq
<1>1. Types'
  <2>1. regs' \in Registers /\ seen' \in Registers /\ IntRegState' \in Registers
    BY DEF DevIsr, Registers
  <2> QED
    BY <2>1 DEF DevIsr
<1>2. FlagIsExclusive'
  BY SMTT(12) DEF DevIsr, FlagIsExclusive
<1>3. TagFollowsRequest'
  BY SMTT(12) DEF DevIsr, TagFollowsRequest, FlagIsExclusive, PathInv, Dispatch, NoRequest
<1>4. \A q \in Callers : PathInv(q)'
  BY SMTT(12) DEF DevIsr, PathInv, Dispatch, NoRequest, TagFollowsRequest
<1>5. RestInv'
  BY SMTT(12) DEF DevIsr, FlagIsExclusive, CmdInv, Quiet, AtRest, ProgrammedFor, Armed,
        PickedUp, Raised, Scheduled, Resetting, IntBit, NoRequest
<1>6. \A q \in Callers : CmdInv(q)'
  <2> SUFFICES ASSUME NEW q \in Callers, cmd[q] # "none"
               PROVE  CmdInv(q)'
    BY DEF DevIsr, CmdInv
  <2>1. Raised(q) /\ cmd[q] = "wait" /\ ioctl_f = "eIoPending"
    BY DEF CmdInv, DevIsr, Quiet, AtRest, ProgrammedFor, Armed, PickedUp, Raised, Scheduled,
          Resetting
  <2>2. Scheduled(q)'
    BY <2>1 DEF DevIsr, Raised, Scheduled, AtRest, Registers
  <2> QED
    BY <2>1, <2>2 DEF DevIsr, CmdInv
<1> QED
  BY <1>1, <1>2, <1>3, <1>4, <1>5, <1>6

\* BInv is kept when the DPC resets the registers.
LEMMA DpcResetKeeps ==
  ASSUME BInv, DpcReset
  PROVE  BInv'
<1> USE NoCallerAssumption DEF BInv, RestInv, Types, vars, blkVars, drvVars, chainVars, devVars,
      dpcVars, dataVars, At, Cmd, Return, Rq
<1>1. Types'
  <2>1. regs' \in Registers /\ seen' \in Registers /\ IntRegState' \in Registers
    BY ResetIoRegistersType DEF DpcReset
  <2> QED
    BY <2>1 DEF DpcReset
<1>2. FlagIsExclusive'
  BY SMTT(12) DEF DpcReset, FlagIsExclusive
<1>3. TagFollowsRequest'
  BY SMTT(12) DEF DpcReset, TagFollowsRequest, FlagIsExclusive, PathInv, Dispatch, NoRequest
<1>4. \A q \in Callers : PathInv(q)'
  BY SMTT(12) DEF DpcReset, PathInv, Dispatch, NoRequest, TagFollowsRequest
<1>5. RestInv'
  BY SMTT(12) DEF DpcReset, FlagIsExclusive, CmdInv, Quiet, AtRest, ProgrammedFor, Armed,
        PickedUp, Raised, Scheduled, Resetting, IntBit, NoRequest
<1>6. \A q \in Callers : CmdInv(q)'
  <2> SUFFICES ASSUME NEW q \in Callers, cmd[q] # "none"
               PROVE  CmdInv(q)'
    BY DEF DpcReset, CmdInv
  <2>1. Scheduled(q) /\ cmd[q] = "wait" /\ ioctl_f = "eIoPending"
    BY DEF CmdInv, DpcReset, Quiet, AtRest, ProgrammedFor, Armed, PickedUp, Raised, Scheduled,
          Resetting
  <2>2. Resetting(q)'
    BY <2>1, ResetIoRegistersType DEF DpcReset, Scheduled, Resetting, IntBit, AllValidMask,
          InputMask, OutputMask, Request, Dir
  <2> QED
    BY <2>1, <2>2 DEF DpcReset, CmdInv
<1> QED
  BY <1>1, <1>2, <1>3, <1>4, <1>5, <1>6

\* BInv is kept when the DPC wakes the waiter.
LEMMA DpcWakeKeeps ==
  ASSUME BInv, DpcWake
  PROVE  BInv'
<1> USE NoCallerAssumption DEF BInv, RestInv, Types, vars, blkVars, drvVars, chainVars, devVars,
      dpcVars, dataVars, At, Cmd, Return, Rq
<1>1. Types'
  BY SMTT(12) DEF DpcWake
<1>2. FlagIsExclusive'
  BY SMTT(12) DEF DpcWake, FlagIsExclusive
<1>3. TagFollowsRequest'
  BY SMTT(12) DEF DpcWake, TagFollowsRequest, FlagIsExclusive, PathInv, Dispatch, NoRequest
<1>4. \A q \in Callers : PathInv(q)'
  BY SMTT(12) DEF DpcWake, PathInv, Dispatch, NoRequest, TagFollowsRequest
<1>5. RestInv'
  BY SMTT(12) DEF DpcWake, FlagIsExclusive, CmdInv, Quiet, AtRest, ProgrammedFor, Armed,
        PickedUp, Raised, Scheduled, Resetting, IntBit, NoRequest
<1>6. \A q \in Callers : CmdInv(q)'
  <2> SUFFICES ASSUME NEW q \in Callers, cmd[q] # "none"
               PROVE  CmdInv(q)'
    BY DEF DpcWake, CmdInv
  <2>1. Resetting(q) /\ cmd[q] = "wait" /\ ioctl_f = "eIoPending"
    BY DEF CmdInv, DpcWake, Quiet, AtRest, ProgrammedFor, Armed, PickedUp, Raised, Scheduled,
          Resetting
  <2>2. Quiet' /\ ioctl_f' # "eIoPending"
    BY <2>1 DEF DpcWake, Resetting, Quiet, AtRest, IoErrno, StatusErrno, IntBit, Request, Dir
  <2> QED
    BY <2>1, <2>2 DEF DpcWake, CmdInv
<1> QED
  BY <1>1, <1>2, <1>3, <1>4, <1>5, <1>6

-----------------------------------------------------------------------------
\* At first nothing is under way and everything rests.
LEMMA InitSatisfiesBInv ==
  ASSUME Init
  PROVE  BInv
<1>1. Types
  BY ResetType, NoRequestType DEF Init, Types, Writer, Dir
<1>2. FlagIsExclusive /\ TagFollowsRequest
  BY NoCallerAssumption DEF Init, FlagIsExclusive, TagFollowsRequest
<1>3. \A p \in Callers : PathInv(p) /\ CmdInv(p)
  BY DEF Init, PathInv, CmdInv
<1>4. Quiet /\ ioctl_f = "eIoReset" /\ devlock = NoCaller
  BY DEF Init, Quiet, AtRest, RegistersAtReset
<1> QED
  BY <1>1, <1>2, <1>3, <1>4 DEF BInv, RestInv

\* Every step keeps BInv.
LEMMA StepKeepsBInv ==
  ASSUME BInv, [Next]_vars
  PROVE  BInv'
<1>1. ASSUME NEW p \in Callers, BlkMqStep(p)
      PROVE  BInv'
  BY <1>1, GetTagKeeps, WaitTagKeeps, QueueReqBusyKeeps, QueueReqKeeps DEF BlkMqStep
<1>2. ASSUME NEW p \in Callers, CmdStep(p)
      PROVE  BInv'
  BY <1>2, AllocFailsKeeps, AllocCmdKeeps, RequestFailsKeeps, SetPendingKeeps, ProgramKeeps,
     SetGoKeeps, ReleaseDevlockKeeps, WaitEndKeeps, EndRequestKeeps, FreeCmdKeeps,
     RawRefusedKeeps, PageReturnsKeeps DEF CmdStep
<1>3. ASSUME NEW p \in Callers, CallStep(p)
      PROVE  BInv'
  BY <1>3, CallBusyKeeps, CallTakesKeeps DEF CallStep
<1>4. CASE DevStep
  BY <1>4, DevPollKeeps, DevNopKeeps, DevPickUpKeeps, DevTransferKeeps, DevIsrKeeps DEF DevStep
<1>5. CASE DpcStep
  BY <1>5, DpcResetKeeps, DpcWakeKeeps DEF DpcStep
<1>6. CASE UNCHANGED vars
  <2> USE <1>6 DEF vars, blkVars, drvVars, chainVars, devVars, dpcVars, dataVars
  <2>1. Types' /\ FlagIsExclusive' /\ TagFollowsRequest'
    BY DEF BInv, Types, FlagIsExclusive, TagFollowsRequest, Rq
  <2>2. \A p \in Callers : PathInv(p)' /\ CmdInv(p)'
    BY CmdFrame DEF BInv, PathInv, Rq
  <2>3. RestInv'
    BY DEF BInv, RestInv, Quiet, AtRest
  <2> QED
    BY <2>1, <2>2, <2>3 DEF BInv
<1> QED
  BY <1>1, <1>2, <1>3, <1>4, <1>5, <1>6, SubmitKeeps, RunQueueIdleKeeps DEF Next

\* BInv is an invariant of the block driver and its device.
THEOREM BlockInvariance == Spec => []BInv
<1>1. Init => BInv
  BY InitSatisfiesBInv
<1>2. BInv /\ [Next]_vars => BInv'
  BY StepKeepsBInv
<1> QED
  BY <1>1, <1>2, PTL DEF Spec

\* batomic excludes requests, page and raw i/o from one another on all their
\* exits (maddevb_queue_req, maddevb_rw_page, maddevr_read, maddevb_free_cmd).
THEOREM BusyFlagIsExclusive == Spec => []FlagIsExclusive
<1>1. BInv => FlagIsExclusive
  BY DEF BInv
<1> QED
  BY <1>1, BlockInvariance, PTL

\* No request is ended twice, and none while its tag is another's
\* (maddevb_end_cmd).
THEOREM EveryRequestEndsOnce == Spec => []TagFollowsRequest
<1>1. BInv => TagFollowsRequest
  BY DEF BInv
<1> QED
  BY <1>1, BlockInvariance, PTL

\* The sequence check of the device thread never fires for the block driver
\* (mbdt_get_programmed_iotype, maddev_reset_io_registers).
THEOREM BlockTagsStayInStep == Spec => []TagsInStep
<1>1. BInv => TagsInStep
  <2> SUFFICES ASSUME BInv
               PROVE  TagsInStep
    OBVIOUS
  <2>1. CASE \A p \in Callers : cmd[p] = "none"
    BY <2>1 DEF BInv, RestInv, Quiet, AtRest, TagsInStep
  <2>2. ASSUME NEW p \in Callers, cmd[p] # "none"
        PROVE  TagsInStep
    BY <2>2 DEF BInv, Types, CmdInv, Quiet, AtRest, Armed, PickedUp, Raised, Scheduled, Resetting,
                TagsInStep
  <2> QED
    BY <2>1, <2>2
<1> QED
  BY <1>1, BlockInvariance, PTL

\* What the device thread, the ISR and the DPC work on is waited for
\* (maddevb_isr_worker_fn, maddevb_dpctask, maddev_wait_get_io_status).
THEOREM BlockWorkIsWaitedFor == Spec => []WorkHasWaiter
<1>1. BInv => WorkHasWaiter
  <2> SUFFICES ASSUME BInv, dev \in {"xfer", "isr"} \/ dpcSched \/ dpc = "wake"
               PROVE  WorkHasWaiter
    BY DEF WorkHasWaiter
  <2>1. PICK p \in Callers : cmd[p] # "none"
    BY DEF BInv, RestInv, Quiet, AtRest
  <2>2. /\ cmd[p] \in {"release", "wait"} /\ ioctl_f = "eIoPending"
        /\ PickedUp(p) \/ Raised(p) \/ Scheduled(p) \/ Resetting(p)
    BY <2>1 DEF BInv, Types, CmdInv, Quiet, AtRest, Armed
  <2> QED
    BY <2>2 DEF WorkHasWaiter, PickedUp, Raised, Scheduled, Resetting, AtRest
<1> QED
  BY <1>1, BlockInvariance, PTL

\* From pick-up to interrupt nobody but the device thread changes the registers
\* or the chain, although it holds no lock (mbdt_process_dma_io).
THEOREM BlockDeviceIsUndisturbed == Spec => DeviceUndisturbed
<1>1. BInv /\ [Next]_vars =>
        [(dev \in {"xfer", "isr"} /\ (regs' # regs \/ chain' # chain)) => (dev' # dev)]_vars
  <2> SUFFICES ASSUME BInv, Next, dev \in {"xfer", "isr"}
               PROVE  (regs' = regs /\ chain' = chain) \/ dev' # dev
    OBVIOUS
  <2> USE DEF blkVars, drvVars, chainVars, devVars, dpcVars, dataVars
  <2>1. \A p \in Callers : cmd[p] \notin {"prog", "go"}
    BY DEF BInv, CmdInv, Quiet, Armed
  <2>2. ~dpcSched
    <3>1. PICK p \in Callers : cmd[p] # "none"
      BY DEF BInv, RestInv, Quiet
    <3> QED
      BY <3>1 DEF BInv, Types, CmdInv, Quiet, AtRest, Armed, PickedUp, Raised, Scheduled, Resetting
  <2>3. ASSUME NEW p \in Callers, BlkMqStep(p) \/ CallStep(p) \/ \E r \in Request : Submit(p, r)
        PROVE  regs' = regs /\ chain' = chain
    BY <2>3 DEF BlkMqStep, CallStep, Submit, GetTag, WaitTag, QueueReqBusy, QueueReq, CallBusy,
                CallTakes
  <2>4. ASSUME NEW p \in Callers, CmdStep(p)
        PROVE  regs' = regs /\ chain' = chain
    BY <2>1, <2>4 DEF CmdStep, AllocFails, AllocCmd, RequestFails, SetPending, Program, SetGo,
                      ReleaseDevlock, WaitEnd, EndRequest, FreeCmd, RawRefused, PageReturns, At
  <2>5. CASE RunQueueIdle \/ DpcStep
    BY <2>2, <2>5 DEF RunQueueIdle, DpcStep, DpcReset, DpcWake
  <2>6. CASE DevStep
    BY <2>6 DEF DevStep, DevPoll, DevNop, DevPickUp, DevTransfer, DevIsr
  <2> QED
    BY <2>3, <2>4, <2>5, <2>6 DEF Next
<1> QED
  BY <1>1, BlockInvariance, PTL DEF Spec, DeviceUndisturbed
=============================================================================
