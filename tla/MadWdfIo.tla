------------------------------ MODULE MadWdfIo ------------------------------
(***************************************************************************)
(* Read and write requests in the Windows simulator: the KMDF driver of    *)
(* the device, the window in which the device is simulated, and the        *)
(* interrupt thread of the bus driver.                                     *)
(*                                                                         *)
(*   handler r      MadEvtIoBufrdRead/Write or MadEvtIoDmaRead/Write       *)
(*                  programs the device for request r and returns          *)
(*   window         polls the registers and answers: OnPoll                *)
(*   int            MadPdoIntThread moves the data and calls MadEvtISR;    *)
(*                  MadEvtDPC runs on its processor before it goes on      *)
(*   worker w       a system thread that runs the driver's work item       *)
(*                                                                         *)
(* One request at a time is the driver's: its queue is sequential.  The    *)
(* registers are shared: the driver's handlers, its ISR and the end of its *)
(* DPC take the interrupt spin lock, the window takes none.  The           *)
(* assertions of the driver are those of its free build: none.             *)
(***************************************************************************)
EXTENDS Naturals

CONSTANTS
  Requests,   \* handles of the requests of one run
  NoRequest,  \* NULL
  Workers,    \* system worker threads
  RunModes,   \* run modes the window may be in at the start
  XtraInts,   \* settings of the window's "extraneous interrupts" box
  MaxXfers    \* bound: transfers of one request that are told apart

ASSUME RequestsAssumption == NoRequest \notin Requests
ASSUME RunModesAssumption == RunModes \subseteq {"eAutoInput", "eAutoOutput", "eAutoDuplex"}
ASSUME XtraIntsAssumption == XtraInts \subseteq BOOLEAN
ASSUME MaxXfersAssumption == MaxXfers \in Nat \ {0, 1}

VARIABLES
  bDmaEnabled, \* the driver's transfer mode, fixed when it is loaded
  xtra,        \* the window issues extraneous interrupts
  runmode,     \* the window's run mode (m_eRunMode)
  pc,          \* where the handler of each request is
  type,        \* DevReqType of each request
  owner,       \* the request the sequential queue has handed out
  result,      \* how each request was completed
  xfers,       \* times the device has moved each request's data
  hPendingReqs, \* the driver's table of pending requests
  hDmaXaxn,    \* the driver's DMA transaction, by its request
  DevStatus,   \* the device reported an error that no request explains
  HdwSgDmaList, \* the request whose chain the driver's one list describes
  regs,        \* the device's registers
  lock,        \* holder of the interrupt spin lock
  ui,          \* where the window is, and what it has read
  int,         \* where the interrupt thread is, and what it has read
  wiQueued,    \* the work item is queued
  wi,          \* the context of the work item
  worker,      \* where each worker is, and what it has read
  fault        \* why the system has stopped

queueVars == <<pc, type, owner, result>>
drvVars == <<hPendingReqs, hDmaXaxn, DevStatus, HdwSgDmaList>>
wiVars == <<wiQueued, wi, worker>>
cfgVars == <<bDmaEnabled, xtra>>
vars == <<cfgVars, runmode, queueVars, xfers, drvVars, regs, lock, ui, int, wiVars, fault>>

Handle == Requests \cup {NoRequest}
Dir == {"in", "out"}

\* Bits of IntEnable and IntID.  The mode of the driver tells which of the
\* input bits (buffered or DMA) "in" stands for, and which output bit.
IntBits == {"ALERT"} \cup Dir
ControlBits == {"GO", "CHAINED_DMA"}

BufrdTypes == {"eBufrdRead", "eBufrdWrite"}
OneDmaTypes == {"eDmaRead", "eDmaWrite"}
SgDmaTypes == {"eSgDmaRead", "eSgDmaWrite"}
DmaTypes == OneDmaTypes \cup SgDmaTypes
ReqTypes == BufrdTypes \cup DmaTypes

\* The types of the table in the order MadCompleteAnyPendingIOs visits them.
Order == [t \in ReqTypes |->
  CASE t = "eBufrdRead" -> 1 [] t = "eBufrdWrite" -> 2 [] t = "eDmaRead" -> 3
    [] t = "eDmaWrite" -> 4 [] t = "eSgDmaRead" -> 5 [] t = "eSgDmaWrite" -> 6]

DirOf(t) == IF t \in {"eBufrdRead", "eDmaRead", "eSgDmaRead"} THEN "in" ELSE "out"

\* The type of a request from what identifies it in the registers.
TypeOf(dma, d, chained) ==
  IF d = "in"
  THEN IF ~dma THEN "eBufrdRead" ELSE IF chained THEN "eSgDmaRead" ELSE "eDmaRead"
  ELSE IF ~dma THEN "eBufrdWrite" ELSE IF chained THEN "eSgDmaWrite" ELSE "eDmaWrite"

Served ==
  {d \in Dir : runmode = "eAutoDuplex" \/ runmode = IF d = "in" THEN "eAutoInput" ELSE "eAutoOutput"}

RegistersAtStart ==
  [IntEnable |-> IntBits, Control |-> {}, IntID |-> {}, MesgID |-> 0, HostAddr |-> NoRequest]

IdleWorker == [pc |-> "idle", req |-> NoRequest, NtStatus |-> "error"]

\* The driver is loaded and the window opened in an automatic mode: interrupts
\* are enabled, no request is pending.
Init ==
  /\ bDmaEnabled \in BOOLEAN
  /\ xtra \in XtraInts
  /\ runmode \in RunModes
  /\ pc = [r \in Requests |-> "new"]
  /\ type = [r \in Requests |-> "eNoIO"]
  /\ owner = NoRequest
  /\ result = [r \in Requests |-> "none"]
  /\ xfers = [r \in Requests |-> 0]
  /\ hPendingReqs = [t \in ReqTypes |-> NoRequest]
  /\ hDmaXaxn = NoRequest
  /\ DevStatus = FALSE
  /\ HdwSgDmaList = NoRequest
  /\ regs = RegistersAtStart
  /\ lock = "free"
  /\ ui = [pc |-> "idle", dir |-> "in"]
  /\ int = [pc |-> "poll", type |-> "eNoIO", IntID |-> {}, Control |-> {}]
  /\ wiQueued = FALSE
  /\ wi = [req |-> NoRequest, type |-> "eBufrdRead", NtStatus |-> "error"]
  /\ worker = [w \in Workers |-> IdleWorker]
  /\ fault = "none"

Goto(r, p) == pc' = [pc EXCEPT ![r] = p]

\* WdfRequestComplete: the handle must be of a request not yet completed; the
\* sequential queue may hand out the next request at once.
Complete(h, status) ==
  IF h = NoRequest \/ result[h] # "none"
  THEN /\ fault' = IF h = NoRequest THEN "null request" ELSE "completed twice"
       /\ UNCHANGED <<result, owner>>
  ELSE /\ result' = [result EXCEPT ![h] = status]
       /\ owner' = IF owner = h THEN NoRequest ELSE owner
       /\ UNCHANGED fault

-----------------------------------------------------------------------------
(***************************************************************************)
(* The application, the framework's queue, and the driver's handlers.      *)
(***************************************************************************)

\* Applications use the directions that the window serves.
Submit(r, d, chained) ==
  /\ pc[r] = "new"
  /\ d \in Served
  /\ chained => bDmaEnabled
  /\ type' = [type EXCEPT ![r] = TypeOf(bDmaEnabled, d, chained)]
  /\ Goto(r, "queued")
  /\ UNCHANGED <<cfgVars, runmode, owner, result, xfers, drvVars, regs, lock, ui, int, wiVars, fault>>

Deliver(r) ==
  /\ pc[r] = "queued" /\ owner = NoRequest
  /\ owner' = r
  /\ Goto(r, "verify")
  /\ UNCHANGED <<cfgVars, runmode, type, result, xfers, drvVars, regs, lock, ui, int, wiVars, fault>>

Ready(r) ==
  /\ pc[r] = "verify" /\ ~DevStatus
  /\ Goto(r, "ready")
  /\ UNCHANGED <<cfgVars, runmode, type, owner, result, xfers, drvVars, regs, lock, ui, int, wiVars, fault>>

\* The error of an earlier interrupt is this request's answer.
NotReady(r) ==
  /\ pc[r] = "verify" /\ DevStatus
  /\ Complete(r, "error")
  /\ Goto(r, "clear")
  /\ UNCHANGED <<cfgVars, runmode, type, xfers, drvVars, regs, lock, ui, int, wiVars>>

ClearDevStatus(r) ==
  /\ pc[r] = "clear"
  /\ DevStatus' = FALSE
  /\ Goto(r, "done")
  /\ UNCHANGED <<cfgVars, runmode, type, owner, result, xfers, hPendingReqs, hDmaXaxn,
                 HdwSgDmaList, regs, lock, ui, int, wiVars, fault>>

\* No buffer, or no DMA transaction.
Refuse(r) ==
  /\ pc[r] = "ready"
  /\ Complete(r, "error")
  /\ Goto(r, "done")
  /\ UNCHANGED <<cfgVars, runmode, type, xfers, drvVars, regs, lock, ui, int, wiVars>>

\* Mutant of SetPending: the chain is built once, not for every request.
SetPendingOldChain(r) ==
  /\ pc[r] = "ready"
  /\ hPendingReqs' = [hPendingReqs EXCEPT ![type[r]] = r]
  /\ HdwSgDmaList' = IF type[r] \in SgDmaTypes /\ HdwSgDmaList = NoRequest THEN r ELSE HdwSgDmaList
  /\ Goto(r, "program")
  /\ UNCHANGED <<cfgVars, runmode, type, owner, result, xfers, hDmaXaxn, DevStatus, regs,
                 lock, ui, int, wiVars, fault>>

SetPending(r) ==
  /\ pc[r] = "ready"
  /\ hPendingReqs' = [hPendingReqs EXCEPT ![type[r]] = r]
  /\ HdwSgDmaList' = IF type[r] \in SgDmaTypes THEN r ELSE HdwSgDmaList
  /\ Goto(r, "program")
  /\ UNCHANGED <<cfgVars, runmode, type, owner, result, xfers, hDmaXaxn, DevStatus, regs,
                 lock, ui, int, wiVars, fault>>

IsChained(r) == type[r] \in SgDmaTypes
ControlReg(r) == IF IsChained(r) THEN {"CHAINED_DMA"} ELSE {}

\* A chained transfer has no host address of its own: its elements have.
ProgramRegs(r) ==
  /\ pc[r] = "program" /\ lock = "free"
  /\ lock' = "driver"
  /\ regs' = [regs EXCEPT !.HostAddr = IF IsChained(r) THEN NoRequest ELSE r,
                          !.IntEnable = {"ALERT", DirOf(type[r])},
                          !.Control = ControlReg(r)]
  /\ Goto(r, "go")
  /\ UNCHANGED <<cfgVars, runmode, type, owner, result, xfers, drvVars, ui, int, wiVars, fault>>

SetGo(r) ==
  /\ pc[r] = "go"
  /\ regs' = [regs EXCEPT !.Control = ControlReg(r) \cup {"GO"}]
  /\ lock' = "free"
  /\ Goto(r, IF bDmaEnabled THEN "record" ELSE "done")
  /\ UNCHANGED <<cfgVars, runmode, type, owner, result, xfers, drvVars, ui, int, wiVars, fault>>

\* Only now, with the device running, the driver remembers the transaction.
RecordXaxn(r) ==
  /\ pc[r] = "record"
  /\ hDmaXaxn' = r
  /\ Goto(r, "done")
  /\ UNCHANGED <<cfgVars, runmode, type, owner, result, xfers, hPendingReqs, DevStatus,
                 HdwSgDmaList, regs, lock, ui, int, wiVars, fault>>

-----------------------------------------------------------------------------
(***************************************************************************)
(* The window.  One poll reads IntEnable, then Control, and answers a      *)
(* device that is to run with an interrupt of the direction it polls.      *)
(***************************************************************************)
uiUnchanged == UNCHANGED <<cfgVars, queueVars, xfers, drvVars, lock, int, wiVars, fault>>

FirstDir == IF runmode = "eAutoOutput" THEN "out" ELSE "in"

\* In full duplex the outputs are polled after the inputs.
Polled(d) ==
  IF d = "in" /\ runmode = "eAutoDuplex" THEN [pc |-> "output", dir |-> "in"] ELSE [pc |-> "idle", dir |-> "in"]

UiReadEnable(d) ==
  /\ runmode # "eManual"
  /\ \/ ui.pc = "idle" /\ d = FirstDir
     \/ ui.pc = "output" /\ d = "out"
  /\ ui' = IF d \in regs.IntEnable THEN [pc |-> "control", dir |-> d] ELSE Polled(d)
  /\ uiUnchanged /\ UNCHANGED <<runmode, regs>>

\* Mutant of UiReadControl: the go bit is not looked at.
UiReadControlNoGo ==
  /\ ui.pc = "control"
  /\ ui' = [ui EXCEPT !.pc = "inject"]
  /\ uiUnchanged /\ UNCHANGED <<runmode, regs>>

UiReadControl ==
  /\ ui.pc = "control"
  /\ ui' = IF "GO" \in regs.Control THEN [ui EXCEPT !.pc = "inject"] ELSE Polled(ui.dir)
  /\ uiUnchanged /\ UNCHANGED <<runmode, regs>>

\* InjectAnyErrs reads IntEnable again.
UiInject ==
  /\ ui.pc = "inject"
  /\ \/ UNCHANGED regs
     \/ /\ "ALERT" \in regs.IntEnable
        /\ regs' = [regs EXCEPT !.IntID = @ \cup {"ALERT"}]
  /\ ui' = [ui EXCEPT !.pc = "answer"]
  /\ uiUnchanged /\ UNCHANGED runmode

UiAnswer ==
  /\ ui.pc = "answer"
  /\ regs' = [regs EXCEPT !.IntID = @ \cup {ui.dir}]
  /\ ui' = [ui EXCEPT !.pc = "ack"]
  /\ uiUnchanged /\ UNCHANGED runmode

\* Mutant of UiAck: the go bit stays set.
UiAckKeepsGo ==
  /\ ui.pc = "ack"
  /\ regs' = [regs EXCEPT !.MesgID = 1]
  /\ ui' = Polled(ui.dir)
  /\ uiUnchanged /\ UNCHANGED runmode

UiAck ==
  /\ ui.pc = "ack"
  /\ regs' = [regs EXCEPT !.Control = @ \ {"GO"}, !.MesgID = 1]
  /\ ui' = Polled(ui.dir)
  /\ uiUnchanged /\ UNCHANGED runmode

\* An interrupt that no i/o is the reason for.
UiSpurious ==
  /\ xtra /\ runmode # "eManual"
  /\ ui.pc = "idle"
  /\ regs' = [regs EXCEPT !.MesgID = 1]
  /\ uiUnchanged /\ UNCHANGED <<runmode, ui>>

\* The user takes the window out of its automatic mode.
UiManual ==
  /\ runmode # "eManual"
  /\ ui.pc = "idle"
  /\ runmode' = "eManual"
  /\ regs' = [regs EXCEPT !.IntID = @ \cup {"ALERT"}, !.MesgID = 1]
  /\ uiUnchanged /\ UNCHANGED ui

-----------------------------------------------------------------------------
(***************************************************************************)
(* The interrupt thread of the bus driver, with the ISR it calls under the *)
(* interrupt spin lock and the DPC that follows.                           *)
(***************************************************************************)
\* MadDevAnalyzeReqType
Analyze(IntID, Control) ==
  IF Dir \subseteq IntID THEN "eMltplIO"
  ELSE IF Dir \cap IntID = {} THEN "eNoIO"
  ELSE TypeOf(bDmaEnabled, IF "in" \in IntID THEN "in" ELSE "out", "CHAINED_DMA" \in Control)

At(p) == int.pc = p
Int(p) == int' = [int EXCEPT !.pc = p]

\* The request whose memory the device would move, by the registers.
Target == IF int.type \in SgDmaTypes THEN HdwSgDmaList
          ELSE IF int.type \in ReqTypes THEN regs.HostAddr ELSE NoRequest

IntAnalyze ==
  /\ At("poll") /\ regs.MesgID # 0
  /\ LET t == Analyze(regs.IntID, regs.Control)
     IN  int' = [int EXCEPT !.pc = IF t = "eNoIO" THEN "enter" ELSE "move", !.type = t]
  /\ UNCHANGED <<cfgVars, runmode, queueVars, xfers, drvVars, regs, lock, ui, wiVars, fault>>

\* Data moves; or it does not, for want of memory or of device; or a chain
\* breaks in the middle.
IntMove ==
  /\ At("move") /\ Target # NoRequest
  /\ \E ok, part \in BOOLEAN :
       /\ ok => part
       /\ part /\ ~ok => int.type \in SgDmaTypes
       /\ xfers' = IF part /\ xfers[Target] < MaxXfers THEN [xfers EXCEPT ![Target] = @ + 1] ELSE xfers
       /\ regs' = IF ok THEN regs ELSE [regs EXCEPT !.IntID = @ \cup {"ALERT"}]
  /\ Int("enter")
  /\ UNCHANGED <<cfgVars, runmode, queueVars, drvVars, lock, ui, wiVars, fault>>

\* Mutant of IntInvalid: a transfer with no host address is left out without an error.
IntInvalidSilent ==
  /\ At("move") /\ Target = NoRequest
  /\ Int("enter")
  /\ UNCHANGED <<cfgVars, runmode, queueVars, xfers, drvVars, regs, lock, ui, wiVars, fault>>

\* An interrupt that names a transfer with no host address.
IntInvalid ==
  /\ At("move") /\ Target = NoRequest
  /\ regs' = IF int.type \in BufrdTypes \cup OneDmaTypes
             THEN [regs EXCEPT !.IntID = @ \cup {"ALERT"}] ELSE regs
  /\ Int("enter")
  /\ UNCHANGED <<cfgVars, runmode, queueVars, xfers, drvVars, lock, ui, wiVars, fault>>

\* MadEvtISR keeps the registers for the DPC.
IsrSnapshot ==
  /\ At("enter") /\ lock = "free"
  /\ lock' = "isr"
  /\ int' = [int EXCEPT !.pc = "check", !.IntID = regs.IntID, !.Control = regs.Control]
  /\ UNCHANGED <<cfgVars, runmode, queueVars, xfers, drvVars, regs, ui, wiVars, fault>>

IsrCheck ==
  /\ At("check")
  /\ Int(IF regs.IntID = {} THEN "reject" ELSE "reset")
  /\ UNCHANGED <<cfgVars, runmode, queueVars, xfers, drvVars, regs, lock, ui, wiVars, fault>>

\* "extraneous interrupt"
IsrReject ==
  /\ At("reject")
  /\ regs' = [regs EXCEPT !.MesgID = 0]
  /\ lock' = "free"
  /\ Int("poll")
  /\ UNCHANGED <<cfgVars, runmode, queueVars, xfers, drvVars, ui, wiVars, fault>>

\* Mutant of IsrReset: the interrupts are masked, their cause is kept.
IsrResetKeepsCause ==
  /\ At("reset")
  /\ regs' = [regs EXCEPT !.IntEnable = {}]
  /\ lock' = "free"
  /\ Int("lookup")
  /\ UNCHANGED <<cfgVars, runmode, queueVars, xfers, drvVars, ui, wiVars, fault>>

\* The interrupts are masked and the cause, the control and the message are
\* withdrawn: the device is idle before its data is handed on.
IsrReset ==
  /\ At("reset")
  /\ regs' = [regs EXCEPT !.IntEnable = {}, !.IntID = {}, !.Control = {}, !.MesgID = 0]
  /\ lock' = "free"
  /\ Int("lookup")
  /\ UNCHANGED <<cfgVars, runmode, queueVars, xfers, drvVars, ui, wiVars, fault>>

\* MadDevDetermineRequest
Determined == Analyze(int.IntID, int.Control)
Found == IF Determined \in ReqTypes THEN hPendingReqs[Determined] ELSE NoRequest
Error == "ALERT" \in int.IntID

\* The context is overwritten even if the item is queued already.
DpcEnqueue ==
  /\ At("lookup") /\ Determined \in ReqTypes
  /\ Error => Found # NoRequest
  /\ wi' = [req |-> Found, type |-> Determined, NtStatus |-> IF Error THEN "error" ELSE "success"]
  /\ wiQueued' = TRUE
  /\ Int("finish")
  /\ UNCHANGED <<cfgVars, runmode, queueVars, xfers, drvVars, regs, lock, ui, worker, fault>>

\* "undefined i/o completion returned from device"
DpcUndefined ==
  /\ At("lookup") /\ Determined \notin ReqTypes
  /\ ~Error
  /\ Int("finish")
  /\ UNCHANGED <<cfgVars, runmode, queueVars, xfers, drvVars, regs, lock, ui, wiVars, fault>>

DpcError ==
  /\ At("lookup")
  /\ Error /\ Found = NoRequest
  /\ DevStatus' = TRUE
  /\ Int("any")
  /\ UNCHANGED <<cfgVars, runmode, queueVars, xfers, hPendingReqs, hDmaXaxn, HdwSgDmaList,
                 regs, lock, ui, wiVars, fault>>

\* MadCompleteAnyPendingIOs
Pending == {t \in ReqTypes : hPendingReqs[t] # NoRequest}

DpcCompleteAny(t) ==
  /\ At("any")
  /\ t \in Pending /\ \A s \in Pending : Order[t] <= Order[s]
  /\ Complete(hPendingReqs[t], "error")
  /\ hDmaXaxn' = IF t \in DmaTypes THEN NoRequest ELSE hDmaXaxn
  /\ int' = [int EXCEPT !.pc = "wipe", !.type = t]
  /\ UNCHANGED <<cfgVars, runmode, pc, type, xfers, hPendingReqs, DevStatus, HdwSgDmaList,
                 regs, lock, ui, wiVars>>

DpcWipe ==
  /\ At("wipe")
  /\ hPendingReqs' = [hPendingReqs EXCEPT ![int.type] = NoRequest]
  /\ Int("any")
  /\ UNCHANGED <<cfgVars, runmode, queueVars, xfers, hDmaXaxn, DevStatus, HdwSgDmaList,
                 regs, lock, ui, wiVars, fault>>

DpcAnyEnd ==
  /\ At("any") /\ Pending = {}
  /\ Int("finish")
  /\ UNCHANGED <<cfgVars, runmode, queueVars, xfers, drvVars, regs, lock, ui, wiVars, fault>>

\* All interrupts are enabled again and the host address is cleared, whoever
\* has programmed the device by now.
DpcFinish ==
  /\ At("finish") /\ lock = "free"
  /\ regs' = [regs EXCEPT !.IntEnable = IntBits, !.HostAddr = NoRequest]
  /\ Int("poll")
  /\ UNCHANGED <<cfgVars, runmode, queueVars, xfers, drvVars, lock, ui, wiVars, fault>>

-----------------------------------------------------------------------------
(***************************************************************************)
(* The driver's work item: MadEvtBufrdIoWorkItem or MadEvtDmaWorkItem.     *)
(* Only the latter has variables of its own for what it completes.         *)
(***************************************************************************)
WorkerAt(w, p) == worker[w].pc = p

BufrdWorkItem(w) ==
  /\ ~bDmaEnabled
  /\ WorkerAt(w, "idle") /\ wiQueued
  /\ wiQueued' = FALSE
  /\ worker' = [worker EXCEPT ![w].pc = "complete"]
  /\ UNCHANGED <<cfgVars, runmode, queueVars, xfers, drvVars, regs, lock, ui, int, wi, fault>>

\* The framework is asked about the transaction before it is deleted.
DmaWorkItem(w) ==
  /\ bDmaEnabled
  /\ WorkerAt(w, "idle") /\ wiQueued
  /\ wiQueued' = FALSE
  /\ worker' = [worker EXCEPT ![w] = [pc |-> "delete", req |-> wi.req, NtStatus |-> wi.NtStatus]]
  /\ fault' = IF hDmaXaxn = NoRequest THEN "null transaction" ELSE fault
  /\ UNCHANGED <<cfgVars, runmode, queueVars, xfers, drvVars, regs, lock, ui, int, wi>>

DeleteXaxn(w) ==
  /\ WorkerAt(w, "delete")
  /\ hDmaXaxn' = NoRequest
  /\ worker' = [worker EXCEPT ![w].pc = "complete"]
  /\ UNCHANGED <<cfgVars, runmode, queueVars, xfers, hPendingReqs, DevStatus, HdwSgDmaList,
                 regs, lock, ui, int, wiQueued, wi, fault>>

Completing(w) == IF bDmaEnabled THEN [req |-> worker[w].req, NtStatus |-> worker[w].NtStatus]
                 ELSE [req |-> wi.req, NtStatus |-> wi.NtStatus]

WorkerCompletes(w) ==
  /\ WorkerAt(w, "complete")
  /\ Complete(Completing(w).req, Completing(w).NtStatus)
  /\ worker' = [worker EXCEPT ![w].pc = "clear"]
  /\ UNCHANGED <<cfgVars, runmode, pc, type, xfers, drvVars, regs, lock, ui, int, wiQueued, wi>>

\* The entry is cleared after the completion, whoever has it by now.
ClearPending(w) ==
  /\ WorkerAt(w, "clear")
  /\ hPendingReqs' = [hPendingReqs EXCEPT ![wi.type] = NoRequest]
  /\ worker' = [worker EXCEPT ![w] = IdleWorker]
  /\ UNCHANGED <<cfgVars, runmode, queueVars, xfers, hDmaXaxn, DevStatus, HdwSgDmaList,
                 regs, lock, ui, int, wiQueued, wi, fault>>

-----------------------------------------------------------------------------
QueueStep(r) ==
  \/ \E d \in Dir, chained \in BOOLEAN : Submit(r, d, chained)
  \/ Deliver(r) \/ Ready(r) \/ NotReady(r) \/ ClearDevStatus(r) \/ Refuse(r) \/ SetPending(r)
  \/ ProgramRegs(r) \/ SetGo(r) \/ RecordXaxn(r)

UiStep ==
  \/ \E d \in Dir : UiReadEnable(d)
  \/ UiReadControl \/ UiInject \/ UiAnswer \/ UiAck \/ UiSpurious \/ UiManual

IntStep ==
  \/ IntAnalyze \/ IntMove \/ IntInvalid \/ IsrSnapshot \/ IsrCheck \/ IsrReject \/ IsrReset
  \/ DpcEnqueue \/ DpcUndefined \/ DpcError \/ DpcWipe \/ DpcAnyEnd \/ DpcFinish
  \/ \E t \in ReqTypes : DpcCompleteAny(t)

WorkerStep(w) ==
  BufrdWorkItem(w) \/ DmaWorkItem(w) \/ DeleteXaxn(w) \/ WorkerCompletes(w) \/ ClearPending(w)

\* After a bug check nothing runs.
Next ==
  /\ fault = "none"
  /\ \/ \E r \in Requests : QueueStep(r)
     \/ UiStep
     \/ IntStep
     \/ \E w \in Workers : WorkerStep(w)

Spec == Init /\ [][Next]_vars

-----------------------------------------------------------------------------
\* The types of what the driver, the window and the interrupt thread share.
Registers ==
  [IntEnable : SUBSET IntBits, Control : SUBSET ControlBits, IntID : SUBSET IntBits, MesgID : {0, 1},
   HostAddr : Handle]

IntState ==
  [pc : {"poll", "move", "enter", "check", "reject", "reset", "lookup", "any", "wipe", "finish"},
   type : ReqTypes \cup {"eNoIO", "eMltplIO"}, IntID : SUBSET IntBits, Control : SUBSET ControlBits]

Status == {"success", "error"}
WorkContext == [req : Handle, type : ReqTypes, NtStatus : Status]
WorkerState == [pc : {"idle", "delete", "complete", "clear"}, req : Handle, NtStatus : Status]

TypeOK ==
  /\ bDmaEnabled \in BOOLEAN /\ xtra \in XtraInts
  /\ runmode \in RunModes \cup {"eManual"}
  /\ pc \in [Requests -> {"new", "queued", "verify", "clear", "ready", "program", "go", "record", "done"}]
  /\ type \in [Requests -> ReqTypes \cup {"eNoIO"}]
  /\ owner \in Handle
  /\ result \in [Requests -> {"none"} \cup Status]
  /\ xfers \in [Requests -> 0 .. MaxXfers]
  /\ hPendingReqs \in [ReqTypes -> Handle]
  /\ hDmaXaxn \in Handle /\ DevStatus \in BOOLEAN /\ HdwSgDmaList \in Handle
  /\ regs \in Registers
  /\ lock \in {"free", "driver", "isr"}
  /\ ui \in [pc : {"idle", "output", "control", "inject", "answer", "ack"}, dir : Dir]
  /\ int \in IntState
  /\ wiQueued \in BOOLEAN /\ wi \in WorkContext
  /\ worker \in [Workers -> WorkerState]
  /\ fault \in {"none", "null request", "null transaction", "completed twice"}

\* The window serves one direction and issues no interrupts of its own.
Quiet == runmode \in {"eAutoInput", "eAutoOutput"} /\ ~xtra

\* The device moves data to or from the memory of the request the driver
\* holds, never of one completed: not after an extraneous interrupt, nor after
\* an interrupt of the wrong direction or the end of the automatic mode.
TransferIsOwn == Quiet /\ At("move") /\ Target # NoRequest => Target = owner

\* No request's data is moved twice: the ISR withdraws the cause before the
\* interrupt thread looks at the registers again, and the window the go bit
\* before it looks for the next i/o.
TransferOnce == Quiet => \A r \in Requests : xfers[r] <= 1

\* A request that the work item completes with success has had its data moved,
\* though the interrupt thread, the ISR and the window each touch IntID.
SuccessMeansTransferred ==
  Quiet => \A r \in Requests : result[r] = "success" => xfers[r] > 0

\* While all requests have one type, none is completed twice: not by the work
\* item, nor by the DPC that completes whatever is pending after an error.
OneType == \A r, s \in Requests : {type[r], type[s]} \subseteq ReqTypes => type[r] = type[s]
CompletedOnce == Quiet /\ OneType => fault # "completed twice"

\* ASSERT(hRequest != NULL) in MadDevDetermineRequest.
RequestDetermined == Quiet /\ At("lookup") /\ Determined \in ReqTypes => Found # NoRequest
=============================================================================
