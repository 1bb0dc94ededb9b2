---------------------------- MODULE MadWdfIo_proof ----------------------------
(***************************************************************************)
(* The invariant of MadWdfIoInv holds for every number of requests and     *)
(* workers, and with it, while the window serves one direction and issues  *)
(* no extraneous interrupts: the device moves the data of the request the  *)
(* driver holds and of no other, moves it once, a request that succeeds    *)
(* has been transferred, and while all requests have one type none is      *)
(* completed twice.                                                        *)
(*                                                                         *)
(* For every action there is a lemma that it keeps the types, and one that *)
(* it keeps QuietInv, with a step for each part of the invariant.          *)
(***************************************************************************)
EXTENDS MadWdfIoInv, TLAPS

\* A completion keeps the types.
LEMMA CompleteType ==
  ASSUME TypeOK, NEW h \in Handle, NEW status \in Status, Complete(h, status)
  PROVE  /\ result' \in [Requests -> {"none"} \cup Status]
         /\ owner' \in Handle
         /\ fault' \in {"none", "null request", "null transaction", "completed twice"}
<1>1. CASE h = NoRequest \/ result[h] # "none"
  BY <1>1 DEF Complete, TypeOK
<1>2. CASE ~(h = NoRequest \/ result[h] # "none")
  <2>1. h \in Requests /\ NoRequest \in Handle
    BY <1>2 DEF Handle
  <2>2. result' = [result EXCEPT ![h] = status] /\ (owner' = NoRequest \/ owner' = owner) /\ fault' = fault
    BY <1>2 DEF Complete
  <2> QED
    BY <2>1, <2>2 DEF TypeOK
<1> QED
  BY <1>1, <1>2

\* Submit keeps the types.
LEMMA SubmitType ==
  ASSUME TypeOK, NEW r \in Requests, NEW d \in Dir, NEW chained \in BOOLEAN, Submit(r, d, chained)
  PROVE  TypeOK'
<1>1. type' \in [Requests -> ReqTypes \cup {"eNoIO"}]
  BY RequestsAssumption, MaxXfersAssumption DEF Submit, cfgVars, queueVars, drvVars, wiVars,
        TypeOK, Served, TypeOf, ReqTypes, BufrdTypes, DmaTypes, OneDmaTypes, SgDmaTypes, Goto
<1> QED
  BY <1>1 DEF TypeOK, cfgVars, queueVars, drvVars, wiVars, Submit, Goto

\* Deliver keeps the types.
LEMMA DeliverType ==
  ASSUME TypeOK, NEW r \in Requests, Deliver(r)
  PROVE  TypeOK'
<1>1. NoRequest \in Handle /\ r \in Handle
  BY DEF Handle
<1> QED
  BY <1>1 DEF TypeOK, cfgVars, queueVars, drvVars, wiVars, Deliver, Goto

\* Ready keeps the types.
LEMMA ReadyType ==
  ASSUME TypeOK, NEW r \in Requests, Ready(r)
  PROVE  TypeOK'
BY RequestsAssumption DEF TypeOK, cfgVars, queueVars, drvVars, wiVars, Ready, Goto

\* NotReady keeps the types.
LEMMA NotReadyType ==
  ASSUME TypeOK, NEW r \in Requests, NotReady(r)
  PROVE  TypeOK'
<1>1. r \in Handle /\ "error" \in Status
  BY DEF Handle, Status
<1>2. /\ result' \in [Requests -> {"none"} \cup Status] /\ owner' \in Handle
      /\ fault' \in {"none", "null request", "null transaction", "completed twice"}
  BY <1>1, CompleteType, RequestsAssumption, MaxXfersAssumption DEF NotReady, cfgVars,
        queueVars, drvVars, wiVars, TypeOK, Goto
<1> QED
  BY <1>1, <1>2 DEF TypeOK, cfgVars, queueVars, drvVars, wiVars, NotReady, Goto

\* ClearDevStatus keeps the types.
LEMMA ClearDevStatusType ==
  ASSUME TypeOK, NEW r \in Requests, ClearDevStatus(r)
  PROVE  TypeOK'
BY RequestsAssumption DEF TypeOK, cfgVars, queueVars, drvVars, wiVars, ClearDevStatus, Goto

\* Refuse keeps the types.
LEMMA RefuseType ==
  ASSUME TypeOK, NEW r \in Requests, Refuse(r)
  PROVE  TypeOK'
<1>1. r \in Handle /\ "error" \in Status
  BY DEF Handle, Status
<1>2. /\ result' \in [Requests -> {"none"} \cup Status] /\ owner' \in Handle
      /\ fault' \in {"none", "null request", "null transaction", "completed twice"}
  BY <1>1, CompleteType, RequestsAssumption, MaxXfersAssumption DEF Refuse, cfgVars, queueVars,
        drvVars, wiVars, TypeOK, Goto
<1> QED
  BY <1>1, <1>2 DEF TypeOK, cfgVars, queueVars, drvVars, wiVars, Refuse, Goto

\* SetPending keeps the types.
LEMMA SetPendingType ==
  ASSUME TypeOK, NEW r \in Requests, SetPending(r)
  PROVE  TypeOK'
<1>1. NoRequest \in Handle /\ r \in Handle
  BY DEF Handle
<1> QED
  BY <1>1 DEF TypeOK, cfgVars, queueVars, drvVars, wiVars, SetPending, Goto

\* ProgramRegs keeps the types.
LEMMA ProgramRegsType ==
  ASSUME TypeOK, NEW r \in Requests, ProgramRegs(r)
  PROVE  TypeOK'
<1>1. r \in Handle /\ NoRequest \in Handle
  BY DEF Handle
<1>2. ControlReg(r) \in SUBSET ControlBits
  BY DEF ControlReg, ControlBits
<1>3. {"ALERT", DirOf(type[r])} \in SUBSET IntBits
  BY DEF DirOf, IntBits, Dir
<1>4. regs' \in Registers
  BY <1>1, <1>2, <1>3, RequestsAssumption, MaxXfersAssumption DEF ProgramRegs, cfgVars,
        queueVars, drvVars, wiVars, TypeOK, Registers, Goto
<1> QED
  BY <1>1, <1>2, <1>3, <1>4 DEF TypeOK, cfgVars, queueVars, drvVars, wiVars, ProgramRegs, Goto

\* SetGo keeps the types.
LEMMA SetGoType ==
  ASSUME TypeOK, NEW r \in Requests, SetGo(r)
  PROVE  TypeOK'
<1>1. regs' \in Registers
  BY RequestsAssumption, MaxXfersAssumption DEF SetGo, cfgVars, queueVars, drvVars, wiVars,
        TypeOK, Registers, ControlReg, ControlBits, Goto
<1> QED
  BY <1>1 DEF TypeOK, cfgVars, queueVars, drvVars, wiVars, SetGo, Goto

\* RecordXaxn keeps the types.
LEMMA RecordXaxnType ==
  ASSUME TypeOK, NEW r \in Requests, RecordXaxn(r)
  PROVE  TypeOK'
<1>1. NoRequest \in Handle /\ r \in Handle
  BY DEF Handle
<1> QED
  BY <1>1 DEF TypeOK, cfgVars, queueVars, drvVars, wiVars, RecordXaxn, Goto

\* UiReadEnable keeps the types.
LEMMA UiReadEnableType ==
  ASSUME TypeOK, NEW d \in Dir, UiReadEnable(d)
  PROVE  TypeOK'
<1>1. ui' \in [pc : {"idle", "output", "control", "inject", "answer", "ack"}, dir : Dir]
  BY RequestsAssumption, MaxXfersAssumption DEF UiReadEnable, cfgVars, queueVars, drvVars,
        wiVars, TypeOK, Dir, Polled, uiUnchanged
<1> QED
  BY <1>1 DEF TypeOK, cfgVars, queueVars, drvVars, wiVars, UiReadEnable, uiUnchanged

\* UiReadControl keeps the types.
LEMMA UiReadControlType ==
  ASSUME TypeOK, UiReadControl
  PROVE  TypeOK'
<1>1. ui' \in [pc : {"idle", "output", "control", "inject", "answer", "ack"}, dir : Dir]
  BY RequestsAssumption, MaxXfersAssumption DEF UiReadControl, cfgVars, queueVars, drvVars,
        wiVars, TypeOK, Dir, Polled, uiUnchanged
<1> QED
  BY <1>1 DEF TypeOK, cfgVars, queueVars, drvVars, wiVars, UiReadControl, uiUnchanged

\* UiInject keeps the types.
LEMMA UiInjectType ==
  ASSUME TypeOK, UiInject
  PROVE  TypeOK'
<1>1. ui' \in [pc : {"idle", "output", "control", "inject", "answer", "ack"}, dir : Dir]
  BY RequestsAssumption, MaxXfersAssumption DEF UiInject, cfgVars, queueVars, drvVars, wiVars,
        TypeOK, Dir, Polled, uiUnchanged
<1>2. regs.IntID \cup {"ALERT"} \in SUBSET IntBits
  BY DEF TypeOK, Registers, IntBits
<1>3. regs' \in Registers
  BY <1>2, RequestsAssumption, MaxXfersAssumption DEF UiInject, cfgVars, queueVars, drvVars,
        wiVars, TypeOK, Registers, uiUnchanged
<1> QED
  BY <1>1, <1>2, <1>3 DEF TypeOK, cfgVars, queueVars, drvVars, wiVars, UiInject, uiUnchanged

\* UiAnswer keeps the types.
LEMMA UiAnswerType ==
  ASSUME TypeOK, UiAnswer
  PROVE  TypeOK'
<1>1. ui' \in [pc : {"idle", "output", "control", "inject", "answer", "ack"}, dir : Dir]
  BY RequestsAssumption, MaxXfersAssumption DEF UiAnswer, cfgVars, queueVars, drvVars, wiVars,
        TypeOK, Dir, Polled, uiUnchanged
<1>2. regs' \in Registers
  BY RequestsAssumption, MaxXfersAssumption DEF UiAnswer, cfgVars, queueVars, drvVars, wiVars,
        TypeOK, Registers, IntBits, Dir, uiUnchanged
<1> QED
  BY <1>1, <1>2 DEF TypeOK, cfgVars, queueVars, drvVars, wiVars, UiAnswer, uiUnchanged

\* UiAck keeps the types.
LEMMA UiAckType ==
  ASSUME TypeOK, UiAck
  PROVE  TypeOK'
<1>1. ui' \in [pc : {"idle", "output", "control", "inject", "answer", "ack"}, dir : Dir]
  BY RequestsAssumption, MaxXfersAssumption DEF UiAck, cfgVars, queueVars, drvVars, wiVars,
        TypeOK, Dir, Polled, uiUnchanged
<1>2. regs' \in Registers
  BY RequestsAssumption, MaxXfersAssumption DEF UiAck, cfgVars, queueVars, drvVars, wiVars,
        TypeOK, Registers, uiUnchanged
<1> QED
  BY <1>1, <1>2 DEF TypeOK, cfgVars, queueVars, drvVars, wiVars, UiAck, uiUnchanged

\* UiSpurious keeps the types.
LEMMA UiSpuriousType ==
  ASSUME TypeOK, UiSpurious
  PROVE  TypeOK'
<1>1. regs' \in Registers
  BY RequestsAssumption, MaxXfersAssumption DEF UiSpurious, cfgVars, queueVars, drvVars, wiVars,
        TypeOK, Registers, uiUnchanged
<1> QED
  BY <1>1 DEF TypeOK, cfgVars, queueVars, drvVars, wiVars, UiSpurious, uiUnchanged

\* UiManual keeps the types.
LEMMA UiManualType ==
  ASSUME TypeOK, UiManual
  PROVE  TypeOK'
<1>1. regs' \in Registers
  BY RequestsAssumption, MaxXfersAssumption DEF UiManual, cfgVars, queueVars, drvVars, wiVars,
        TypeOK, Registers, IntBits, uiUnchanged
<1> QED
  BY <1>1 DEF TypeOK, cfgVars, queueVars, drvVars, wiVars, UiManual, uiUnchanged

\* IntAnalyze keeps the types.
LEMMA IntAnalyzeType ==
  ASSUME TypeOK, IntAnalyze
  PROVE  TypeOK'
<1>1. int' \in IntState
  BY RequestsAssumption, MaxXfersAssumption DEF IntAnalyze, cfgVars, queueVars, drvVars, wiVars,
        TypeOK, IntState, At, Int, Analyze, TypeOf, ReqTypes, BufrdTypes, DmaTypes, OneDmaTypes,
        SgDmaTypes
<1> QED
  BY <1>1 DEF TypeOK, cfgVars, queueVars, drvVars, wiVars, IntAnalyze

\* IntMove keeps the types.
LEMMA IntMoveType ==
  ASSUME TypeOK, IntMove
  PROVE  TypeOK'
<1>1. int' \in IntState
  BY RequestsAssumption, MaxXfersAssumption DEF IntMove, cfgVars, queueVars, drvVars, wiVars,
        TypeOK, IntState, At, Int
<1>2. regs.IntID \cup {"ALERT"} \in SUBSET IntBits
  BY DEF TypeOK, Registers, IntBits
<1>3. regs' \in Registers
  BY <1>2, RequestsAssumption, MaxXfersAssumption DEF IntMove, cfgVars, queueVars, drvVars,
        wiVars, TypeOK, Registers
<1>4. ASSUME xfers[Target] < MaxXfers, Target \in Requests
      PROVE  xfers[Target] + 1 \in 0 .. MaxXfers
  <2>1. xfers[Target] \in 0 .. MaxXfers /\ MaxXfers \in Nat
    BY <1>4, MaxXfersAssumption DEF TypeOK
  <2> QED
    BY <1>4, <2>1
<1>5. xfers' \in [Requests -> 0 .. MaxXfers]
  BY <1>4, RequestsAssumption, MaxXfersAssumption DEF IntMove, cfgVars, queueVars, drvVars,
        wiVars, TypeOK
<1> QED
  BY <1>1, <1>2, <1>3, <1>4, <1>5 DEF TypeOK, cfgVars, queueVars, drvVars, wiVars, IntMove

\* IntInvalid keeps the types.
LEMMA IntInvalidType ==
  ASSUME TypeOK, IntInvalid
  PROVE  TypeOK'
<1>1. int' \in IntState
  BY RequestsAssumption, MaxXfersAssumption DEF IntInvalid, cfgVars, queueVars, drvVars, wiVars,
        TypeOK, IntState, At, Int
<1>2. regs' \in Registers
  BY RequestsAssumption, MaxXfersAssumption DEF IntInvalid, cfgVars, queueVars, drvVars, wiVars,
        TypeOK, Registers, IntBits
<1> QED
  BY <1>1, <1>2 DEF TypeOK, cfgVars, queueVars, drvVars, wiVars, IntInvalid

\* IsrSnapshot keeps the types.
LEMMA IsrSnapshotType ==
  ASSUME TypeOK, IsrSnapshot
  PROVE  TypeOK'
<1>1. int' \in IntState
  BY RequestsAssumption, MaxXfersAssumption DEF IsrSnapshot, cfgVars, queueVars, drvVars,
        wiVars, TypeOK, IntState, At, Int, Registers
<1> QED
  BY <1>1 DEF TypeOK, cfgVars, queueVars, drvVars, wiVars, IsrSnapshot

\* IsrCheck keeps the types.
LEMMA IsrCheckType ==
  ASSUME TypeOK, IsrCheck
  PROVE  TypeOK'
<1>1. int' \in IntState
  BY RequestsAssumption, MaxXfersAssumption DEF IsrCheck, cfgVars, queueVars, drvVars, wiVars,
        TypeOK, IntState, At, Int
<1> QED
  BY <1>1 DEF TypeOK, cfgVars, queueVars, drvVars, wiVars, IsrCheck

\* IsrReject keeps the types.
LEMMA IsrRejectType ==
  ASSUME TypeOK, IsrReject
  PROVE  TypeOK'
<1>1. int' \in IntState
  BY RequestsAssumption, MaxXfersAssumption DEF IsrReject, cfgVars, queueVars, drvVars, wiVars,
        TypeOK, IntState, At, Int
<1>2. regs' \in Registers
  BY RequestsAssumption, MaxXfersAssumption DEF IsrReject, cfgVars, queueVars, drvVars, wiVars,
        TypeOK, Registers
<1> QED
  BY <1>1, <1>2 DEF TypeOK, cfgVars, queueVars, drvVars, wiVars, IsrReject

\* IsrReset keeps the types.
LEMMA IsrResetType ==
  ASSUME TypeOK, IsrReset
  PROVE  TypeOK'
<1>1. int' \in IntState
  BY RequestsAssumption, MaxXfersAssumption DEF IsrReset, cfgVars, queueVars, drvVars, wiVars,
        TypeOK, IntState, At, Int
<1>2. regs' \in Registers
  BY RequestsAssumption, MaxXfersAssumption DEF IsrReset, cfgVars, queueVars, drvVars, wiVars,
        TypeOK, Registers
<1> QED
  BY <1>1, <1>2 DEF TypeOK, cfgVars, queueVars, drvVars, wiVars, IsrReset

\* DpcEnqueue keeps the types.
LEMMA DpcEnqueueType ==
  ASSUME TypeOK, DpcEnqueue
  PROVE  TypeOK'
<1>1. int' \in IntState
  BY RequestsAssumption, MaxXfersAssumption DEF DpcEnqueue, cfgVars, queueVars, drvVars, wiVars,
        TypeOK, IntState, At, Int
<1>2. wi' \in WorkContext
  BY RequestsAssumption, MaxXfersAssumption DEF DpcEnqueue, cfgVars, queueVars, drvVars, wiVars,
        TypeOK, Found, WorkContext, Status
<1> QED
  BY <1>1, <1>2 DEF TypeOK, cfgVars, queueVars, drvVars, wiVars, DpcEnqueue

\* DpcUndefined keeps the types.
LEMMA DpcUndefinedType ==
  ASSUME TypeOK, DpcUndefined
  PROVE  TypeOK'
<1>1. int' \in IntState
  BY RequestsAssumption, MaxXfersAssumption DEF DpcUndefined, cfgVars, queueVars, drvVars,
        wiVars, TypeOK, IntState, At, Int
<1> QED
  BY <1>1 DEF TypeOK, cfgVars, queueVars, drvVars, wiVars, DpcUndefined

\* DpcError keeps the types.
LEMMA DpcErrorType ==
  ASSUME TypeOK, DpcError
  PROVE  TypeOK'
<1>1. int' \in IntState
  BY RequestsAssumption, MaxXfersAssumption DEF DpcError, cfgVars, queueVars, drvVars, wiVars,
        TypeOK, IntState, At, Int
<1> QED
  BY <1>1 DEF TypeOK, cfgVars, queueVars, drvVars, wiVars, DpcError

\* DpcCompleteAny keeps the types.
LEMMA DpcCompleteAnyType ==
  ASSUME TypeOK, NEW t \in ReqTypes, DpcCompleteAny(t)
  PROVE  TypeOK'
<1>1. NoRequest \in Handle
  BY DEF Handle
<1>2. int' \in IntState
  BY <1>1, RequestsAssumption, MaxXfersAssumption DEF DpcCompleteAny, cfgVars, queueVars,
        drvVars, wiVars, TypeOK, IntState, At, Int
<1>3. /\ result' \in [Requests -> {"none"} \cup Status] /\ owner' \in Handle
      /\ fault' \in {"none", "null request", "null transaction", "completed twice"}
  BY <1>1, RequestsAssumption, MaxXfersAssumption DEF DpcCompleteAny, cfgVars, queueVars,
        drvVars, wiVars, TypeOK, Complete, Status
<1> QED
  BY <1>1, <1>2, <1>3 DEF TypeOK, cfgVars, queueVars, drvVars, wiVars, DpcCompleteAny

\* DpcWipe keeps the types.
LEMMA DpcWipeType ==
  ASSUME TypeOK, DpcWipe
  PROVE  TypeOK'
<1>1. NoRequest \in Handle
  BY DEF Handle
<1>2. int' \in IntState
  BY <1>1, RequestsAssumption, MaxXfersAssumption DEF DpcWipe, cfgVars, queueVars, drvVars,
        wiVars, TypeOK, IntState, At, Int
<1> QED
  BY <1>1, <1>2 DEF TypeOK, cfgVars, queueVars, drvVars, wiVars, DpcWipe

\* DpcAnyEnd keeps the types.
LEMMA DpcAnyEndType ==
  ASSUME TypeOK, DpcAnyEnd
  PROVE  TypeOK'
<1>1. int' \in IntState
  BY RequestsAssumption, MaxXfersAssumption DEF DpcAnyEnd, cfgVars, queueVars, drvVars, wiVars,
        TypeOK, IntState, At, Int
<1> QED
  BY <1>1 DEF TypeOK, cfgVars, queueVars, drvVars, wiVars, DpcAnyEnd

\* DpcFinish keeps the types.
LEMMA DpcFinishType ==
  ASSUME TypeOK, DpcFinish
  PROVE  TypeOK'
<1>1. int' \in IntState
  BY RequestsAssumption, MaxXfersAssumption DEF DpcFinish, cfgVars, queueVars, drvVars, wiVars,
        TypeOK, IntState, At, Int
<1>2. regs' \in Registers
  BY RequestsAssumption, MaxXfersAssumption DEF DpcFinish, cfgVars, queueVars, drvVars, wiVars,
        TypeOK, Registers, Handle
<1> QED
  BY <1>1, <1>2 DEF TypeOK, cfgVars, queueVars, drvVars, wiVars, DpcFinish

\* BufrdWorkItem keeps the types.
LEMMA BufrdWorkItemType ==
  ASSUME TypeOK, NEW w \in Workers, BufrdWorkItem(w)
  PROVE  TypeOK'
<1>1. worker' \in [Workers -> WorkerState]
  BY RequestsAssumption, MaxXfersAssumption DEF BufrdWorkItem, cfgVars, queueVars, drvVars,
        wiVars, TypeOK, WorkerState, WorkerAt
<1> QED
  BY <1>1 DEF TypeOK, cfgVars, queueVars, drvVars, wiVars, BufrdWorkItem

\* DmaWorkItem keeps the types.
LEMMA DmaWorkItemType ==
  ASSUME TypeOK, NEW w \in Workers, DmaWorkItem(w)
  PROVE  TypeOK'
<1>1. worker' \in [Workers -> WorkerState]
  BY RequestsAssumption, MaxXfersAssumption DEF DmaWorkItem, cfgVars, queueVars, drvVars,
        wiVars, TypeOK, WorkerState, WorkerAt, WorkContext
<1> QED
  BY <1>1 DEF TypeOK, cfgVars, queueVars, drvVars, wiVars, DmaWorkItem

\* DeleteXaxn keeps the types.
LEMMA DeleteXaxnType ==
  ASSUME TypeOK, NEW w \in Workers, DeleteXaxn(w)
  PROVE  TypeOK'
<1>1. NoRequest \in Handle
  BY DEF Handle
<1>2. worker' \in [Workers -> WorkerState]
  BY <1>1, RequestsAssumption, MaxXfersAssumption DEF DeleteXaxn, cfgVars, queueVars, drvVars,
        wiVars, TypeOK, WorkerState, WorkerAt
<1> QED
  BY <1>1, <1>2 DEF TypeOK, cfgVars, queueVars, drvVars, wiVars, DeleteXaxn

\* WorkerCompletes keeps the types.
LEMMA WorkerCompletesType ==
  ASSUME TypeOK, NEW w \in Workers, WorkerCompletes(w)
  PROVE  TypeOK'
<1>1. worker' \in [Workers -> WorkerState]
  BY RequestsAssumption, MaxXfersAssumption DEF WorkerCompletes, cfgVars, queueVars, drvVars,
        wiVars, TypeOK, WorkerState, WorkerAt
<1>2. /\ result' \in [Requests -> {"none"} \cup Status] /\ owner' \in Handle
      /\ fault' \in {"none", "null request", "null transaction", "completed twice"}
  BY RequestsAssumption, MaxXfersAssumption DEF WorkerCompletes, cfgVars, queueVars, drvVars,
        wiVars, TypeOK, Complete, Completing, WorkerState, WorkContext, Handle, Status
<1> QED
  BY <1>1, <1>2 DEF TypeOK, cfgVars, queueVars, drvVars, wiVars, WorkerCompletes

\* ClearPending keeps the types.
LEMMA ClearPendingType ==
  ASSUME TypeOK, NEW w \in Workers, ClearPending(w)
  PROVE  TypeOK'
<1>1. NoRequest \in Handle
  BY DEF Handle
<1>2. worker' \in [Workers -> WorkerState]
  BY <1>1, RequestsAssumption, MaxXfersAssumption DEF ClearPending, cfgVars, queueVars, drvVars,
        wiVars, TypeOK, WorkerState, WorkerAt, IdleWorker, Handle, Status
<1> QED
  BY <1>1, <1>2 DEF TypeOK, cfgVars, queueVars, drvVars, wiVars, ClearPending

\* While an i/o is under way, the queue has handed out a request, and its
\* type is one of the device's.
LEMMA OwnerTyped ==
  ASSUME Quiet, QuietInv, Active
  PROVE  /\ owner \in Requests /\ type[owner] \in ReqTypes
         /\ \E c \in BOOLEAN : type[owner] = TypeOf(bDmaEnabled, FirstDir, c)
<1>1. owner \in Requests /\ pc[owner] \in {"record", "done"}
  BY DEF QuietInv, OnePlace
<1>2. PICK c \in BOOLEAN : type[owner] = TypeOf(bDmaEnabled, FirstDir, c)
  BY <1>1 DEF QuietInv, QueueInv
<1> QED
  BY <1>1, <1>2 DEF TypeOf, ReqTypes, BufrdTypes, DmaTypes, OneDmaTypes, SgDmaTypes

\* What the device and the driver make of the owner's interrupt is the
\* owner's request type.
LEMMA AnalyzeOwner ==
  ASSUME Quiet, QuietInv, Active, NEW IntID, NEW Control,
         FirstDir \in IntID, IntID \subseteq {"ALERT", FirstDir},
         "CHAINED_DMA" \in Control <=> IsChained(owner)
  PROVE  Analyze(IntID, Control) = type[owner]
<1>1. FirstDir \in Dir
  BY DEF FirstDir, Dir
<1>2. ~(Dir \subseteq IntID) /\ Dir \cap IntID # {} /\ (IF "in" \in IntID THEN "in" ELSE "out") = FirstDir
  BY <1>1 DEF Dir
<1>3. Analyze(IntID, Control) = TypeOf(bDmaEnabled, FirstDir, "CHAINED_DMA" \in Control)
  BY <1>2 DEF Analyze
<1>4. PICK c \in BOOLEAN : type[owner] = TypeOf(bDmaEnabled, FirstDir, c)
  BY OwnerTyped
<1> QED
  BY <1>3, <1>4 DEF TypeOf, IsChained, SgDmaTypes

\* Submit keeps the invariant of a quiet window.
LEMMA SubmitQuiet ==
  ASSUME TypeOK, TypeOK', fault = "none", Quiet, QuietInv, NEW r \in Requests, NEW d \in Dir,
        NEW chained \in BOOLEAN, Submit(r, d, chained)
  PROVE  QuietInv'
<1>1. d = FirstDir
  BY DEF Quiet, Served, Dir, FirstDir, Submit, Goto, WorkerAt, At
<1>2. OnePlace'
  BY DEF QuietInv, OnePlace, Active, InGo, InInt, InLookup, InAny, InQueue, InWorker,
        InNoWorker, At, Submit, Goto, queueVars, wiVars
<1>3. QueueInv'
  BY <1>1, RequestsAssumption DEF TypeOK, Quiet, QuietInv, cfgVars, queueVars, drvVars, wiVars,
        OnePlace, Active, InGo, InInt, InLookup, InAny, InQueue, InWorker, InNoWorker, At,
        QueueInv, Unstarted, FirstDir, DeviceInv, IsChained, UiInv, IntInv, PendingInv, WorkInv,
        Completing, OneType, Submit, Goto
<1>4. DeviceInv'
  BY <1>1, RequestsAssumption DEF QuietInv, cfgVars, queueVars, drvVars, wiVars, DeviceInv,
        InGo, InInt, FirstDir, IsChained, Submit, Goto, OnePlace, Active, InLookup, InAny,
        QueueInv, Unstarted, At
<1>5. UiInv'
  BY DEF QuietInv, UiInv, InGo, FirstDir, Submit, Goto
<1>6. IntInv'
  BY <1>1, RequestsAssumption DEF QuietInv, cfgVars, queueVars, drvVars, wiVars, IntInv, InInt,
        InLookup, At, FirstDir, IsChained, Submit, Goto, OnePlace, Active, InGo, InAny,
        QueueInv, Unstarted
<1>7. PendingInv'
  BY <1>1, RequestsAssumption DEF QuietInv, cfgVars, queueVars, drvVars, wiVars, PendingInv,
        InAny, Submit, Goto, OnePlace, Active, InGo, InInt, InLookup, QueueInv, Unstarted, At
<1>8. WorkInv'
  BY DEF QuietInv, WorkInv, InQueue, InWorker, Completing, Submit, Goto, queueVars, wiVars,
        cfgVars
<1>9. (OneType => fault # "completed twice")'
  BY DEF QuietInv, OneType, Submit, Goto, queueVars
<1> QED
  BY <1>2, <1>3, <1>4, <1>5, <1>6, <1>7, <1>8, <1>9 DEF QuietInv

\* Deliver keeps the invariant of a quiet window.
LEMMA DeliverQuiet ==
  ASSUME TypeOK, TypeOK', fault = "none", Quiet, QuietInv, NEW r \in Requests, Deliver(r)
  PROVE  QuietInv'
<1>1. OnePlace'
  BY RequestsAssumption DEF QuietInv, cfgVars, queueVars, drvVars, wiVars, OnePlace, Active,
        InGo, InInt, InLookup, InAny, InQueue, InWorker, InNoWorker, At, Deliver, Goto
<1>2. QueueInv'
  BY RequestsAssumption DEF TypeOK, Registers, IntState, WorkerState, WorkContext, Handle,
        Status, Quiet, QuietInv, cfgVars, queueVars, drvVars, wiVars, OnePlace, Active, InGo,
        InInt, InLookup, InAny, InQueue, InWorker, InNoWorker, At, QueueInv, Unstarted,
        FirstDir, DeviceInv, IsChained, UiInv, IntInv, PendingInv, WorkInv, Completing, OneType,
        Deliver, Goto
<1>3. DeviceInv'
  BY RequestsAssumption DEF QuietInv, cfgVars, queueVars, drvVars, wiVars, DeviceInv, InGo,
        InInt, FirstDir, IsChained, Deliver, Goto, OnePlace, Active, InLookup, InAny, QueueInv,
        Unstarted, At
<1>4. UiInv'
  BY DEF QuietInv, UiInv, InGo, FirstDir, Deliver, Goto
<1>5. IntInv'
  BY RequestsAssumption DEF QuietInv, cfgVars, queueVars, drvVars, wiVars, IntInv, InInt,
        InLookup, At, FirstDir, IsChained, Deliver, Goto, OnePlace, Active, InGo, InAny,
        QueueInv, Unstarted
<1>6. PendingInv'
  BY RequestsAssumption DEF QuietInv, cfgVars, queueVars, drvVars, wiVars, PendingInv, InAny,
        Deliver, Goto, OnePlace, Active, InGo, InInt, InLookup, QueueInv, Unstarted, At
<1>7. WorkInv'
  BY RequestsAssumption DEF TypeOK, Registers, IntState, WorkerState, WorkContext, Handle,
        Status, Quiet, QuietInv, cfgVars, queueVars, drvVars, wiVars, OnePlace, Active, InGo,
        InInt, InLookup, InAny, InQueue, InWorker, InNoWorker, At, QueueInv, Unstarted,
        FirstDir, DeviceInv, IsChained, UiInv, IntInv, PendingInv, WorkInv, Completing, OneType,
        Deliver, Goto
<1>8. (OneType => fault # "completed twice")'
  BY DEF QuietInv, OneType, Deliver, Goto, queueVars
<1> QED
  BY <1>1, <1>2, <1>3, <1>4, <1>5, <1>6, <1>7, <1>8 DEF QuietInv

\* Ready keeps the invariant of a quiet window.
LEMMA ReadyQuiet ==
  ASSUME TypeOK, TypeOK', fault = "none", Quiet, QuietInv, NEW r \in Requests, Ready(r)
  PROVE  QuietInv'
<1>1. OnePlace'
  BY DEF QuietInv, OnePlace, Active, InGo, InInt, InLookup, InAny, InQueue, InWorker,
        InNoWorker, At, Ready, Goto, queueVars, wiVars
<1>2. QueueInv'
  BY DEF QuietInv, QueueInv, Unstarted, FirstDir, Ready, Goto, queueVars, cfgVars
<1>3. DeviceInv'
  BY DEF QuietInv, DeviceInv, InGo, InInt, FirstDir, IsChained, Ready, Goto, queueVars, drvVars
<1>4. UiInv'
  BY DEF QuietInv, UiInv, InGo, FirstDir, Ready, Goto
<1>5. IntInv'
  BY DEF QuietInv, IntInv, InInt, InLookup, At, FirstDir, IsChained, Ready, Goto, queueVars
<1>6. PendingInv'
  BY DEF QuietInv, PendingInv, InAny, Ready, Goto, queueVars, drvVars
<1>7. WorkInv'
  BY DEF QuietInv, WorkInv, InQueue, InWorker, Completing, Ready, Goto, queueVars, wiVars, cfgVars
<1>8. (OneType => fault # "completed twice")'
  BY DEF QuietInv, OneType, Ready, Goto, queueVars
<1> QED
  BY <1>1, <1>2, <1>3, <1>4, <1>5, <1>6, <1>7, <1>8 DEF QuietInv

\* NotReady keeps the invariant of a quiet window.
LEMMA NotReadyQuiet ==
  ASSUME TypeOK, TypeOK', fault = "none", Quiet, QuietInv, NEW r \in Requests, NotReady(r)
  PROVE  QuietInv'
<1>1. owner = r /\ result[r] = "none"
  BY DEF QuietInv, QueueInv, Unstarted, WorkerAt, NotReady, Goto, At
<1>2. /\ owner' = NoRequest /\ fault' = fault /\ result'[r] = "error"
      /\ \A q \in Requests \ {r} : result'[q] = result[q]
  BY <1>1, RequestsAssumption DEF TypeOK, Complete, NotReady, Goto, WorkerAt, At
<1>3. ~Active
  BY <1>1, <1>2 DEF QuietInv, OnePlace, NotReady, Goto, WorkerAt, At
<1>4. OnePlace'
  BY <1>1, <1>2, <1>3 DEF QuietInv, OnePlace, Active, InGo, InInt, InLookup, InAny, InQueue,
        InWorker, InNoWorker, At, NotReady, Goto, queueVars, wiVars
<1>5. QueueInv'
  BY <1>1, <1>2, <1>3, RequestsAssumption DEF TypeOK, Quiet, QuietInv, cfgVars, queueVars,
        drvVars, wiVars, OnePlace, Active, InGo, InInt, InLookup, InAny, InQueue, InWorker,
        InNoWorker, At, QueueInv, Unstarted, FirstDir, DeviceInv, IsChained, UiInv, IntInv,
        PendingInv, WorkInv, Completing, OneType, NotReady, Goto
<1>6. DeviceInv'
  BY <1>1, <1>2, <1>3, RequestsAssumption DEF QuietInv, cfgVars, queueVars, drvVars, wiVars,
        DeviceInv, InGo, InInt, FirstDir, IsChained, NotReady, Goto, OnePlace, Active, InLookup,
        InAny, QueueInv, Unstarted, At
<1>7. UiInv'
  BY DEF QuietInv, UiInv, InGo, FirstDir, NotReady, Goto
<1>8. IntInv'
  BY <1>1, <1>2, <1>3, RequestsAssumption DEF QuietInv, cfgVars, queueVars, drvVars, wiVars,
        IntInv, InInt, InLookup, At, FirstDir, IsChained, NotReady, Goto, OnePlace, Active,
        InGo, InAny, QueueInv, Unstarted
<1>9. PendingInv'
  BY <1>1, <1>2, <1>3, RequestsAssumption DEF QuietInv, cfgVars, queueVars, drvVars, wiVars,
        PendingInv, InAny, NotReady, Goto, OnePlace, Active, InGo, InInt, InLookup, QueueInv,
        Unstarted, At
<1>10. WorkInv'
  BY <1>1, <1>2, <1>3, RequestsAssumption DEF TypeOK, Quiet, QuietInv, cfgVars, queueVars,
        drvVars, wiVars, OnePlace, Active, InGo, InInt, InLookup, InAny, InQueue, InWorker,
        InNoWorker, At, QueueInv, Unstarted, FirstDir, DeviceInv, IsChained, UiInv, IntInv,
        PendingInv, WorkInv, Completing, OneType, NotReady, Goto
<1>11. (OneType => fault # "completed twice")'
  BY <1>1, <1>2, <1>3 DEF QuietInv, OneType, NotReady, Goto, queueVars
<1> QED
  BY <1>4, <1>5, <1>6, <1>7, <1>8, <1>9, <1>10, <1>11 DEF QuietInv

\* ClearDevStatus keeps the invariant of a quiet window.
LEMMA ClearDevStatusQuiet ==
  ASSUME TypeOK, TypeOK', fault = "none", Quiet, QuietInv, NEW r \in Requests, ClearDevStatus(r)
  PROVE  QuietInv'
<1>1. OnePlace'
  BY DEF QuietInv, OnePlace, Active, InGo, InInt, InLookup, InAny, InQueue, InWorker,
        InNoWorker, At, ClearDevStatus, Goto, queueVars, wiVars
<1>2. QueueInv'
  BY DEF QuietInv, QueueInv, Unstarted, FirstDir, ClearDevStatus, Goto, queueVars, cfgVars
<1>3. DeviceInv'
  BY RequestsAssumption DEF QuietInv, cfgVars, queueVars, drvVars, wiVars, DeviceInv, InGo,
        InInt, FirstDir, IsChained, ClearDevStatus, Goto, OnePlace, Active, InLookup, InAny,
        QueueInv, Unstarted, At
<1>4. UiInv'
  BY DEF QuietInv, UiInv, InGo, FirstDir, ClearDevStatus, Goto
<1>5. IntInv'
  BY DEF QuietInv, IntInv, InInt, InLookup, At, FirstDir, IsChained, ClearDevStatus, Goto,
        queueVars
<1>6. PendingInv'
  BY RequestsAssumption DEF QuietInv, cfgVars, queueVars, drvVars, wiVars, PendingInv, InAny,
        ClearDevStatus, Goto, OnePlace, Active, InGo, InInt, InLookup, QueueInv, Unstarted, At
<1>7. WorkInv'
  BY DEF QuietInv, WorkInv, InQueue, InWorker, Completing, ClearDevStatus, Goto, queueVars,
        wiVars, cfgVars
<1>8. (OneType => fault # "completed twice")'
  BY DEF QuietInv, OneType, ClearDevStatus, Goto, queueVars
<1> QED
  BY <1>1, <1>2, <1>3, <1>4, <1>5, <1>6, <1>7, <1>8 DEF QuietInv

\* Refuse keeps the invariant of a quiet window.
LEMMA RefuseQuiet ==
  ASSUME TypeOK, TypeOK', fault = "none", Quiet, QuietInv, NEW r \in Requests, Refuse(r)
  PROVE  QuietInv'
<1>1. owner = r /\ result[r] = "none"
  BY DEF QuietInv, QueueInv, Unstarted, WorkerAt, Refuse, Goto, At
<1>2. /\ owner' = NoRequest /\ fault' = fault /\ result'[r] = "error"
      /\ \A q \in Requests \ {r} : result'[q] = result[q]
  BY <1>1, RequestsAssumption DEF TypeOK, Complete, Refuse, Goto, WorkerAt, At
<1>3. ~Active
  BY <1>1, <1>2 DEF QuietInv, OnePlace, Refuse, Goto, WorkerAt, At
<1>4. OnePlace'
  BY <1>1, <1>2, <1>3 DEF QuietInv, OnePlace, Active, InGo, InInt, InLookup, InAny, InQueue,
        InWorker, InNoWorker, At, Refuse, Goto, queueVars, wiVars
<1>5. QueueInv'
  BY <1>1, <1>2, <1>3, RequestsAssumption DEF TypeOK, Quiet, QuietInv, cfgVars, queueVars,
        drvVars, wiVars, OnePlace, Active, InGo, InInt, InLookup, InAny, InQueue, InWorker,
        InNoWorker, At, QueueInv, Unstarted, FirstDir, DeviceInv, IsChained, UiInv, IntInv,
        PendingInv, WorkInv, Completing, OneType, Refuse, Goto
<1>6. DeviceInv'
  BY <1>1, <1>2, <1>3, RequestsAssumption DEF QuietInv, cfgVars, queueVars, drvVars, wiVars,
        DeviceInv, InGo, InInt, FirstDir, IsChained, Refuse, Goto, OnePlace, Active, InLookup,
        InAny, QueueInv, Unstarted, At
<1>7. UiInv'
  BY DEF QuietInv, UiInv, InGo, FirstDir, Refuse, Goto
<1>8. IntInv'
  BY <1>1, <1>2, <1>3, RequestsAssumption DEF QuietInv, cfgVars, queueVars, drvVars, wiVars,
        IntInv, InInt, InLookup, At, FirstDir, IsChained, Refuse, Goto, OnePlace, Active, InGo,
        InAny, QueueInv, Unstarted
<1>9. PendingInv'
  BY <1>1, <1>2, <1>3, RequestsAssumption DEF QuietInv, cfgVars, queueVars, drvVars, wiVars,
        PendingInv, InAny, Refuse, Goto, OnePlace, Active, InGo, InInt, InLookup, QueueInv,
        Unstarted, At
<1>10. WorkInv'
  BY <1>1, <1>2, <1>3, RequestsAssumption DEF TypeOK, Quiet, QuietInv, cfgVars, queueVars,
        drvVars, wiVars, OnePlace, Active, InGo, InInt, InLookup, InAny, InQueue, InWorker,
        InNoWorker, At, QueueInv, Unstarted, FirstDir, DeviceInv, IsChained, UiInv, IntInv,
        PendingInv, WorkInv, Completing, OneType, Refuse, Goto
<1>11. (OneType => fault # "completed twice")'
  BY <1>1, <1>2, <1>3 DEF QuietInv, OneType, Refuse, Goto, queueVars
<1> QED
  BY <1>4, <1>5, <1>6, <1>7, <1>8, <1>9, <1>10, <1>11 DEF QuietInv

\* SetPending keeps the invariant of a quiet window.
LEMMA SetPendingQuiet ==
  ASSUME TypeOK, TypeOK', fault = "none", Quiet, QuietInv, NEW r \in Requests, SetPending(r)
  PROVE  QuietInv'
<1>1. OnePlace'
  BY DEF QuietInv, OnePlace, Active, InGo, InInt, InLookup, InAny, InQueue, InWorker,
        InNoWorker, At, SetPending, Goto, queueVars, wiVars
<1>2. QueueInv'
  BY DEF QuietInv, QueueInv, Unstarted, FirstDir, SetPending, Goto, queueVars, cfgVars
<1>3. DeviceInv'
  BY RequestsAssumption DEF QuietInv, cfgVars, queueVars, drvVars, wiVars, DeviceInv, InGo,
        InInt, FirstDir, IsChained, SetPending, Goto, OnePlace, Active, InLookup, InAny,
        QueueInv, Unstarted, At
<1>4. UiInv'
  BY DEF QuietInv, UiInv, InGo, FirstDir, SetPending, Goto
<1>5. IntInv'
  BY DEF QuietInv, IntInv, InInt, InLookup, At, FirstDir, IsChained, SetPending, Goto, queueVars
<1>6. PendingInv'
  BY RequestsAssumption DEF TypeOK, Registers, IntState, WorkerState, WorkContext, Handle,
        Status, Quiet, QuietInv, cfgVars, queueVars, drvVars, wiVars, OnePlace, Active, InGo,
        InInt, InLookup, InAny, InQueue, InWorker, InNoWorker, At, QueueInv, Unstarted,
        FirstDir, DeviceInv, IsChained, UiInv, IntInv, PendingInv, WorkInv, Completing, OneType,
        SetPending, Goto
<1>7. WorkInv'
  BY DEF QuietInv, WorkInv, InQueue, InWorker, Completing, SetPending, Goto, queueVars, wiVars,
        cfgVars
<1>8. (OneType => fault # "completed twice")'
  BY DEF QuietInv, OneType, SetPending, Goto, queueVars
<1> QED
  BY <1>1, <1>2, <1>3, <1>4, <1>5, <1>6, <1>7, <1>8 DEF QuietInv

\* ProgramRegs keeps the invariant of a quiet window.
LEMMA ProgramRegsQuiet ==
  ASSUME TypeOK, TypeOK', fault = "none", Quiet, QuietInv, NEW r \in Requests, ProgramRegs(r)
  PROVE  QuietInv'
<1>1. owner = r
  BY DEF QuietInv, QueueInv, Unstarted, ProgramRegs, Goto, WorkerAt, At
<1>2. ~Active
  BY <1>1 DEF QuietInv, OnePlace, ProgramRegs, Goto, WorkerAt, At
<1>3. /\ regs'.Control = ControlReg(r) /\ regs'.IntID = regs.IntID /\ regs'.MesgID = regs.MesgID
      /\ regs'.HostAddr \in {r, NoRequest}
  BY <1>1, <1>2 DEF TypeOK, Registers, ProgramRegs, Goto, WorkerAt, At
<1>4. ControlReg(r) \subseteq {"CHAINED_DMA"}
  BY <1>1, <1>2, <1>3 DEF ControlReg, ProgramRegs, Goto, WorkerAt, At
<1>5. OnePlace'
  BY <1>1, <1>2, <1>3, <1>4 DEF QuietInv, OnePlace, Active, InGo, InInt, InLookup, InAny,
        InQueue, InWorker, InNoWorker, At, ProgramRegs, Goto, queueVars, wiVars
<1>6. QueueInv'
  BY DEF QuietInv, QueueInv, Unstarted, FirstDir, ProgramRegs, Goto, queueVars, cfgVars
<1>7. DeviceInv'
  BY <1>1, <1>2, <1>3, <1>4, RequestsAssumption DEF QuietInv, cfgVars, queueVars, drvVars,
        wiVars, DeviceInv, InGo, InInt, FirstDir, IsChained, ProgramRegs, Goto, OnePlace,
        Active, InLookup, InAny, QueueInv, Unstarted, At
<1>8. UiInv'
  BY <1>1, <1>2, <1>3, <1>4, RequestsAssumption DEF QuietInv, cfgVars, queueVars, drvVars,
        wiVars, UiInv, InGo, FirstDir, ProgramRegs, Goto, OnePlace, Active, InInt, InLookup,
        InAny, QueueInv, Unstarted, At
<1>9. IntInv'
  BY <1>1, <1>2, <1>3, <1>4, RequestsAssumption DEF QuietInv, cfgVars, queueVars, drvVars,
        wiVars, IntInv, InInt, InLookup, At, FirstDir, IsChained, ProgramRegs, Goto, OnePlace,
        Active, InGo, InAny, QueueInv, Unstarted
<1>10. PendingInv'
  BY DEF QuietInv, PendingInv, InAny, ProgramRegs, Goto, queueVars, drvVars
<1>11. WorkInv'
  BY DEF QuietInv, WorkInv, InQueue, InWorker, Completing, ProgramRegs, Goto, queueVars, wiVars,
        cfgVars
<1>12. (OneType => fault # "completed twice")'
  BY DEF QuietInv, OneType, ProgramRegs, Goto, queueVars
<1> QED
  BY <1>5, <1>6, <1>7, <1>8, <1>9, <1>10, <1>11, <1>12 DEF QuietInv

\* SetGo keeps the invariant of a quiet window.
LEMMA SetGoQuiet ==
  ASSUME TypeOK, TypeOK', fault = "none", Quiet, QuietInv, NEW r \in Requests, SetGo(r)
  PROVE  QuietInv'
<1>1. owner = r
  BY DEF QuietInv, QueueInv, Unstarted, SetGo, Goto, WorkerAt, At
<1>2. ~Active
  BY <1>1 DEF QuietInv, OnePlace, SetGo, Goto, WorkerAt, At
<1>3. /\ regs'.Control = ControlReg(r) \cup {"GO"} /\ regs'.IntID = regs.IntID /\ regs'.MesgID = regs.MesgID
      /\ regs'.HostAddr = regs.HostAddr
  BY <1>1, <1>2 DEF TypeOK, Registers, SetGo, Goto, WorkerAt, At
<1>4. "CHAINED_DMA" \in ControlReg(r) \cup {"GO"} <=> IsChained(r)
  BY <1>1, <1>2, <1>3 DEF ControlReg, SetGo, Goto, WorkerAt, At
<1>5. OnePlace'
  BY <1>1, <1>2, <1>3, <1>4, RequestsAssumption DEF TypeOK, Quiet, QuietInv, cfgVars, queueVars,
        drvVars, wiVars, OnePlace, Active, InGo, InInt, InLookup, InAny, InQueue, InWorker,
        InNoWorker, At, QueueInv, Unstarted, FirstDir, DeviceInv, IsChained, UiInv, IntInv,
        PendingInv, WorkInv, Completing, OneType, SetGo, Goto
<1>6. QueueInv'
  BY DEF QuietInv, QueueInv, Unstarted, FirstDir, SetGo, Goto, queueVars, cfgVars
<1>7. DeviceInv'
  BY <1>1, <1>2, <1>3, <1>4, RequestsAssumption DEF QuietInv, cfgVars, queueVars, drvVars,
        wiVars, DeviceInv, InGo, InInt, FirstDir, IsChained, SetGo, Goto, OnePlace, Active,
        InLookup, InAny, QueueInv, Unstarted, At
<1>8. UiInv'
  BY DEF QuietInv, UiInv, InGo, FirstDir, SetGo, Goto
<1>9. IntInv'
  BY <1>1, <1>2, <1>3, <1>4, RequestsAssumption DEF QuietInv, cfgVars, queueVars, drvVars,
        wiVars, IntInv, InInt, InLookup, At, FirstDir, IsChained, SetGo, Goto, OnePlace, Active,
        InGo, InAny, QueueInv, Unstarted
<1>10. PendingInv'
  BY DEF QuietInv, PendingInv, InAny, SetGo, Goto, queueVars, drvVars
<1>11. WorkInv'
  BY DEF QuietInv, WorkInv, InQueue, InWorker, Completing, SetGo, Goto, queueVars, wiVars, cfgVars
<1>12. (OneType => fault # "completed twice")'
  BY DEF QuietInv, OneType, SetGo, Goto, queueVars
<1> QED
  BY <1>5, <1>6, <1>7, <1>8, <1>9, <1>10, <1>11, <1>12 DEF QuietInv

\* RecordXaxn keeps the invariant of a quiet window.
LEMMA RecordXaxnQuiet ==
  ASSUME TypeOK, TypeOK', fault = "none", Quiet, QuietInv, NEW r \in Requests, RecordXaxn(r)
  PROVE  QuietInv'
<1>1. OnePlace'
  BY DEF QuietInv, OnePlace, Active, InGo, InInt, InLookup, InAny, InQueue, InWorker,
        InNoWorker, At, RecordXaxn, Goto, queueVars, wiVars
<1>2. QueueInv'
  BY DEF QuietInv, QueueInv, Unstarted, FirstDir, RecordXaxn, Goto, queueVars, cfgVars
<1>3. DeviceInv'
  BY DEF QuietInv, DeviceInv, InGo, InInt, FirstDir, IsChained, RecordXaxn, Goto, queueVars,
        drvVars
<1>4. UiInv'
  BY DEF QuietInv, UiInv, InGo, FirstDir, RecordXaxn, Goto
<1>5. IntInv'
  BY DEF QuietInv, IntInv, InInt, InLookup, At, FirstDir, IsChained, RecordXaxn, Goto, queueVars
<1>6. PendingInv'
  BY DEF QuietInv, PendingInv, InAny, RecordXaxn, Goto, queueVars, drvVars
<1>7. WorkInv'
  BY DEF QuietInv, WorkInv, InQueue, InWorker, Completing, RecordXaxn, Goto, queueVars, wiVars,
        cfgVars
<1>8. (OneType => fault # "completed twice")'
  BY DEF QuietInv, OneType, RecordXaxn, Goto, queueVars
<1> QED
  BY <1>1, <1>2, <1>3, <1>4, <1>5, <1>6, <1>7, <1>8 DEF QuietInv

\* UiReadEnable keeps the invariant of a quiet window.
LEMMA UiReadEnableQuiet ==
  ASSUME TypeOK, TypeOK', fault = "none", Quiet, QuietInv, NEW d \in Dir, UiReadEnable(d)
  PROVE  QuietInv'
<1>1. FirstDir' = FirstDir /\ d = FirstDir
  BY DEF QuietInv, UiInv, Quiet, FirstDir, uiUnchanged, UiReadEnable, WorkerAt, At
<1>2. /\ ui'.pc \in {"control", "idle"}
      /\ ui'.pc = "control" => ui'.dir = FirstDir'
  BY <1>1 DEF Quiet, Polled, UiReadEnable, uiUnchanged, WorkerAt, At
<1>3. OnePlace'
  BY DEF QuietInv, OnePlace, Active, InGo, InInt, InLookup, InAny, InQueue, InWorker,
        InNoWorker, At, UiReadEnable, uiUnchanged, queueVars, wiVars
<1>4. QueueInv'
  BY DEF QuietInv, QueueInv, Unstarted, FirstDir, UiReadEnable, uiUnchanged, queueVars, cfgVars
<1>5. DeviceInv'
  BY DEF QuietInv, DeviceInv, InGo, InInt, FirstDir, IsChained, UiReadEnable, uiUnchanged,
        queueVars, drvVars
<1>6. UiInv'
  BY <1>2 DEF UiInv, Quiet, FirstDir
<1>7. IntInv'
  BY DEF QuietInv, IntInv, InInt, InLookup, At, FirstDir, IsChained, UiReadEnable, uiUnchanged,
        queueVars
<1>8. PendingInv'
  BY DEF QuietInv, PendingInv, InAny, UiReadEnable, uiUnchanged, queueVars, drvVars
<1>9. WorkInv'
  BY DEF QuietInv, WorkInv, InQueue, InWorker, Completing, UiReadEnable, uiUnchanged, queueVars,
        wiVars, cfgVars
<1>10. (OneType => fault # "completed twice")'
  BY DEF QuietInv, OneType, UiReadEnable, uiUnchanged, queueVars
<1> QED
  BY <1>3, <1>4, <1>5, <1>6, <1>7, <1>8, <1>9, <1>10 DEF QuietInv

\* UiReadControl keeps the invariant of a quiet window.
LEMMA UiReadControlQuiet ==
  ASSUME TypeOK, TypeOK', fault = "none", Quiet, QuietInv, UiReadControl
  PROVE  QuietInv'
<1>1. FirstDir' = FirstDir /\ ui.dir = FirstDir
  BY DEF QuietInv, UiInv, Quiet, FirstDir, uiUnchanged, UiReadControl, WorkerAt, At
<1>2. \/ ui'.pc = "inject" /\ ui'.dir = FirstDir /\ InGo
      \/ ui'.pc = "idle"
  BY <1>1 DEF TypeOK, Quiet, Polled, InGo, UiReadControl, uiUnchanged, WorkerAt, At
<1>3. OnePlace'
  BY DEF QuietInv, OnePlace, Active, InGo, InInt, InLookup, InAny, InQueue, InWorker,
        InNoWorker, At, UiReadControl, uiUnchanged, queueVars, wiVars
<1>4. QueueInv'
  BY DEF QuietInv, QueueInv, Unstarted, FirstDir, UiReadControl, uiUnchanged, queueVars, cfgVars
<1>5. DeviceInv'
  BY DEF QuietInv, DeviceInv, InGo, InInt, FirstDir, IsChained, UiReadControl, uiUnchanged,
        queueVars, drvVars
<1>6. UiInv'
  BY <1>1, <1>2 DEF QuietInv, UiInv, InGo, FirstDir, UiReadControl, uiUnchanged
<1>7. IntInv'
  BY DEF QuietInv, IntInv, InInt, InLookup, At, FirstDir, IsChained, UiReadControl, uiUnchanged,
        queueVars
<1>8. PendingInv'
  BY DEF QuietInv, PendingInv, InAny, UiReadControl, uiUnchanged, queueVars, drvVars
<1>9. WorkInv'
  BY DEF QuietInv, WorkInv, InQueue, InWorker, Completing, UiReadControl, uiUnchanged,
        queueVars, wiVars, cfgVars
<1>10. (OneType => fault # "completed twice")'
  BY DEF QuietInv, OneType, UiReadControl, uiUnchanged, queueVars
<1> QED
  BY <1>3, <1>4, <1>5, <1>6, <1>7, <1>8, <1>9, <1>10 DEF QuietInv

\* UiInject keeps the invariant of a quiet window.
LEMMA UiInjectQuiet ==
  ASSUME TypeOK, TypeOK', fault = "none", Quiet, QuietInv, UiInject
  PROVE  QuietInv'
<1>1. OnePlace'
  BY RequestsAssumption DEF TypeOK, Registers, IntState, WorkerState, WorkContext, Handle,
        Status, Quiet, QuietInv, cfgVars, queueVars, drvVars, wiVars, OnePlace, Active, InGo,
        InInt, InLookup, InAny, InQueue, InWorker, InNoWorker, At, QueueInv, Unstarted,
        FirstDir, DeviceInv, IsChained, UiInv, IntInv, PendingInv, WorkInv, Completing, OneType,
        UiInject, uiUnchanged
<1>2. QueueInv'
  BY DEF QuietInv, QueueInv, Unstarted, FirstDir, UiInject, uiUnchanged, queueVars, cfgVars
<1>3. DeviceInv'
  BY RequestsAssumption DEF TypeOK, Registers, IntState, WorkerState, WorkContext, Handle,
        Status, Quiet, QuietInv, cfgVars, queueVars, drvVars, wiVars, OnePlace, Active, InGo,
        InInt, InLookup, InAny, InQueue, InWorker, InNoWorker, At, QueueInv, Unstarted,
        FirstDir, DeviceInv, IsChained, UiInv, IntInv, PendingInv, WorkInv, Completing, OneType,
        UiInject, uiUnchanged
<1>4. UiInv'
  BY RequestsAssumption DEF TypeOK, Registers, IntState, WorkerState, WorkContext, Handle,
        Status, Quiet, QuietInv, cfgVars, queueVars, drvVars, wiVars, OnePlace, Active, InGo,
        InInt, InLookup, InAny, InQueue, InWorker, InNoWorker, At, QueueInv, Unstarted,
        FirstDir, DeviceInv, IsChained, UiInv, IntInv, PendingInv, WorkInv, Completing, OneType,
        UiInject, uiUnchanged
<1>5. IntInv'
  BY RequestsAssumption DEF TypeOK, Registers, IntState, WorkerState, WorkContext, Handle,
        Status, Quiet, QuietInv, cfgVars, queueVars, drvVars, wiVars, OnePlace, Active, InGo,
        InInt, InLookup, InAny, InQueue, InWorker, InNoWorker, At, QueueInv, Unstarted,
        FirstDir, DeviceInv, IsChained, UiInv, IntInv, PendingInv, WorkInv, Completing, OneType,
        UiInject, uiUnchanged
<1>6. PendingInv'
  BY DEF QuietInv, PendingInv, InAny, UiInject, uiUnchanged, queueVars, drvVars
<1>7. WorkInv'
  BY DEF QuietInv, WorkInv, InQueue, InWorker, Completing, UiInject, uiUnchanged, queueVars,
        wiVars, cfgVars
<1>8. (OneType => fault # "completed twice")'
  BY DEF QuietInv, OneType, UiInject, uiUnchanged, queueVars
<1> QED
  BY <1>1, <1>2, <1>3, <1>4, <1>5, <1>6, <1>7, <1>8 DEF QuietInv

\* UiAnswer keeps the invariant of a quiet window.
LEMMA UiAnswerQuiet ==
  ASSUME TypeOK, TypeOK', fault = "none", Quiet, QuietInv, UiAnswer
  PROVE  QuietInv'
<1>1. OnePlace'
  BY DEF QuietInv, OnePlace, Active, InGo, InInt, InLookup, InAny, InQueue, InWorker,
        InNoWorker, At, UiAnswer, uiUnchanged, queueVars, wiVars
<1>2. QueueInv'
  BY DEF QuietInv, QueueInv, Unstarted, FirstDir, UiAnswer, uiUnchanged, queueVars, cfgVars
<1>3. DeviceInv'
  BY RequestsAssumption DEF TypeOK, Registers, IntState, WorkerState, WorkContext, Handle,
        Status, Quiet, QuietInv, cfgVars, queueVars, drvVars, wiVars, OnePlace, Active, InGo,
        InInt, InLookup, InAny, InQueue, InWorker, InNoWorker, At, QueueInv, Unstarted,
        FirstDir, DeviceInv, IsChained, UiInv, IntInv, PendingInv, WorkInv, Completing, OneType,
        UiAnswer, uiUnchanged
<1>4. UiInv'
  BY DEF QuietInv, UiInv, InGo, FirstDir, UiAnswer, uiUnchanged
<1>5. IntInv'
  BY RequestsAssumption DEF TypeOK, Registers, IntState, WorkerState, WorkContext, Handle,
        Status, Quiet, QuietInv, cfgVars, queueVars, drvVars, wiVars, OnePlace, Active, InGo,
        InInt, InLookup, InAny, InQueue, InWorker, InNoWorker, At, QueueInv, Unstarted,
        FirstDir, DeviceInv, IsChained, UiInv, IntInv, PendingInv, WorkInv, Completing, OneType,
        UiAnswer, uiUnchanged
<1>6. PendingInv'
  BY DEF QuietInv, PendingInv, InAny, UiAnswer, uiUnchanged, queueVars, drvVars
<1>7. WorkInv'
  BY DEF QuietInv, WorkInv, InQueue, InWorker, Completing, UiAnswer, uiUnchanged, queueVars,
        wiVars, cfgVars
<1>8. (OneType => fault # "completed twice")'
  BY DEF QuietInv, OneType, UiAnswer, uiUnchanged, queueVars
<1> QED
  BY <1>1, <1>2, <1>3, <1>4, <1>5, <1>6, <1>7, <1>8 DEF QuietInv

\* UiAck keeps the invariant of a quiet window.
LEMMA UiAckQuiet ==
  ASSUME TypeOK, TypeOK', fault = "none", Quiet, QuietInv, UiAck
  PROVE  QuietInv'
<1>1. ui'.pc = "idle"
  BY DEF Quiet, Polled, UiAck, uiUnchanged, WorkerAt, At
<1>2. /\ regs'.IntEnable = regs.IntEnable /\ regs'.Control = regs.Control \ {"GO"}
      /\ regs'.IntID = regs.IntID /\ regs'.MesgID = 1 /\ regs'.HostAddr = regs.HostAddr
  BY <1>1 DEF TypeOK, Registers, UiAck, uiUnchanged, WorkerAt, At
<1>3. OnePlace'
  BY <1>1, <1>2, RequestsAssumption DEF TypeOK, Quiet, QuietInv, cfgVars, queueVars, drvVars,
        wiVars, OnePlace, Active, InGo, InInt, InLookup, InAny, InQueue, InWorker, InNoWorker,
        At, QueueInv, Unstarted, FirstDir, DeviceInv, IsChained, UiInv, IntInv, PendingInv,
        WorkInv, Completing, OneType, UiAck, uiUnchanged
<1>4. QueueInv'
  BY DEF QuietInv, QueueInv, Unstarted, FirstDir, UiAck, uiUnchanged, queueVars, cfgVars
<1>5. DeviceInv'
  BY <1>1, <1>2, RequestsAssumption DEF TypeOK, Quiet, QuietInv, cfgVars, queueVars, drvVars,
        wiVars, OnePlace, Active, InGo, InInt, InLookup, InAny, InQueue, InWorker, InNoWorker,
        At, QueueInv, Unstarted, FirstDir, DeviceInv, IsChained, UiInv, IntInv, PendingInv,
        WorkInv, Completing, OneType, UiAck, uiUnchanged
<1>6. UiInv'
  BY <1>1, <1>2 DEF QuietInv, UiInv, InGo, FirstDir, UiAck, uiUnchanged
<1>7. IntInv'
  BY <1>1, <1>2, RequestsAssumption DEF QuietInv, cfgVars, queueVars, drvVars, wiVars, IntInv,
        InInt, InLookup, At, FirstDir, IsChained, UiAck, uiUnchanged, OnePlace, Active, InGo,
        InAny, QueueInv, Unstarted
<1>8. PendingInv'
  BY DEF QuietInv, PendingInv, InAny, UiAck, uiUnchanged, queueVars, drvVars
<1>9. WorkInv'
  BY DEF QuietInv, WorkInv, InQueue, InWorker, Completing, UiAck, uiUnchanged, queueVars,
        wiVars, cfgVars
<1>10. (OneType => fault # "completed twice")'
  BY DEF QuietInv, OneType, UiAck, uiUnchanged, queueVars
<1> QED
  BY <1>3, <1>4, <1>5, <1>6, <1>7, <1>8, <1>9, <1>10 DEF QuietInv

\* UiSpurious keeps the invariant of a quiet window.
LEMMA UiSpuriousQuiet ==
  ASSUME TypeOK, TypeOK', fault = "none", Quiet, QuietInv, UiSpurious
  PROVE  QuietInv'
<1>1. OnePlace'
  BY RequestsAssumption DEF TypeOK, Registers, IntState, WorkerState, WorkContext, Handle,
        Status, Quiet, QuietInv, cfgVars, queueVars, drvVars, wiVars, OnePlace, Active, InGo,
        InInt, InLookup, InAny, InQueue, InWorker, InNoWorker, At, QueueInv, Unstarted,
        FirstDir, DeviceInv, IsChained, UiInv, IntInv, PendingInv, WorkInv, Completing, OneType,
        UiSpurious, uiUnchanged
<1>2. QueueInv'
  BY DEF QuietInv, QueueInv, Unstarted, FirstDir, UiSpurious, uiUnchanged, queueVars, cfgVars
<1>3. DeviceInv'
  BY RequestsAssumption DEF TypeOK, Registers, IntState, WorkerState, WorkContext, Handle,
        Status, Quiet, QuietInv, cfgVars, queueVars, drvVars, wiVars, OnePlace, Active, InGo,
        InInt, InLookup, InAny, InQueue, InWorker, InNoWorker, At, QueueInv, Unstarted,
        FirstDir, DeviceInv, IsChained, UiInv, IntInv, PendingInv, WorkInv, Completing, OneType,
        UiSpurious, uiUnchanged
<1>4. UiInv'
  BY DEF QuietInv, UiInv, InGo, FirstDir, UiSpurious, uiUnchanged
<1>5. IntInv'
  BY DEF QuietInv, IntInv, InInt, InLookup, At, FirstDir, IsChained, UiSpurious, uiUnchanged,
        queueVars
<1>6. PendingInv'
  BY DEF QuietInv, PendingInv, InAny, UiSpurious, uiUnchanged, queueVars, drvVars
<1>7. WorkInv'
  BY DEF QuietInv, WorkInv, InQueue, InWorker, Completing, UiSpurious, uiUnchanged, queueVars,
        wiVars, cfgVars
<1>8. (OneType => fault # "completed twice")'
  BY DEF QuietInv, OneType, UiSpurious, uiUnchanged, queueVars
<1> QED
  BY <1>1, <1>2, <1>3, <1>4, <1>5, <1>6, <1>7, <1>8 DEF QuietInv

\* IntAnalyze keeps the invariant of a quiet window.
LEMMA IntAnalyzeQuiet ==
  ASSUME TypeOK, TypeOK', fault = "none", Quiet, QuietInv, IntAnalyze
  PROVE  QuietInv'
<1>1. /\ InInt /\ FirstDir \in regs.IntID /\ regs.IntID \subseteq {"ALERT", FirstDir} /\ owner \in Requests
      /\ "CHAINED_DMA" \in regs.Control <=> IsChained(owner)
  BY DEF QuietInv, DeviceInv, OnePlace, Active, InInt, At, IntAnalyze, WorkerAt
<1>2. Active
  BY <1>1 DEF Active
<1>3. type[owner] \in ReqTypes
  BY <1>2, OwnerTyped
<1>4. Analyze(regs.IntID, regs.Control) = type[owner]
  BY <1>1, <1>2, AnalyzeOwner
<1>5. type[owner] # "eNoIO"
  BY <1>3 DEF ReqTypes, BufrdTypes, DmaTypes, OneDmaTypes, SgDmaTypes
<1>6. /\ int'.pc = "move" /\ int'.type = type[owner] /\ int'.IntID = int.IntID
      /\ int'.Control = int.Control
  BY <1>1, <1>2, <1>3, <1>4, <1>5 DEF TypeOK, IntState, At, IntAnalyze, WorkerAt
<1>7. OnePlace'
  BY DEF QuietInv, OnePlace, Active, InGo, InInt, InLookup, InAny, InQueue, InWorker,
        InNoWorker, At, IntAnalyze, queueVars, wiVars
<1>8. QueueInv'
  BY DEF QuietInv, QueueInv, Unstarted, FirstDir, IntAnalyze, queueVars, cfgVars
<1>9. DeviceInv'
  BY <1>1, <1>2, <1>3, <1>4, <1>5, <1>6, RequestsAssumption DEF QuietInv, cfgVars, queueVars,
        drvVars, wiVars, DeviceInv, InGo, InInt, FirstDir, IsChained, IntAnalyze, OnePlace,
        Active, InLookup, InAny, QueueInv, Unstarted, At
<1>10. UiInv'
  BY DEF QuietInv, UiInv, InGo, FirstDir, IntAnalyze
<1>11. IntInv'
  BY <1>1, <1>2, <1>3, <1>4, <1>5, <1>6 DEF QuietInv, IntInv, InInt, InLookup, At, FirstDir,
        IsChained, IntAnalyze, queueVars
<1>12. PendingInv'
  BY DEF QuietInv, PendingInv, InAny, IntAnalyze, queueVars, drvVars
<1>13. WorkInv'
  BY DEF QuietInv, WorkInv, InQueue, InWorker, Completing, IntAnalyze, queueVars, wiVars, cfgVars
<1>14. (OneType => fault # "completed twice")'
  BY DEF QuietInv, OneType, IntAnalyze, queueVars
<1> QED
  BY <1>7, <1>8, <1>9, <1>10, <1>11, <1>12, <1>13, <1>14 DEF QuietInv

\* IntMove keeps the invariant of a quiet window.
LEMMA IntMoveQuiet ==
  ASSUME TypeOK, TypeOK', fault = "none", Quiet, QuietInv, IntMove
  PROVE  QuietInv'
<1>1. InInt /\ owner \in Requests /\ int.type = type[owner] /\ xfers[owner] = 0
  BY DEF QuietInv, IntInv, DeviceInv, OnePlace, Active, At, InInt, IntMove, WorkerAt
<1>2. Target = owner
  BY <1>1 DEF IntMove, At, Target, QuietInv, DeviceInv, OnePlace, Active, IsChained, InInt
<1>3. /\ \A r \in Requests \ {owner} : xfers'[r] = xfers[r]
      /\ xfers'[owner] \in {0, 1} /\ ("ALERT" \in regs'.IntID \/ xfers'[owner] = 1)
  BY <1>1, <1>2, MaxXfersAssumption DEF TypeOK, Registers, Handle, IntMove, WorkerAt, At
<1>4. /\ regs'.Control = regs.Control /\ regs'.MesgID = regs.MesgID /\ regs'.HostAddr = regs.HostAddr
      /\ regs'.IntID \in {regs.IntID, regs.IntID \cup {"ALERT"}}
  BY <1>1, <1>2, <1>3 DEF TypeOK, Registers, IntMove, WorkerAt, At
<1>5. /\ int'.pc = "enter" /\ int'.type = int.type /\ int'.IntID = int.IntID
      /\ int'.Control = int.Control
  BY <1>1, <1>2, <1>3, <1>4 DEF TypeOK, IntState, Int, IntMove, WorkerAt, At
<1>6. OnePlace'
  BY <1>1, <1>2, <1>3, <1>4, <1>5 DEF QuietInv, OnePlace, Active, InGo, InInt, InLookup, InAny,
        InQueue, InWorker, InNoWorker, At, IntMove, queueVars, wiVars
<1>7. QueueInv'
  BY <1>1, <1>2, <1>3, <1>4, <1>5, RequestsAssumption DEF QuietInv, cfgVars, queueVars, drvVars,
        wiVars, QueueInv, Unstarted, FirstDir, IntMove, OnePlace, Active, InGo, InInt, InLookup,
        InAny, At
<1>8. DeviceInv'
  BY <1>1, <1>2, <1>3, <1>4, <1>5, RequestsAssumption DEF QuietInv, cfgVars, queueVars, drvVars,
        wiVars, DeviceInv, InGo, InInt, FirstDir, IsChained, IntMove, OnePlace, Active,
        InLookup, InAny, QueueInv, Unstarted, At
<1>9. UiInv'
  BY DEF QuietInv, UiInv, InGo, FirstDir, IntMove
<1>10. IntInv'
  BY <1>1, <1>2, <1>3, <1>4, <1>5 DEF QuietInv, IntInv, InInt, InLookup, At, FirstDir,
        IsChained, IntMove, queueVars
<1>11. PendingInv'
  BY <1>1, <1>2, <1>3, <1>4, <1>5 DEF QuietInv, PendingInv, InAny, IntMove, queueVars, drvVars
<1>12. WorkInv'
  BY <1>1, <1>2, <1>3, <1>4, <1>5 DEF QuietInv, WorkInv, InQueue, InWorker, Completing, IntMove,
        queueVars, wiVars, cfgVars
<1>13. (OneType => fault # "completed twice")'
  BY DEF QuietInv, OneType, IntMove, queueVars
<1> QED
  BY <1>6, <1>7, <1>8, <1>9, <1>10, <1>11, <1>12, <1>13 DEF QuietInv

\* IntInvalid keeps the invariant of a quiet window.
LEMMA IntInvalidQuiet ==
  ASSUME TypeOK, TypeOK', fault = "none", Quiet, QuietInv, IntInvalid
  PROVE  QuietInv'
<1>1. InInt /\ owner \in Requests /\ int.type = type[owner]
  BY DEF QuietInv, IntInv, DeviceInv, OnePlace, Active, At, InInt, IntInvalid, WorkerAt
<1>2. Active
  BY <1>1 DEF Active
<1>3. type[owner] \in ReqTypes
  BY <1>2, OwnerTyped
<1>4. ~IsChained(owner)
  BY <1>1, <1>2, RequestsAssumption DEF IntInvalid, At, Target, QuietInv, DeviceInv, OnePlace,
        IsChained
<1>5. int.type \in BufrdTypes \cup OneDmaTypes
  BY <1>1, <1>3, <1>4 DEF IsChained, ReqTypes, DmaTypes
<1>6. /\ regs'.Control = regs.Control /\ regs'.MesgID = regs.MesgID /\ regs'.HostAddr = regs.HostAddr
      /\ regs'.IntID = regs.IntID \cup {"ALERT"}
  BY <1>1, <1>2, <1>3, <1>4, <1>5 DEF TypeOK, Registers, IntInvalid, WorkerAt, At
<1>7. /\ int'.pc = "enter" /\ int'.type = int.type /\ int'.IntID = int.IntID
      /\ int'.Control = int.Control
  BY <1>1, <1>2, <1>3, <1>4, <1>5, <1>6 DEF TypeOK, IntState, Int, IntInvalid, WorkerAt, At
<1>8. OnePlace'
  BY <1>1, <1>2, <1>3, <1>4, <1>5, <1>6, <1>7 DEF QuietInv, OnePlace, Active, InGo, InInt,
        InLookup, InAny, InQueue, InWorker, InNoWorker, At, IntInvalid, queueVars, wiVars
<1>9. QueueInv'
  BY DEF QuietInv, QueueInv, Unstarted, FirstDir, IntInvalid, queueVars, cfgVars
<1>10. DeviceInv'
  BY <1>1, <1>2, <1>3, <1>4, <1>5, <1>6, <1>7 DEF QuietInv, DeviceInv, InGo, InInt, FirstDir,
        IsChained, IntInvalid, queueVars, drvVars
<1>11. UiInv'
  BY DEF QuietInv, UiInv, InGo, FirstDir, IntInvalid
<1>12. IntInv'
  BY <1>1, <1>2, <1>3, <1>4, <1>5, <1>6, <1>7 DEF QuietInv, IntInv, InInt, InLookup, At,
        FirstDir, IsChained, IntInvalid, queueVars
<1>13. PendingInv'
  BY <1>1, <1>2, <1>3, <1>4, <1>5, <1>6, <1>7 DEF QuietInv, PendingInv, InAny, IntInvalid,
        queueVars, drvVars
<1>14. WorkInv'
  BY DEF QuietInv, WorkInv, InQueue, InWorker, Completing, IntInvalid, queueVars, wiVars, cfgVars
<1>15. (OneType => fault # "completed twice")'
  BY DEF QuietInv, OneType, IntInvalid, queueVars
<1> QED
  BY <1>8, <1>9, <1>10, <1>11, <1>12, <1>13, <1>14, <1>15 DEF QuietInv

\* IsrSnapshot keeps the invariant of a quiet window.
LEMMA IsrSnapshotQuiet ==
  ASSUME TypeOK, TypeOK', fault = "none", Quiet, QuietInv, IsrSnapshot
  PROVE  QuietInv'
<1>1. OnePlace'
  BY DEF QuietInv, OnePlace, Active, InGo, InInt, InLookup, InAny, InQueue, InWorker,
        InNoWorker, At, IsrSnapshot, queueVars, wiVars
<1>2. QueueInv'
  BY DEF QuietInv, QueueInv, Unstarted, FirstDir, IsrSnapshot, queueVars, cfgVars
<1>3. DeviceInv'
  BY DEF QuietInv, DeviceInv, InGo, InInt, FirstDir, IsChained, IsrSnapshot, queueVars, drvVars
<1>4. UiInv'
  BY DEF QuietInv, UiInv, InGo, FirstDir, IsrSnapshot
<1>5. IntInv'
  BY DEF QuietInv, IntInv, InInt, InLookup, At, FirstDir, IsChained, IsrSnapshot, queueVars
<1>6. PendingInv'
  BY DEF QuietInv, PendingInv, InAny, IsrSnapshot, queueVars, drvVars
<1>7. WorkInv'
  BY DEF QuietInv, WorkInv, InQueue, InWorker, Completing, IsrSnapshot, queueVars, wiVars, cfgVars
<1>8. (OneType => fault # "completed twice")'
  BY DEF QuietInv, OneType, IsrSnapshot, queueVars
<1> QED
  BY <1>1, <1>2, <1>3, <1>4, <1>5, <1>6, <1>7, <1>8 DEF QuietInv

\* IsrCheck keeps the invariant of a quiet window.
LEMMA IsrCheckQuiet ==
  ASSUME TypeOK, TypeOK', fault = "none", Quiet, QuietInv, IsrCheck
  PROVE  QuietInv'
<1>1. InInt /\ regs.IntID # {}
  BY DEF QuietInv, IntInv, DeviceInv, At, InInt, IsrCheck, WorkerAt
<1>2. /\ int'.pc = "reset" /\ int'.type = int.type /\ int'.IntID = int.IntID
      /\ int'.Control = int.Control
  BY <1>1 DEF TypeOK, IntState, Int, IsrCheck, WorkerAt, At
<1>3. OnePlace'
  BY <1>1, <1>2 DEF QuietInv, OnePlace, Active, InGo, InInt, InLookup, InAny, InQueue, InWorker,
        InNoWorker, At, IsrCheck, queueVars, wiVars
<1>4. QueueInv'
  BY DEF QuietInv, QueueInv, Unstarted, FirstDir, IsrCheck, queueVars, cfgVars
<1>5. DeviceInv'
  BY <1>1, <1>2 DEF QuietInv, DeviceInv, InGo, InInt, FirstDir, IsChained, IsrCheck, queueVars,
        drvVars
<1>6. UiInv'
  BY DEF QuietInv, UiInv, InGo, FirstDir, IsrCheck
<1>7. IntInv'
  BY <1>1, <1>2 DEF QuietInv, IntInv, InInt, InLookup, At, FirstDir, IsChained, IsrCheck,
        queueVars
<1>8. PendingInv'
  BY <1>1, <1>2 DEF QuietInv, PendingInv, InAny, IsrCheck, queueVars, drvVars
<1>9. WorkInv'
  BY DEF QuietInv, WorkInv, InQueue, InWorker, Completing, IsrCheck, queueVars, wiVars, cfgVars
<1>10. (OneType => fault # "completed twice")'
  BY DEF QuietInv, OneType, IsrCheck, queueVars
<1> QED
  BY <1>3, <1>4, <1>5, <1>6, <1>7, <1>8, <1>9, <1>10 DEF QuietInv

\* IsrReject keeps the invariant of a quiet window.
LEMMA IsrRejectQuiet ==
  ASSUME TypeOK, TypeOK', fault = "none", Quiet, QuietInv, IsrReject
  PROVE  QuietInv'
<1>1. OnePlace'
  BY RequestsAssumption DEF TypeOK, Registers, IntState, WorkerState, WorkContext, Handle,
        Status, Quiet, QuietInv, cfgVars, queueVars, drvVars, wiVars, OnePlace, Active, InGo,
        InInt, InLookup, InAny, InQueue, InWorker, InNoWorker, At, QueueInv, Unstarted,
        FirstDir, DeviceInv, IsChained, UiInv, IntInv, PendingInv, WorkInv, Completing, OneType,
        IsrReject
<1>2. QueueInv'
  BY DEF QuietInv, QueueInv, Unstarted, FirstDir, IsrReject, queueVars, cfgVars
<1>3. DeviceInv'
  BY DEF QuietInv, DeviceInv, InGo, InInt, FirstDir, IsChained, IsrReject, queueVars, drvVars
<1>4. UiInv'
  BY DEF QuietInv, UiInv, InGo, FirstDir, IsrReject
<1>5. IntInv'
  BY DEF QuietInv, IntInv, InInt, InLookup, At, FirstDir, IsChained, IsrReject, queueVars
<1>6. PendingInv'
  BY RequestsAssumption DEF TypeOK, Registers, IntState, WorkerState, WorkContext, Handle,
        Status, Quiet, QuietInv, cfgVars, queueVars, drvVars, wiVars, OnePlace, Active, InGo,
        InInt, InLookup, InAny, InQueue, InWorker, InNoWorker, At, QueueInv, Unstarted,
        FirstDir, DeviceInv, IsChained, UiInv, IntInv, PendingInv, WorkInv, Completing, OneType,
        IsrReject
<1>7. WorkInv'
  BY DEF QuietInv, WorkInv, InQueue, InWorker, Completing, IsrReject, queueVars, wiVars, cfgVars
<1>8. (OneType => fault # "completed twice")'
  BY DEF QuietInv, OneType, IsrReject, queueVars
<1> QED
  BY <1>1, <1>2, <1>3, <1>4, <1>5, <1>6, <1>7, <1>8 DEF QuietInv

\* IsrReset keeps the invariant of a quiet window.
LEMMA IsrResetQuiet ==
  ASSUME TypeOK, TypeOK', fault = "none", Quiet, QuietInv, IsrReset
  PROVE  QuietInv'
<1>1. InInt /\ owner \in Requests
  BY DEF QuietInv, IntInv, OnePlace, Active, At, IsrReset, WorkerAt
<1>2. /\ regs'.IntEnable = {} /\ regs'.Control = {} /\ regs'.IntID = {} /\ regs'.MesgID = 0
      /\ regs'.HostAddr = regs.HostAddr
  BY <1>1 DEF TypeOK, Registers, IsrReset, WorkerAt, At
<1>3. /\ int'.pc = "lookup" /\ int'.type = int.type /\ int'.IntID = int.IntID
      /\ int'.Control = int.Control
  BY <1>1, <1>2 DEF TypeOK, IntState, Int, IsrReset, WorkerAt, At
<1>4. OnePlace'
  BY <1>1, <1>2, <1>3 DEF QuietInv, OnePlace, Active, InGo, InInt, InLookup, InAny, InQueue,
        InWorker, InNoWorker, At, IsrReset, queueVars, wiVars
<1>5. QueueInv'
  BY DEF QuietInv, QueueInv, Unstarted, FirstDir, IsrReset, queueVars, cfgVars
<1>6. DeviceInv'
  BY DEF QuietInv, DeviceInv, InGo, InInt, FirstDir, IsChained, IsrReset, queueVars, drvVars
<1>7. UiInv'
  BY <1>1, <1>2, <1>3, RequestsAssumption DEF QuietInv, cfgVars, queueVars, drvVars, wiVars,
        UiInv, InGo, FirstDir, IsrReset, OnePlace, Active, InInt, InLookup, InAny, QueueInv,
        Unstarted, At
<1>8. IntInv'
  BY <1>1, <1>2, <1>3, RequestsAssumption DEF TypeOK, Quiet, QuietInv, cfgVars, queueVars,
        drvVars, wiVars, OnePlace, Active, InGo, InInt, InLookup, InAny, InQueue, InWorker,
        InNoWorker, At, QueueInv, Unstarted, FirstDir, DeviceInv, IsChained, UiInv, IntInv,
        PendingInv, WorkInv, Completing, OneType, IsrReset
<1>9. PendingInv'
  BY <1>1, <1>2, <1>3 DEF QuietInv, PendingInv, InAny, IsrReset, queueVars, drvVars
<1>10. WorkInv'
  BY DEF QuietInv, WorkInv, InQueue, InWorker, Completing, IsrReset, queueVars, wiVars, cfgVars
<1>11. (OneType => fault # "completed twice")'
  BY DEF QuietInv, OneType, IsrReset, queueVars
<1> QED
  BY <1>4, <1>5, <1>6, <1>7, <1>8, <1>9, <1>10, <1>11 DEF QuietInv

\* DpcEnqueue keeps the invariant of a quiet window.
LEMMA DpcEnqueueQuiet ==
  ASSUME TypeOK, TypeOK', fault = "none", Quiet, QuietInv, DpcEnqueue
  PROVE  QuietInv'
<1>1. /\ InLookup /\ FirstDir \in int.IntID /\ int.IntID \subseteq {"ALERT", FirstDir} /\ owner \in Requests
      /\ "CHAINED_DMA" \in int.Control <=> IsChained(owner)
  BY DEF QuietInv, IntInv, OnePlace, Active, InLookup, At, DpcEnqueue, WorkerAt
<1>2. Active
  BY <1>1 DEF Active
<1>3. type[owner] \in ReqTypes
  BY <1>2, OwnerTyped
<1>4. Determined = type[owner]
  BY <1>1, <1>2, AnalyzeOwner DEF Determined
<1>5. Found \in {owner, NoRequest}
  BY <1>1, <1>2, <1>3, <1>4 DEF QuietInv, PendingInv, OnePlace, Active, InLookup, Found,
        DpcEnqueue, WorkerAt, At
<1>6. /\ wi'.req = Found /\ (wi'.NtStatus = "success" => xfers[owner] = 1)
  BY <1>1, <1>2, <1>3, <1>4, <1>5 DEF QuietInv, IntInv, Error, DpcEnqueue, WorkerAt, At
<1>7. /\ int'.pc = "finish" /\ int'.type = int.type /\ int'.IntID = int.IntID
      /\ int'.Control = int.Control
  BY <1>1, <1>2, <1>3, <1>4, <1>5, <1>6 DEF TypeOK, IntState, Int, DpcEnqueue, WorkerAt, At
<1>8. OnePlace'
  BY <1>1, <1>2, <1>3, <1>4, <1>5, <1>6, <1>7 DEF QuietInv, OnePlace, Active, InGo, InInt,
        InLookup, InAny, InQueue, InWorker, InNoWorker, At, DpcEnqueue, queueVars, wiVars
<1>9. QueueInv'
  BY DEF QuietInv, QueueInv, Unstarted, FirstDir, DpcEnqueue, queueVars, cfgVars
<1>10. DeviceInv'
  BY <1>1, <1>2, <1>3, <1>4, <1>5, <1>6, <1>7, RequestsAssumption DEF QuietInv, cfgVars,
        queueVars, drvVars, wiVars, DeviceInv, InGo, InInt, FirstDir, IsChained, DpcEnqueue,
        OnePlace, Active, InLookup, InAny, QueueInv, Unstarted, At
<1>11. UiInv'
  BY DEF QuietInv, UiInv, InGo, FirstDir, DpcEnqueue
<1>12. IntInv'
  BY <1>1, <1>2, <1>3, <1>4, <1>5, <1>6, <1>7 DEF QuietInv, IntInv, InInt, InLookup, At,
        FirstDir, IsChained, DpcEnqueue, queueVars
<1>13. PendingInv'
  BY <1>1, <1>2, <1>3, <1>4, <1>5, <1>6, <1>7 DEF QuietInv, PendingInv, InAny, DpcEnqueue,
        queueVars, drvVars
<1>14. WorkInv'
  BY <1>1, <1>2, <1>3, <1>4, <1>5, <1>6, <1>7 DEF QuietInv, WorkInv, InQueue, InWorker,
        Completing, DpcEnqueue, queueVars, wiVars, cfgVars
<1>15. (OneType => fault # "completed twice")'
  BY DEF QuietInv, OneType, DpcEnqueue, queueVars
<1> QED
  BY <1>8, <1>9, <1>10, <1>11, <1>12, <1>13, <1>14, <1>15 DEF QuietInv

\* DpcUndefined keeps the invariant of a quiet window.
LEMMA DpcUndefinedQuiet ==
  ASSUME TypeOK, TypeOK', fault = "none", Quiet, QuietInv, DpcUndefined
  PROVE  QuietInv'
<1>1. /\ InLookup /\ FirstDir \in int.IntID /\ int.IntID \subseteq {"ALERT", FirstDir} /\ owner \in Requests
      /\ "CHAINED_DMA" \in int.Control <=> IsChained(owner)
  BY DEF QuietInv, IntInv, OnePlace, Active, InLookup, At, DpcUndefined, WorkerAt
<1>2. Active
  BY <1>1 DEF Active
<1>3. type[owner] \in ReqTypes
  BY <1>2, OwnerTyped
<1>4. Determined = type[owner]
  BY <1>1, <1>2, AnalyzeOwner DEF Determined
<1>5. FALSE
  BY <1>3, <1>4 DEF DpcUndefined
<1>6. OnePlace'
  BY DEF QuietInv, OnePlace, Active, InGo, InInt, InLookup, InAny, InQueue, InWorker,
        InNoWorker, At, DpcUndefined, queueVars, wiVars
<1>7. QueueInv'
  BY DEF QuietInv, QueueInv, Unstarted, FirstDir, DpcUndefined, queueVars, cfgVars
<1>8. DeviceInv'
  BY <1>1, <1>2, <1>3, <1>4, <1>5 DEF QuietInv, DeviceInv, InGo, InInt, FirstDir, IsChained,
        DpcUndefined, queueVars, drvVars
<1>9. UiInv'
  BY DEF QuietInv, UiInv, InGo, FirstDir, DpcUndefined
<1>10. IntInv'
  BY <1>1, <1>2, <1>3, <1>4, <1>5 DEF QuietInv, IntInv, InInt, InLookup, At, FirstDir,
        IsChained, DpcUndefined, queueVars
<1>11. PendingInv'
  BY <1>1, <1>2, <1>3, <1>4, <1>5 DEF QuietInv, PendingInv, InAny, DpcUndefined, queueVars,
        drvVars
<1>12. WorkInv'
  BY DEF QuietInv, WorkInv, InQueue, InWorker, Completing, DpcUndefined, queueVars, wiVars,
        cfgVars
<1>13. (OneType => fault # "completed twice")'
  BY DEF QuietInv, OneType, DpcUndefined, queueVars
<1> QED
  BY <1>6, <1>7, <1>8, <1>9, <1>10, <1>11, <1>12, <1>13 DEF QuietInv

\* DpcError keeps the invariant of a quiet window.
LEMMA DpcErrorQuiet ==
  ASSUME TypeOK, TypeOK', fault = "none", Quiet, QuietInv, DpcError
  PROVE  QuietInv'
<1>1. /\ InLookup /\ FirstDir \in int.IntID /\ int.IntID \subseteq {"ALERT", FirstDir} /\ owner \in Requests
      /\ "CHAINED_DMA" \in int.Control <=> IsChained(owner)
  BY DEF QuietInv, IntInv, OnePlace, Active, InLookup, At, DpcError, WorkerAt
<1>2. Active
  BY <1>1 DEF Active
<1>3. type[owner] \in ReqTypes
  BY <1>2, OwnerTyped
<1>4. Determined = type[owner]
  BY <1>1, <1>2, AnalyzeOwner DEF Determined
<1>5. hPendingReqs[type[owner]] = NoRequest
  BY <1>1, <1>2, <1>3, <1>4 DEF Found, DpcError, WorkerAt, At
<1>6. /\ int'.pc = "any" /\ int'.type = int.type /\ int'.IntID = int.IntID
      /\ int'.Control = int.Control
  BY <1>1, <1>2, <1>3, <1>4, <1>5 DEF TypeOK, IntState, Int, DpcError, WorkerAt, At
<1>7. OnePlace'
  BY DEF QuietInv, OnePlace, Active, InGo, InInt, InLookup, InAny, InQueue, InWorker,
        InNoWorker, At, DpcError, queueVars, wiVars
<1>8. QueueInv'
  BY DEF QuietInv, QueueInv, Unstarted, FirstDir, DpcError, queueVars, cfgVars
<1>9. DeviceInv'
  BY <1>1, <1>2, <1>3, <1>4, <1>5, <1>6 DEF QuietInv, DeviceInv, InGo, InInt, FirstDir,
        IsChained, DpcError, queueVars, drvVars
<1>10. UiInv'
  BY DEF QuietInv, UiInv, InGo, FirstDir, DpcError
<1>11. IntInv'
  BY <1>1, <1>2, <1>3, <1>4, <1>5, <1>6 DEF QuietInv, IntInv, InInt, InLookup, At, FirstDir,
        IsChained, DpcError, queueVars
<1>12. PendingInv'
  BY <1>1, <1>2, <1>3, <1>4, <1>5, <1>6 DEF QuietInv, PendingInv, InAny, DpcError, queueVars,
        drvVars
<1>13. WorkInv'
  BY DEF QuietInv, WorkInv, InQueue, InWorker, Completing, DpcError, queueVars, wiVars, cfgVars
<1>14. (OneType => fault # "completed twice")'
  BY DEF QuietInv, OneType, DpcError, queueVars
<1> QED
  BY <1>7, <1>8, <1>9, <1>10, <1>11, <1>12, <1>13, <1>14 DEF QuietInv

\* DpcCompleteAny keeps the invariant of a quiet window.
LEMMA DpcCompleteAnyQuiet ==
  ASSUME TypeOK, TypeOK', fault = "none", Quiet, QuietInv, NEW t \in ReqTypes, DpcCompleteAny(t)
  PROVE  QuietInv'
<1>1. InAny /\ owner \in Requests
  BY DEF QuietInv, OnePlace, Active, InAny, At, DpcCompleteAny, WorkerAt
<1>2. hPendingReqs[t] \in Requests /\ type[hPendingReqs[t]] = t /\ t # type[owner]
  BY <1>1 DEF TypeOK, Handle, Pending, QuietInv, PendingInv, DpcCompleteAny, WorkerAt, At
<1>3. result[hPendingReqs[t]] # "none"
  BY <1>1, <1>2 DEF QuietInv, PendingInv, DpcCompleteAny, WorkerAt, At
<1>4. fault' = "completed twice" /\ result' = result /\ owner' = owner
  BY <1>1, <1>2, <1>3, RequestsAssumption DEF Complete, DpcCompleteAny, WorkerAt, At
<1>5. ~OneType
  BY <1>1, <1>2, OwnerTyped DEF OneType, Active
<1>6. int'.pc = "wipe" /\ int'.type = t /\ int'.IntID = int.IntID /\ int'.Control = int.Control
  BY <1>1, <1>2, <1>3, <1>4, <1>5 DEF TypeOK, IntState, DpcCompleteAny, WorkerAt, At
<1>7. OnePlace'
  BY <1>1, <1>2, <1>3, <1>4, <1>5, <1>6 DEF QuietInv, OnePlace, Active, InGo, InInt, InLookup,
        InAny, InQueue, InWorker, InNoWorker, At, DpcCompleteAny, queueVars, wiVars
<1>8. QueueInv'
  BY <1>1, <1>2, <1>3, <1>4, <1>5, <1>6 DEF QuietInv, QueueInv, Unstarted, FirstDir,
        DpcCompleteAny, queueVars, cfgVars
<1>9. DeviceInv'
  BY <1>1, <1>2, <1>3, <1>4, <1>5, <1>6 DEF QuietInv, DeviceInv, InGo, InInt, FirstDir,
        IsChained, DpcCompleteAny, queueVars, drvVars
<1>10. UiInv'
  BY DEF QuietInv, UiInv, InGo, FirstDir, DpcCompleteAny
<1>11. IntInv'
  BY DEF QuietInv, IntInv, InInt, InLookup, At, FirstDir, IsChained, DpcCompleteAny, queueVars
<1>12. PendingInv'
  BY <1>1, <1>2, <1>3, <1>4, <1>5, <1>6 DEF QuietInv, PendingInv, InAny, DpcCompleteAny,
        queueVars, drvVars
<1>13. WorkInv'
  BY <1>1, <1>2, <1>3, <1>4, <1>5, <1>6 DEF QuietInv, WorkInv, InQueue, InWorker, Completing,
        DpcCompleteAny, queueVars, wiVars, cfgVars
<1>14. (OneType => fault # "completed twice")'
  BY <1>1, <1>2, <1>3, <1>4, <1>5, <1>6 DEF QuietInv, OneType, DpcCompleteAny, queueVars
<1> QED
  BY <1>7, <1>8, <1>9, <1>10, <1>11, <1>12, <1>13, <1>14 DEF QuietInv

\* DpcWipe keeps the invariant of a quiet window.
LEMMA DpcWipeQuiet ==
  ASSUME TypeOK, TypeOK', fault = "none", Quiet, QuietInv, DpcWipe
  PROVE  QuietInv'
<1>1. /\ int'.pc = "any" /\ int'.type = int.type /\ int'.IntID = int.IntID
      /\ int'.Control = int.Control
  BY DEF TypeOK, IntState, Int, DpcWipe, WorkerAt, At
<1>2. OnePlace'
  BY DEF QuietInv, OnePlace, Active, InGo, InInt, InLookup, InAny, InQueue, InWorker,
        InNoWorker, At, DpcWipe, queueVars, wiVars
<1>3. QueueInv'
  BY DEF QuietInv, QueueInv, Unstarted, FirstDir, DpcWipe, queueVars, cfgVars
<1>4. DeviceInv'
  BY <1>1 DEF QuietInv, DeviceInv, InGo, InInt, FirstDir, IsChained, DpcWipe, queueVars, drvVars
<1>5. UiInv'
  BY DEF QuietInv, UiInv, InGo, FirstDir, DpcWipe
<1>6. IntInv'
  BY <1>1 DEF QuietInv, IntInv, InInt, InLookup, At, FirstDir, IsChained, DpcWipe, queueVars
<1>7. PendingInv'
  BY <1>1, RequestsAssumption DEF QuietInv, cfgVars, queueVars, drvVars, wiVars, PendingInv,
        InAny, DpcWipe, OnePlace, Active, InGo, InInt, InLookup, QueueInv, Unstarted, At
<1>8. WorkInv'
  BY DEF QuietInv, WorkInv, InQueue, InWorker, Completing, DpcWipe, queueVars, wiVars, cfgVars
<1>9. (OneType => fault # "completed twice")'
  BY DEF QuietInv, OneType, DpcWipe, queueVars
<1> QED
  BY <1>2, <1>3, <1>4, <1>5, <1>6, <1>7, <1>8, <1>9 DEF QuietInv

\* DpcAnyEnd keeps the invariant of a quiet window.
LEMMA DpcAnyEndQuiet ==
  ASSUME TypeOK, TypeOK', fault = "none", Quiet, QuietInv, DpcAnyEnd
  PROVE  QuietInv'
<1>1. /\ int'.pc = "finish" /\ int'.type = int.type /\ int'.IntID = int.IntID
      /\ int'.Control = int.Control
  BY DEF TypeOK, IntState, Int, DpcAnyEnd, WorkerAt, At
<1>2. OnePlace'
  BY DEF QuietInv, OnePlace, Active, InGo, InInt, InLookup, InAny, InQueue, InWorker,
        InNoWorker, At, DpcAnyEnd, queueVars, wiVars
<1>3. QueueInv'
  BY DEF QuietInv, QueueInv, Unstarted, FirstDir, DpcAnyEnd, queueVars, cfgVars
<1>4. DeviceInv'
  BY <1>1, RequestsAssumption DEF QuietInv, cfgVars, queueVars, drvVars, wiVars, DeviceInv,
        InGo, InInt, FirstDir, IsChained, DpcAnyEnd, OnePlace, Active, InLookup, InAny,
        QueueInv, Unstarted, At
<1>5. UiInv'
  BY DEF QuietInv, UiInv, InGo, FirstDir, DpcAnyEnd
<1>6. IntInv'
  BY <1>1 DEF QuietInv, IntInv, InInt, InLookup, At, FirstDir, IsChained, DpcAnyEnd, queueVars
<1>7. PendingInv'
  BY <1>1 DEF QuietInv, PendingInv, InAny, DpcAnyEnd, queueVars, drvVars
<1>8. WorkInv'
  BY DEF QuietInv, WorkInv, InQueue, InWorker, Completing, DpcAnyEnd, queueVars, wiVars, cfgVars
<1>9. (OneType => fault # "completed twice")'
  BY DEF QuietInv, OneType, DpcAnyEnd, queueVars
<1> QED
  BY <1>2, <1>3, <1>4, <1>5, <1>6, <1>7, <1>8, <1>9 DEF QuietInv

\* DpcFinish keeps the invariant of a quiet window.
LEMMA DpcFinishQuiet ==
  ASSUME TypeOK, TypeOK', fault = "none", Quiet, QuietInv, DpcFinish
  PROVE  QuietInv'
<1>1. /\ regs'.IntEnable = IntBits /\ regs'.Control = regs.Control
      /\ regs'.IntID = regs.IntID /\ regs'.MesgID = regs.MesgID
      /\ regs'.HostAddr = NoRequest
  BY DEF TypeOK, Registers, DpcFinish, WorkerAt, At
<1>2. /\ int'.pc = "poll" /\ int'.type = int.type /\ int'.IntID = int.IntID
      /\ int'.Control = int.Control
  BY <1>1 DEF TypeOK, IntState, Int, DpcFinish, WorkerAt, At
<1>3. OnePlace'
  BY <1>1, <1>2 DEF QuietInv, OnePlace, Active, InGo, InInt, InLookup, InAny, InQueue, InWorker,
        InNoWorker, At, DpcFinish, queueVars, wiVars
<1>4. QueueInv'
  BY DEF QuietInv, QueueInv, Unstarted, FirstDir, DpcFinish, queueVars, cfgVars
<1>5. DeviceInv'
  BY <1>1, <1>2, RequestsAssumption DEF QuietInv, cfgVars, queueVars, drvVars, wiVars,
        DeviceInv, InGo, InInt, FirstDir, IsChained, DpcFinish, OnePlace, Active, InLookup,
        InAny, QueueInv, Unstarted, At
<1>6. UiInv'
  BY DEF QuietInv, UiInv, InGo, FirstDir, DpcFinish
<1>7. IntInv'
  BY <1>1, <1>2 DEF QuietInv, IntInv, InInt, InLookup, At, FirstDir, IsChained, DpcFinish,
        queueVars
<1>8. PendingInv'
  BY <1>1, <1>2 DEF QuietInv, PendingInv, InAny, DpcFinish, queueVars, drvVars
<1>9. WorkInv'
  BY DEF QuietInv, WorkInv, InQueue, InWorker, Completing, DpcFinish, queueVars, wiVars, cfgVars
<1>10. (OneType => fault # "completed twice")'
  BY DEF QuietInv, OneType, DpcFinish, queueVars
<1> QED
  BY <1>3, <1>4, <1>5, <1>6, <1>7, <1>8, <1>9, <1>10 DEF QuietInv

\* BufrdWorkItem keeps the invariant of a quiet window.
LEMMA BufrdWorkItemQuiet ==
  ASSUME TypeOK, TypeOK', fault = "none", Quiet, QuietInv, NEW w \in Workers, BufrdWorkItem(w)
  PROVE  QuietInv'
<1>1. /\ worker'[w].pc = "complete" /\ worker'[w].req = worker[w].req
      /\ worker'[w].NtStatus = worker[w].NtStatus
      /\ \A v \in Workers \ {w} : worker'[v] = worker[v]
  BY DEF TypeOK, WorkerState, BufrdWorkItem, WorkerAt, At
<1>2. OnePlace'
  BY DEF QuietInv, OnePlace, Active, InGo, InInt, InLookup, InAny, InQueue, InWorker,
        InNoWorker, At, BufrdWorkItem, queueVars, wiVars
<1>3. QueueInv'
  BY DEF QuietInv, QueueInv, Unstarted, FirstDir, BufrdWorkItem, queueVars, cfgVars
<1>4. DeviceInv'
  BY DEF QuietInv, DeviceInv, InGo, InInt, FirstDir, IsChained, BufrdWorkItem, queueVars, drvVars
<1>5. UiInv'
  BY DEF QuietInv, UiInv, InGo, FirstDir, BufrdWorkItem
<1>6. IntInv'
  BY DEF QuietInv, IntInv, InInt, InLookup, At, FirstDir, IsChained, BufrdWorkItem, queueVars
<1>7. PendingInv'
  BY DEF QuietInv, PendingInv, InAny, BufrdWorkItem, queueVars, drvVars
<1>8. WorkInv'
  BY DEF QuietInv, WorkInv, InQueue, InWorker, Completing, BufrdWorkItem, queueVars, wiVars,
        cfgVars
<1>9. (OneType => fault # "completed twice")'
  BY DEF QuietInv, OneType, BufrdWorkItem, queueVars
<1> QED
  BY <1>2, <1>3, <1>4, <1>5, <1>6, <1>7, <1>8, <1>9 DEF QuietInv

\* DmaWorkItem keeps the invariant of a quiet window.
LEMMA DmaWorkItemQuiet ==
  ASSUME TypeOK, TypeOK', fault = "none", Quiet, QuietInv, NEW w \in Workers, DmaWorkItem(w)
  PROVE  QuietInv'
<1>1. InQueue /\ owner \in Requests /\ \A v \in Workers : ~InWorker(v)
  BY DEF QuietInv, OnePlace, Active, InNoWorker, InQueue, DmaWorkItem, WorkerAt, At
<1>2. /\ worker'[w].pc = "delete" /\ worker'[w].req = wi.req
      /\ worker'[w].NtStatus = wi.NtStatus
      /\ \A v \in Workers \ {w} : worker'[v] = worker[v]
  BY <1>1 DEF TypeOK, WorkerState, DmaWorkItem, WorkerAt, At
<1>3. \A v \in Workers : InWorker(v)' <=> v = w
  BY <1>1, <1>2 DEF InWorker, DmaWorkItem, WorkerAt, At
<1>4. \A v \in Workers : InWorker(v)' => Completing(v)'.req = wi.req /\ Completing(v)'.NtStatus = wi.NtStatus
  BY <1>1, <1>2, <1>3 DEF Completing, InWorker, cfgVars, DmaWorkItem, WorkerAt, At
<1>5. OnePlace'
  BY <1>1, <1>2, <1>3, <1>4 DEF QuietInv, OnePlace, Active, InGo, InInt, InLookup, InAny,
        InQueue, InNoWorker, At, DmaWorkItem, queueVars, wiVars
<1>6. QueueInv'
  BY DEF QuietInv, QueueInv, Unstarted, FirstDir, DmaWorkItem, queueVars, cfgVars
<1>7. DeviceInv'
  BY DEF QuietInv, DeviceInv, InGo, InInt, FirstDir, IsChained, DmaWorkItem, queueVars, drvVars
<1>8. UiInv'
  BY DEF QuietInv, UiInv, InGo, FirstDir, DmaWorkItem
<1>9. IntInv'
  BY DEF QuietInv, IntInv, InInt, InLookup, At, FirstDir, IsChained, DmaWorkItem, queueVars
<1>10. PendingInv'
  BY DEF QuietInv, PendingInv, InAny, DmaWorkItem, queueVars, drvVars
<1>11. WorkInv'
  BY <1>1, <1>2, <1>3, <1>4 DEF QuietInv, WorkInv, InQueue, DmaWorkItem, queueVars, wiVars,
        cfgVars
<1>12. (OneType => fault # "completed twice")'
  BY DEF QuietInv, OneType, DmaWorkItem, queueVars
<1> QED
  BY <1>5, <1>6, <1>7, <1>8, <1>9, <1>10, <1>11, <1>12 DEF QuietInv

\* DeleteXaxn keeps the invariant of a quiet window.
LEMMA DeleteXaxnQuiet ==
  ASSUME TypeOK, TypeOK', fault = "none", Quiet, QuietInv, NEW w \in Workers, DeleteXaxn(w)
  PROVE  QuietInv'
<1>1. /\ worker'[w].pc = "complete" /\ worker'[w].req = worker[w].req
      /\ worker'[w].NtStatus = worker[w].NtStatus
      /\ \A v \in Workers \ {w} : worker'[v] = worker[v]
  BY DEF TypeOK, WorkerState, DeleteXaxn, WorkerAt, At
<1>2. \A v \in Workers : InWorker(v)' <=> InWorker(v)
  BY <1>1 DEF InWorker, DeleteXaxn, WorkerAt, At
<1>3. \A v \in Workers : Completing(v)' = Completing(v)
  BY <1>1, <1>2 DEF Completing, InWorker, cfgVars, DeleteXaxn, WorkerAt, At
<1>4. OnePlace'
  BY <1>1, <1>2, <1>3 DEF QuietInv, OnePlace, Active, InGo, InInt, InLookup, InAny, InQueue,
        InNoWorker, At, DeleteXaxn, queueVars, wiVars
<1>5. QueueInv'
  BY DEF QuietInv, QueueInv, Unstarted, FirstDir, DeleteXaxn, queueVars, cfgVars
<1>6. DeviceInv'
  BY DEF QuietInv, DeviceInv, InGo, InInt, FirstDir, IsChained, DeleteXaxn, queueVars, drvVars
<1>7. UiInv'
  BY DEF QuietInv, UiInv, InGo, FirstDir, DeleteXaxn
<1>8. IntInv'
  BY DEF QuietInv, IntInv, InInt, InLookup, At, FirstDir, IsChained, DeleteXaxn, queueVars
<1>9. PendingInv'
  BY DEF QuietInv, PendingInv, InAny, DeleteXaxn, queueVars, drvVars
<1>10. WorkInv'
  BY <1>1, <1>2, <1>3 DEF QuietInv, WorkInv, InQueue, DeleteXaxn, queueVars, wiVars, cfgVars
<1>11. (OneType => fault # "completed twice")'
  BY DEF QuietInv, OneType, DeleteXaxn, queueVars
<1> QED
  BY <1>4, <1>5, <1>6, <1>7, <1>8, <1>9, <1>10, <1>11 DEF QuietInv

\* WorkerCompletes keeps the invariant of a quiet window.
LEMMA WorkerCompletesQuiet ==
  ASSUME TypeOK, TypeOK', fault = "none", Quiet, QuietInv, NEW w \in Workers, WorkerCompletes(w)
  PROVE  QuietInv'
<1>1. /\ InWorker(w) /\ owner \in Requests /\ pc[owner] \in {"record", "done"} /\ result[owner] = "none"
      /\ Completing(w).req \in {owner, NoRequest} /\ (Completing(w).NtStatus = "success" => xfers[owner] = 1)
  BY DEF QuietInv, QueueInv, OnePlace, Active, InNoWorker, WorkInv, InWorker, WorkerAt,
        WorkerCompletes, At
<1>2. /\ worker'[w].pc = "clear" /\ worker'[w].req = worker[w].req
      /\ worker'[w].NtStatus = worker[w].NtStatus
      /\ \A v \in Workers \ {w} : worker'[v] = worker[v]
  BY <1>1 DEF TypeOK, WorkerState, WorkerCompletes, WorkerAt, At
<1>3. \A v \in Workers : ~InWorker(v)'
  BY <1>1, <1>2 DEF QuietInv, OnePlace, InWorker, WorkerCompletes, WorkerAt, At
<1>4. ~InGo /\ ~InInt /\ ~InLookup /\ ~InAny /\ ~InQueue
  BY <1>1 DEF QuietInv, OnePlace, InNoWorker
<1>5. Completing(w).NtStatus \in Status
  BY <1>1, <1>2, <1>3, <1>4 DEF TypeOK, Completing, WorkContext, WorkerState, WorkerCompletes,
        WorkerAt, At
<1>6. /\ \/ owner' = owner /\ result' = result
         \/ /\ owner' = NoRequest /\ result'[owner] \in {"success", "error"}
            /\ result'[owner] = "success" => xfers[owner] = 1
      /\ fault' # "completed twice" /\ \A q \in Requests \ {owner} : result'[q] = result[q]
  <2>1. CASE Completing(w).req = NoRequest
    BY <1>1, <2>1 DEF WorkerCompletes, Complete
  <2>2. CASE Completing(w).req = owner
    <3>1. owner' = NoRequest /\ fault' = fault /\ result' = [result EXCEPT ![owner] = Completing(w).NtStatus]
      BY <1>1, <2>2, RequestsAssumption DEF WorkerCompletes, Complete
    <3> QED
      BY <1>1, <1>5, <2>2, <3>1 DEF TypeOK, Status
  <2> QED
    BY <1>1, <2>1, <2>2
<1>7. OnePlace'
  BY <1>1, <1>2, <1>3, <1>4, <1>5, <1>6 DEF QuietInv, OnePlace, Active, InGo, InInt, InLookup,
        InAny, InQueue, InNoWorker, At, WorkerCompletes, queueVars, wiVars
<1>8. QueueInv'
  BY <1>1, <1>6, RequestsAssumption DEF QuietInv, QueueInv, Unstarted, FirstDir, cfgVars,
        WorkerCompletes
<1>9. DeviceInv'
  BY <1>1, <1>4, <1>6, RequestsAssumption DEF QuietInv, cfgVars, drvVars, QueueInv, Unstarted,
        DeviceInv, InGo, InInt, FirstDir, IsChained, WorkerCompletes
<1>10. UiInv'
  BY DEF QuietInv, UiInv, InGo, FirstDir, WorkerCompletes
<1>11. IntInv'
  BY <1>1, <1>2, <1>3, <1>4, <1>5, <1>6 DEF QuietInv, IntInv, InInt, InLookup, At, FirstDir,
        IsChained, WorkerCompletes, queueVars
<1>12. PendingInv'
  BY <1>1, <1>2, <1>3, <1>4, <1>5, <1>6, RequestsAssumption DEF QuietInv, cfgVars, queueVars,
        drvVars, wiVars, PendingInv, InAny, WorkerCompletes
<1>13. WorkInv'
  BY <1>1, <1>2, <1>3, <1>4, <1>5, <1>6 DEF QuietInv, WorkInv, InQueue, WorkerCompletes,
        queueVars, wiVars, cfgVars
<1>14. (OneType => fault # "completed twice")'
  BY <1>1, <1>2, <1>3, <1>4, <1>5, <1>6 DEF QuietInv, OneType, WorkerCompletes, queueVars
<1> QED
  BY <1>7, <1>8, <1>9, <1>10, <1>11, <1>12, <1>13, <1>14 DEF QuietInv

\* ClearPending keeps the invariant of a quiet window.
LEMMA ClearPendingQuiet ==
  ASSUME TypeOK, TypeOK', fault = "none", Quiet, QuietInv, NEW w \in Workers, ClearPending(w)
  PROVE  QuietInv'
<1>1. worker'[w].pc = "idle" /\ \A v \in Workers \ {w} : worker'[v] = worker[v]
  BY DEF TypeOK, WorkerState, IdleWorker, ClearPending, WorkerAt, At
<1>2. \A v \in Workers : InWorker(v)' <=> InWorker(v)
  BY <1>1 DEF InWorker, ClearPending, WorkerAt, At
<1>3. \A v \in Workers : InWorker(v) => Completing(v)' = Completing(v)
  BY <1>1, <1>2 DEF Completing, InWorker, cfgVars, ClearPending, WorkerAt, At
<1>4. OnePlace'
  BY <1>1, <1>2, <1>3 DEF QuietInv, OnePlace, Active, InGo, InInt, InLookup, InAny, InQueue,
        InNoWorker, At, ClearPending, queueVars, wiVars
<1>5. QueueInv'
  BY DEF QuietInv, QueueInv, Unstarted, FirstDir, ClearPending, queueVars, cfgVars
<1>6. DeviceInv'
  BY DEF QuietInv, DeviceInv, InGo, InInt, FirstDir, IsChained, ClearPending, queueVars, drvVars
<1>7. UiInv'
  BY DEF QuietInv, UiInv, InGo, FirstDir, ClearPending
<1>8. IntInv'
  BY DEF QuietInv, IntInv, InInt, InLookup, At, FirstDir, IsChained, ClearPending, queueVars
<1>9. PendingInv'
  BY <1>1, <1>2, <1>3, RequestsAssumption DEF QuietInv, cfgVars, queueVars, drvVars, wiVars,
        PendingInv, InAny, ClearPending
<1>10. WorkInv'
  BY <1>1, <1>2, <1>3 DEF QuietInv, WorkInv, InQueue, ClearPending, queueVars, wiVars, cfgVars
<1>11. (OneType => fault # "completed twice")'
  BY DEF QuietInv, OneType, ClearPending, queueVars
<1> QED
  BY <1>4, <1>5, <1>6, <1>7, <1>8, <1>9, <1>10, <1>11 DEF QuietInv

-----------------------------------------------------------------------------
\* The driver loaded and the window opened: nothing is under way.
LEMMA InitInvariant == Init => WInv
<1> SUFFICES ASSUME Init PROVE WInv
  OBVIOUS
<1>1. TypeOK
  <2>1. regs \in Registers
    BY DEF Init, RegistersAtStart, Registers, Handle
  <2>2. int \in IntState
    BY DEF Init, IntState
  <2>3. worker \in [Workers -> WorkerState]
    BY DEF Init, IdleWorker, WorkerState, Handle, Status
  <2>4. wi \in WorkContext
    BY DEF Init, WorkContext, Handle, Status, ReqTypes, BufrdTypes
  <2>5. NoRequest \in Handle /\ "in" \in Dir /\ 0 \in 0 .. MaxXfers
    BY MaxXfersAssumption DEF Handle, Dir
  <2> QED
    BY <2>1, <2>2, <2>3, <2>4, <2>5 DEF Init, TypeOK
<1>2. ASSUME Quiet PROVE QuietInv
  <2>1. /\ regs.Control = {} /\ regs.MesgID = 0 /\ regs.IntID = {} /\ regs.HostAddr = NoRequest
        /\ int.pc = "poll" /\ ui.pc = "idle" /\ ~wiQueued
        /\ \A w \in Workers : worker[w].pc = "idle"
    BY DEF Init, RegistersAtStart, IdleWorker
  <2>2. ~InGo /\ ~InInt /\ ~InLookup /\ ~InAny /\ ~InQueue /\ \A w \in Workers : ~InWorker(w)
    BY <2>1 DEF InGo, InInt, InLookup, InAny, InQueue, InWorker, At
  <2>3. ~Active /\ OnePlace
    BY <2>2 DEF Active, OnePlace, InNoWorker
  <2>4. QueueInv
    BY RequestsAssumption DEF Init, QueueInv, Unstarted
  <2>5. DeviceInv
    BY <2>1, <2>2, RequestsAssumption DEF Init, DeviceInv
  <2>6. UiInv
    BY <2>1 DEF UiInv
  <2>7. IntInv
    BY <2>1, <2>2 DEF IntInv, At
  <2>8. PendingInv /\ WorkInv
    BY <2>2, RequestsAssumption DEF Init, PendingInv, WorkInv
  <2> QED
    BY <2>3, <2>4, <2>5, <2>6, <2>7, <2>8 DEF Init, QuietInv
<1> QED
  BY <1>1, <1>2 DEF WInv

\* What the application, the queue and the handler of one request do keeps the invariant.
LEMMA QueueInvariant ==
  ASSUME WInv, fault = "none", NEW r \in Requests, QueueStep(r)
  PROVE  WInv'
<1>0. TypeOK /\ (Quiet => QuietInv)
  BY DEF WInv
<1>1. ASSUME NEW d \in Dir, NEW chained \in BOOLEAN, Submit(r, d, chained)
      PROVE  WInv'
  BY <1>0, <1>1, SubmitType, SubmitQuiet DEF WInv, Quiet, cfgVars, Submit
<1>2. CASE Deliver(r)
  BY <1>0, <1>2, DeliverType, DeliverQuiet DEF WInv, Quiet, cfgVars, Deliver
<1>3. CASE Ready(r)
  BY <1>0, <1>3, ReadyType, ReadyQuiet DEF WInv, Quiet, cfgVars, Ready
<1>4. CASE NotReady(r)
  BY <1>0, <1>4, NotReadyType, NotReadyQuiet DEF WInv, Quiet, cfgVars, NotReady
<1>5. CASE ClearDevStatus(r)
  BY <1>0, <1>5, ClearDevStatusType, ClearDevStatusQuiet DEF WInv, Quiet, cfgVars, ClearDevStatus
<1>6. CASE Refuse(r)
  BY <1>0, <1>6, RefuseType, RefuseQuiet DEF WInv, Quiet, cfgVars, Refuse
<1>7. CASE SetPending(r)
  BY <1>0, <1>7, SetPendingType, SetPendingQuiet DEF WInv, Quiet, cfgVars, SetPending
<1>8. CASE ProgramRegs(r)
  BY <1>0, <1>8, ProgramRegsType, ProgramRegsQuiet DEF WInv, Quiet, cfgVars, ProgramRegs
<1>9. CASE SetGo(r)
  BY <1>0, <1>9, SetGoType, SetGoQuiet DEF WInv, Quiet, cfgVars, SetGo
<1>10. CASE RecordXaxn(r)
  BY <1>0, <1>10, RecordXaxnType, RecordXaxnQuiet DEF WInv, Quiet, cfgVars, RecordXaxn
<1> QED
  BY <1>1, <1>2, <1>3, <1>4, <1>5, <1>6, <1>7, <1>8, <1>9, <1>10 DEF QueueStep

\* What the window does keeps the invariant.
LEMMA UiInvariant ==
  ASSUME WInv, fault = "none", UiStep
  PROVE  WInv'
<1>0. TypeOK /\ (Quiet => QuietInv)
  BY DEF WInv
<1>1. ASSUME NEW d \in Dir, UiReadEnable(d)
      PROVE  WInv'
  BY <1>0, <1>1, UiReadEnableType, UiReadEnableQuiet DEF WInv, Quiet, cfgVars, UiReadEnable,
        uiUnchanged
<1>2. CASE UiReadControl
  BY <1>0, <1>2, UiReadControlType, UiReadControlQuiet DEF WInv, Quiet, cfgVars, UiReadControl,
        uiUnchanged
<1>3. CASE UiInject
  BY <1>0, <1>3, UiInjectType, UiInjectQuiet DEF WInv, Quiet, cfgVars, UiInject, uiUnchanged
<1>4. CASE UiAnswer
  BY <1>0, <1>4, UiAnswerType, UiAnswerQuiet DEF WInv, Quiet, cfgVars, UiAnswer, uiUnchanged
<1>5. CASE UiAck
  BY <1>0, <1>5, UiAckType, UiAckQuiet DEF WInv, Quiet, cfgVars, UiAck, uiUnchanged
<1>6. CASE UiSpurious
  BY <1>0, <1>6, UiSpuriousType, UiSpuriousQuiet DEF WInv, Quiet, cfgVars, UiSpurious, uiUnchanged
<1>7. CASE UiManual
  BY <1>0, <1>7, UiManualType DEF WInv, Quiet, cfgVars, UiManual, uiUnchanged
<1> QED
  BY <1>1, <1>2, <1>3, <1>4, <1>5, <1>6, <1>7 DEF UiStep

\* What the interrupt thread, the ISR and the DPC do keeps the invariant.
LEMMA IntInvariant ==
  ASSUME WInv, fault = "none", IntStep
  PROVE  WInv'
<1>0. TypeOK /\ (Quiet => QuietInv)
  BY DEF WInv
<1>1. CASE IntAnalyze
  BY <1>0, <1>1, IntAnalyzeType, IntAnalyzeQuiet DEF WInv, Quiet, cfgVars, IntAnalyze
<1>2. CASE IntMove
  BY <1>0, <1>2, IntMoveType, IntMoveQuiet DEF WInv, Quiet, cfgVars, IntMove
<1>3. CASE IntInvalid
  BY <1>0, <1>3, IntInvalidType, IntInvalidQuiet DEF WInv, Quiet, cfgVars, IntInvalid
<1>4. CASE IsrSnapshot
  BY <1>0, <1>4, IsrSnapshotType, IsrSnapshotQuiet DEF WInv, Quiet, cfgVars, IsrSnapshot
<1>5. CASE IsrCheck
  BY <1>0, <1>5, IsrCheckType, IsrCheckQuiet DEF WInv, Quiet, cfgVars, IsrCheck
<1>6. CASE IsrReject
  BY <1>0, <1>6, IsrRejectType, IsrRejectQuiet DEF WInv, Quiet, cfgVars, IsrReject
<1>7. CASE IsrReset
  BY <1>0, <1>7, IsrResetType, IsrResetQuiet DEF WInv, Quiet, cfgVars, IsrReset
<1>8. CASE DpcEnqueue
  BY <1>0, <1>8, DpcEnqueueType, DpcEnqueueQuiet DEF WInv, Quiet, cfgVars, DpcEnqueue
<1>9. CASE DpcUndefined
  BY <1>0, <1>9, DpcUndefinedType, DpcUndefinedQuiet DEF WInv, Quiet, cfgVars, DpcUndefined
<1>10. CASE DpcError
  BY <1>0, <1>10, DpcErrorType, DpcErrorQuiet DEF WInv, Quiet, cfgVars, DpcError
<1>11. ASSUME NEW t \in ReqTypes, DpcCompleteAny(t)
      PROVE  WInv'
  BY <1>0, <1>11, DpcCompleteAnyType, DpcCompleteAnyQuiet DEF WInv, Quiet, cfgVars, DpcCompleteAny
<1>12. CASE DpcWipe
  BY <1>0, <1>12, DpcWipeType, DpcWipeQuiet DEF WInv, Quiet, cfgVars, DpcWipe
<1>13. CASE DpcAnyEnd
  BY <1>0, <1>13, DpcAnyEndType, DpcAnyEndQuiet DEF WInv, Quiet, cfgVars, DpcAnyEnd
<1>14. CASE DpcFinish
  BY <1>0, <1>14, DpcFinishType, DpcFinishQuiet DEF WInv, Quiet, cfgVars, DpcFinish
<1> QED
  BY <1>1, <1>2, <1>3, <1>4, <1>5, <1>6, <1>7, <1>8, <1>9, <1>10, <1>11, <1>12, <1>13,
        <1>14 DEF IntStep

\* What a worker does keeps the invariant.
LEMMA WorkerInvariant ==
  ASSUME WInv, fault = "none", NEW w \in Workers, WorkerStep(w)
  PROVE  WInv'
<1>0. TypeOK /\ (Quiet => QuietInv)
  BY DEF WInv
<1>1. CASE BufrdWorkItem(w)
  BY <1>0, <1>1, BufrdWorkItemType, BufrdWorkItemQuiet DEF WInv, Quiet, cfgVars, BufrdWorkItem
<1>2. CASE DmaWorkItem(w)
  BY <1>0, <1>2, DmaWorkItemType, DmaWorkItemQuiet DEF WInv, Quiet, cfgVars, DmaWorkItem
<1>3. CASE DeleteXaxn(w)
  BY <1>0, <1>3, DeleteXaxnType, DeleteXaxnQuiet DEF WInv, Quiet, cfgVars, DeleteXaxn
<1>4. CASE WorkerCompletes(w)
  BY <1>0, <1>4, WorkerCompletesType, WorkerCompletesQuiet DEF WInv, Quiet, cfgVars,
        WorkerCompletes
<1>5. CASE ClearPending(w)
  BY <1>0, <1>5, ClearPendingType, ClearPendingQuiet DEF WInv, Quiet, cfgVars, ClearPending
<1> QED
  BY <1>1, <1>2, <1>3, <1>4, <1>5 DEF WorkerStep

\* Every step keeps the invariant.
LEMMA NextInvariant == WInv /\ [Next]_vars => WInv'
<1> SUFFICES ASSUME WInv, [Next]_vars PROVE WInv'
  OBVIOUS
<1>1. CASE UNCHANGED vars
  <2>1. Active' = Active /\ TypeOK' = TypeOK /\ Quiet' = Quiet
    BY <1>1 DEF vars, cfgVars, queueVars, drvVars, wiVars, TypeOK, Quiet, Active, InGo, InInt,
          InLookup, InAny, InQueue, InNoWorker, InWorker, At
  <2>2. OnePlace' = OnePlace /\ QueueInv' = QueueInv /\ UiInv' = UiInv
    BY <1>1 DEF vars, cfgVars, queueVars, drvVars, wiVars, OnePlace, Active, InGo, InInt,
          InLookup, InAny, InQueue, InNoWorker, InWorker, At, QueueInv, UiInv, FirstDir
  <2>3. DeviceInv' = DeviceInv /\ IntInv' = IntInv
    BY <1>1 DEF vars, cfgVars, queueVars, drvVars, wiVars, DeviceInv, IntInv, InGo, InInt,
          InLookup, At, FirstDir, IsChained
  <2>4. PendingInv' = PendingInv /\ WorkInv' = WorkInv /\ OneType' = OneType /\ fault' = fault
    BY <1>1 DEF vars, cfgVars, queueVars, drvVars, wiVars, PendingInv, WorkInv, OneType, InAny,
          InQueue, InWorker, Completing
  <2> QED
    BY <2>1, <2>2, <2>3, <2>4 DEF WInv, QuietInv
<1>2. CASE Next
  BY <1>2, QueueInvariant, UiInvariant, IntInvariant, WorkerInvariant DEF Next
<1> QED
  BY <1>1, <1>2

\* The invariant of the driver, its device and the interrupt thread: the types
\* of everything they share, and, for a quiet window, that the i/o of the
\* request the driver holds is in one place at a time.
THEOREM WdfInvariance == Spec => []WInv
BY InitInvariant, NextInvariant, PTL DEF Spec

\* The interrupt thread of MadBusPdoIntThread.cpp moves data to or from the
\* memory of the request the sequential queue has handed out, by its host
\* address or by the driver's one scatter-gather chain, and of no other.
THEOREM DeviceMovesOwnersData == Spec => []TransferIsOwn
<1>1. WInv => TransferIsOwn
  <2> SUFFICES ASSUME WInv, Quiet, At("move"), Target # NoRequest PROVE Target = owner
    BY DEF TransferIsOwn
  <2>1. QuietInv /\ InInt
    BY DEF WInv, QuietInv, IntInv, At
  <2>2. Active /\ int.type = type[owner]
    BY <2>1 DEF Active, QuietInv, IntInv
  <2>3. owner \in Requests /\ pc[owner] \in {"record", "done"}
    BY <2>1, <2>2 DEF QuietInv, OnePlace
  <2> QED
    BY <2>1, <2>2, <2>3 DEF Target, QuietInv, DeviceInv, IsChained
<1> QED
  BY <1>1, WdfInvariance, PTL

\* The go bit and the interrupt are withdrawn in an order that never lets the
\* device move the data of one request a second time.
THEOREM NoTransferTwice == Spec => []TransferOnce
<1>1. WInv => TransferOnce
  BY DEF WInv, QuietInv, QueueInv, TransferOnce
<1> QED
  BY <1>1, WdfInvariance, PTL

\* A request that the work item completes with success has had its data moved:
\* every interrupt that moved nothing carries the alert to the DPC.
THEOREM SuccessWasTransferred == Spec => []SuccessMeansTransferred
<1>1. WInv => SuccessMeansTransferred
  <2> SUFFICES ASSUME WInv, Quiet, NEW r \in Requests, result[r] = "success" PROVE xfers[r] > 0
    BY DEF SuccessMeansTransferred
  <2>1. xfers[r] = 1
    BY DEF WInv, QuietInv, QueueInv
  <2> QED
    BY <2>1
<1> QED
  BY <1>1, WdfInvariance, PTL

\* With requests of one type, WdfRequestComplete is never called for a request
\* that has been completed.
THEOREM RequestsCompletedOnce == Spec => []CompletedOnce
<1>1. WInv => CompletedOnce
  BY DEF WInv, QuietInv, CompletedOnce
<1> QED
  BY <1>1, WdfInvariance, PTL
=============================================================================
