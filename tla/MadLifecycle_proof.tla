------------------------ MODULE MadLifecycle_proof ------------------------
(***************************************************************************)
(* For any slots, drivers, static devices and failures, and one            *)
(* administrator: Spec => []LInv, and with it that a device that is ready  *)
(* owns its slot and stays ready until it is removed, that resources are   *)
(* lost in the failing claim and in the unload only, and that a plugged    *)
(* device whose driver is loaded is ready (PlugInv, at the end).  (With    *)
(* two administrators none of this holds: they race for a slot.)           *)
(*                                                                         *)
(* There is one lemma for each action.  First comes what the action does   *)
(* to the administrator's operation (the lemmas Going, Returning, Failing, *)
(* Succeeding, Starting), then one step for each part of LInv.             *)
(***************************************************************************)
EXTENDS MadLifecycle, TLAPS

Answers == {"none", "ok", "error"}

\* What the moves of an administrator leave of its operation.
Moved(a) == op' \in [Admins -> Operation] /\ answer' \in [Admins -> Answers]

Gone(a, pc) ==
  /\ Moved(a)
  /\ op'[a].pc = pc /\ op'[a].drv = op[a].drv /\ op'[a].slot = op[a].slot /\ op'[a].hpl = op[a].hpl

Returned(a) == Moved(a) /\ op'[a] = Idle

\* A set-up that failed: either the plug has given back its slot and returned, or
\* the load goes on.
Failed(a) ==
  /\ Moved(a)
  /\ pci_devid' \in [Slots -> Drivers \cup {NoDriver, Unknown}]
  /\ \/ op[a].hpl /\ op'[a] = Idle /\ pci_devid' = [pci_devid EXCEPT ![op[a].slot] = NoDriver]
     \/ /\ ~op[a].hpl /\ pci_devid' = pci_devid
        /\ op'[a].pc = "load" /\ op'[a].drv = op[a].drv /\ op'[a].hpl = op[a].hpl
        /\ op'[a].slot = op[a].slot + 1

\* The same for a set-up that ended well.
Succeeded(a) ==
  /\ Moved(a)
  /\ \/ op'[a] = Idle
     \/ /\ ~op[a].hpl /\ op'[a].pc = "load" /\ op'[a].drv = op[a].drv /\ op'[a].hpl = op[a].hpl
        /\ op'[a].slot = op[a].slot + 1

\* The operation goes on to its next step.
LEMMA Going ==
  ASSUME TypeOK, NEW a \in Admins, NEW pc \in Pcs, Goto(a, pc)
  PROVE  Gone(a, pc)
<1> USE DEF TypeOK, Goto, Gone, Moved, Answers
<1>1. op' = [op EXCEPT ![a] = [op[a] EXCEPT !.pc = pc]]
  OBVIOUS
<1>2. op[a] \in Operation /\ [op[a] EXCEPT !.pc = pc] \in Operation
  BY DEF Operation
<1> QED
  BY <1>1, <1>2 DEF Operation

\* The operation returns to its caller.
LEMMA Returning ==
  ASSUME TypeOK, NEW a \in Admins, NEW result \in Answers, Returns(a, result)
  PROVE  Returned(a)
<1>1. Idle \in Operation
  BY DEF Idle, Operation, Pcs, Pointer
<1> QED
  BY <1>1 DEF TypeOK, Returns, Returned, Moved, Answers

\* The set-up of a device fails: the plug returns, the load goes on to the next.
LEMMA Failing ==
  ASSUME TypeOK, NEW a \in Admins, op[a].slot \in Slots, SetupFails(a)
  PROVE  Failed(a)
<1> USE DEF TypeOK, SetupFails
<1>1. CASE op[a].hpl
  <2>1. Returned(a)
    BY <1>1, Returning DEF Answers
  <2> QED
    BY <1>1, <2>1 DEF Failed, Returned
<1>2. CASE ~op[a].hpl
  <2> DEFINE o == [op[a] EXCEPT !.pc = "load", !.slot = @ + 1]
  <2>1. o \in Operation /\ op[a] \in Operation
    <3>1. op[a] \in Operation
      OBVIOUS
    <3>2. op[a].slot + 1 \in Nat \ {0}
      BY <3>1 DEF Operation
    <3> QED
      BY <3>1, <3>2 DEF Operation, Pcs
  <2>2. op' = [op EXCEPT ![a] = o]
    BY <1>2
  <2>3. o.pc = "load" /\ o.drv = op[a].drv /\ o.hpl = op[a].hpl /\ o.slot = op[a].slot + 1
    BY <2>1 DEF Operation
  <2> HIDE DEF o
  <2> QED
    BY <1>2, <2>1, <2>2, <2>3 DEF Failed, Moved, Answers
<1> QED
  BY <1>1, <1>2

\* The set-up of a device succeeds.
LEMMA Succeeding ==
  ASSUME TypeOK, NEW a \in Admins, op[a].slot \in Slots, SetupSucceeds(a)
  PROVE  bHP' \in [Slots -> BOOLEAN] /\ Succeeded(a)
<1> USE DEF TypeOK, SetupSucceeds
<1>1. CASE op[a].hpl
  <2>1. Returned(a)
    BY <1>1, Returning DEF Answers
  <2> QED
    BY <1>1, <2>1 DEF Succeeded, Returned
<1>2. CASE ~op[a].hpl
  <2> DEFINE o == [op[a] EXCEPT !.pc = "load", !.slot = @ + 1, !.devcount = @ + 1]
  <2>1. op[a] \in Operation
    OBVIOUS
  <2>2. op[a].slot + 1 \in Nat \ {0} /\ op[a].devcount + 1 \in Nat
    BY <2>1 DEF Operation
  <2>3. o \in Operation
    BY <2>1, <2>2 DEF Operation, Pcs
  <2>4. op' = [op EXCEPT ![a] = o]
    BY <1>2
  <2>5. o.pc = "load" /\ o.drv = op[a].drv /\ o.hpl = op[a].hpl /\ o.slot = op[a].slot + 1
    BY <2>1 DEF Operation
  <2> HIDE DEF o
  <2> QED
    BY <1>2, <2>3, <2>4, <2>5 DEF Succeeded, Moved, Answers
<1> QED
  BY <1>1, <1>2

\* An operation starts.
LEMMA Starting ==
  ASSUME TypeOK, NEW a \in Admins, NEW o \in Operation, op' = [op EXCEPT ![a] = o],
        NEW result \in Answers, answer' = [answer EXCEPT ![a] = result]
  PROVE  Moved(a) /\ op'[a] = o
  BY DEF TypeOK, Moved, Answers

\* The slots of the static devices exist.
LEMMA StaticSlot ==
  ASSUME NEW d \in Drivers, NEW s \in Nat \ {0}, s <= Static[d]
  PROVE  s \in Slots
  BY SlotsAssumption, StaticAssumption


\* LInv is kept when maddev_setup_device starts.
LEMMA SetupBeginKeeps ==
  ASSUME NEW a \in Admins, Admins = {a}, LInv, SetupBegin(a)
  PROVE  LInv'
<1> USE SlotsAssumption, StaticAssumption, DriversAssumption
<1>1. Failed(a) \/ (((Gone(a, "claim") /\ op[a].hpl) \/ (Gone(a,
      "get") /\ ~op[a].hpl)) /\ UNCHANGED pci_devid)
  <2>1. op[a].slot \in Slots
    BY DEF SetupBegin, LInv, SetupInv, At
  <2>2. CASE SetupFails(a)
    BY <2>1, <2>2, Failing DEF LInv
  <2>3. CASE Goto(a, "claim") /\ op[a].hpl /\ UNCHANGED pci_devid
    <3>1. Gone(a, "claim")
      BY <2>3, Going DEF LInv, Pcs
    <3> QED
      BY <2>3, <3>1
  <2>4. CASE Goto(a, "get") /\ ~op[a].hpl /\ UNCHANGED pci_devid
    BY <2>4, Going DEF LInv, Pcs
  <2> QED
    BY <2>2, <2>3, <2>4 DEF SetupBegin
<1> USE <1>1 DEF LInv, TypeOK, Pointer, Answers, NoDriver, Unknown, Dangling, busVars, objVars,
      drvVars, admVars, At, ObjectOf, Failed, Gone, Moved, Idle
<1>2. TypeOK'
  BY SMTT(12) DEF SetupBegin, SetupInv, Claiming
<1>3. ReadyOwnsSlot'
  BY SMTT(12) DEF SetupBegin, ReadyOwnsSlot, SetupInv, Claiming, Holding, NobodyReady, ResOf
<1>4. fault' = "none" => SetupInv(a)'
  BY SMTT(12) DEF SetupBegin, ReadyOwnsSlot, SetupInv, Claiming, Holding, NobodyReady, ResOf
<1>5. PciDrvrs' = {v \in Drivers : mod'[v] # "out"}
  BY SMTT(12) DEF SetupBegin, SetupInv
<1>6. fault' = "none" => ModuleInv(a)'
  BY SMTT(12) DEF SetupBegin, ModuleInv, ReadyOwnsSlot, SetupInv, Claiming, Holding,
        NobodyReady, ResOf
<1> QED
  BY <1>2, <1>3, <1>4, <1>5, <1>6

\* LInv is kept when pcisim_get_device hands out the slot.
LEMMA GetDeviceKeeps ==
  ASSUME NEW a \in Admins, Admins = {a}, LInv, GetDevice(a)
  PROVE  LInv'
<1> USE SlotsAssumption, StaticAssumption, DriversAssumption
<1>1. Gone(a, "claim")
  BY Going DEF GetDevice, LInv, Pcs
<1> USE <1>1 DEF LInv, TypeOK, Pointer, Answers, NoDriver, Unknown, Dangling, busVars, objVars,
      drvVars, admVars, At, ObjectOf, Gone, Moved
<1>2. TypeOK'
  BY SMTT(12) DEF GetDevice, SetupInv, Claiming, SetupPciDevice
<1>3. ReadyOwnsSlot'
  BY SMTT(12) DEF GetDevice, ReadyOwnsSlot, SetupInv, Claiming, Holding, NobodyReady, ResOf,
        SetupPciDevice
<1>4. fault' = "none" => SetupInv(a)'
  BY SMTT(12) DEF GetDevice, ReadyOwnsSlot, SetupInv, Claiming, Holding, NobodyReady, ResOf,
        SetupPciDevice
<1>5. PciDrvrs' = {v \in Drivers : mod'[v] # "out"}
  BY SMTT(12) DEF GetDevice, SetupInv, SetupPciDevice
<1>6. fault' = "none" => ModuleInv(a)'
  BY SMTT(12) DEF GetDevice, ModuleInv, ReadyOwnsSlot, SetupInv, Claiming, Holding, NobodyReady,
        ResOf, SetupPciDevice
<1> QED
  BY <1>2, <1>3, <1>4, <1>5, <1>6

\* LInv is kept when the resources cannot be claimed.
LEMMA ClaimFailsKeeps ==
  ASSUME NEW a \in Admins, Admins = {a}, LInv, ClaimFails(a)
  PROVE  LInv'
<1> USE SlotsAssumption, StaticAssumption, DriversAssumption
<1>1. Failed(a)
  BY Failing DEF ClaimFails, LInv, SetupInv, Claiming, At
<1> USE <1>1 DEF LInv, TypeOK, Pointer, Answers, NoDriver, Unknown, Dangling, busVars, objVars,
      drvVars, admVars, At, ObjectOf, Failed, Moved, Idle
<1>2. TypeOK'
  BY SMTT(12) DEF ClaimFails, SetupInv, Claiming, LeftByClaim, Resources
<1>3. ReadyOwnsSlot'
  BY SMTT(12) DEF ClaimFails, ReadyOwnsSlot, SetupInv, Claiming, Holding, NobodyReady, ResOf
<1>4. fault' = "none" => SetupInv(a)'
  BY SMTT(12) DEF ClaimFails, ReadyOwnsSlot, SetupInv, Claiming, Holding, NobodyReady, ResOf
<1>5. PciDrvrs' = {v \in Drivers : mod'[v] # "out"}
  BY SMTT(12) DEF ClaimFails, SetupInv
<1>6. fault' = "none" => ModuleInv(a)'
  BY SMTT(12) DEF ClaimFails, ModuleInv, ReadyOwnsSlot, SetupInv, Claiming, Holding,
        NobodyReady, ResOf
<1> QED
  BY <1>2, <1>3, <1>4, <1>5, <1>6

\* LInv is kept when the resources are claimed.
LEMMA ClaimPciResrcsKeeps ==
  ASSUME NEW a \in Admins, Admins = {a}, LInv, ClaimPciResrcs(a)
  PROVE  LInv'
<1> USE SlotsAssumption, StaticAssumption, DriversAssumption
<1>1. Gone(a, "register")
  BY Going DEF ClaimPciResrcs, LInv, Pcs
<1> USE <1>1 DEF LInv, TypeOK, Pointer, Answers, NoDriver, Unknown, Dangling, busVars, objVars,
      drvVars, admVars, At, ObjectOf, Gone, Moved
<1>2. TypeOK'
  BY SMTT(12) DEF ClaimPciResrcs, SetupInv, Claiming, ResOf
<1>3. ReadyOwnsSlot'
  BY SMTT(12) DEF ClaimPciResrcs, ReadyOwnsSlot, SetupInv, Claiming, Holding, NobodyReady, ResOf
<1>4. fault' = "none" => SetupInv(a)'
  BY SMTT(12) DEF ClaimPciResrcs, ReadyOwnsSlot, SetupInv, Claiming, Holding, NobodyReady, ResOf
<1>5. PciDrvrs' = {v \in Drivers : mod'[v] # "out"}
  BY SMTT(12) DEF ClaimPciResrcs, SetupInv
<1>6. fault' = "none" => ModuleInv(a)'
  BY SMTT(12) DEF ClaimPciResrcs, ModuleInv, ReadyOwnsSlot, SetupInv, Claiming, Holding,
        NobodyReady, ResOf
<1> QED
  BY <1>2, <1>3, <1>4, <1>5, <1>6

\* LInv is kept when device_add fails.
LEMMA RegisterFailsKeeps ==
  ASSUME NEW a \in Admins, Admins = {a}, LInv, RegisterFails(a)
  PROVE  LInv'
<1> USE SlotsAssumption, StaticAssumption, DriversAssumption
<1>1. Failed(a)
  BY Failing DEF RegisterFails, LInv, SetupInv, Claiming, At
<1> USE <1>1 DEF LInv, TypeOK, Pointer, Answers, NoDriver, Unknown, Dangling, busVars, objVars,
      drvVars, admVars, At, ObjectOf, Failed, Moved, Idle
<1>2. TypeOK'
  BY SMTT(12) DEF RegisterFails, SetupInv, Claiming, Release
<1>3. ReadyOwnsSlot'
  BY SMTT(12) DEF RegisterFails, ReadyOwnsSlot, SetupInv, Claiming, Holding, NobodyReady, ResOf,
        Release
<1>4. fault' = "none" => SetupInv(a)'
  BY SMTT(12) DEF RegisterFails, ReadyOwnsSlot, SetupInv, Claiming, Holding, NobodyReady, ResOf,
        Release
<1>5. PciDrvrs' = {v \in Drivers : mod'[v] # "out"}
  BY SMTT(12) DEF RegisterFails, SetupInv
<1>6. fault' = "none" => ModuleInv(a)'
  BY SMTT(12) DEF RegisterFails, ModuleInv, ReadyOwnsSlot, SetupInv, Claiming, Holding,
        NobodyReady, ResOf
<1> QED
  BY <1>2, <1>3, <1>4, <1>5, <1>6

\* LInv is kept when device_add succeeds.
LEMMA RegisterDeviceKeeps ==
  ASSUME NEW a \in Admins, Admins = {a}, LInv, RegisterDevice(a)
  PROVE  LInv'
<1> USE SlotsAssumption, StaticAssumption, DriversAssumption
<1>1. Gone(a, "dma")
  BY Going DEF RegisterDevice, LInv, Pcs
<1> USE <1>1 DEF LInv, TypeOK, Pointer, Answers, NoDriver, Unknown, Dangling, busVars, objVars,
      drvVars, admVars, At, ObjectOf, Gone, Moved
<1>2. TypeOK'
  BY SMTT(12) DEF RegisterDevice, SetupInv, Claiming
<1>3. ReadyOwnsSlot'
  BY SMTT(12) DEF RegisterDevice, ReadyOwnsSlot, SetupInv, Claiming, Holding, NobodyReady, ResOf
<1>4. fault' = "none" => SetupInv(a)'
  BY SMTT(12) DEF RegisterDevice, ReadyOwnsSlot, SetupInv, Claiming, Holding, NobodyReady, ResOf
<1>5. PciDrvrs' = {v \in Drivers : mod'[v] # "out"}
  BY SMTT(12) DEF RegisterDevice, SetupInv
<1>6. fault' = "none" => ModuleInv(a)'
  BY SMTT(12) DEF RegisterDevice, ModuleInv, ReadyOwnsSlot, SetupInv, Claiming, Holding,
        NobodyReady, ResOf
<1> QED
  BY <1>2, <1>3, <1>4, <1>5, <1>6

\* LInv is kept when the DMA mask is refused.
LEMMA DmaMaskFailsKeeps ==
  ASSUME NEW a \in Admins, Admins = {a}, LInv, DmaMaskFails(a)
  PROVE  LInv'
<1> USE SlotsAssumption, StaticAssumption, DriversAssumption
<1>1. Failed(a)
  BY Failing DEF DmaMaskFails, LInv, SetupInv, Claiming, At
<1> USE <1>1 DEF LInv, TypeOK, Pointer, Answers, NoDriver, Unknown, Dangling, busVars, objVars,
      drvVars, admVars, At, ObjectOf, Failed, Moved, Idle
<1>2. TypeOK'
  BY SMTT(12) DEF DmaMaskFails, SetupInv, Claiming, Release
<1>3. ReadyOwnsSlot'
  BY SMTT(12) DEF DmaMaskFails, ReadyOwnsSlot, SetupInv, Claiming, Holding, NobodyReady, ResOf,
        Release
<1>4. fault' = "none" => SetupInv(a)'
  BY SMTT(12) DEF DmaMaskFails, ReadyOwnsSlot, SetupInv, Claiming, Holding, NobodyReady, ResOf,
        Release
<1>5. PciDrvrs' = {v \in Drivers : mod'[v] # "out"}
  BY SMTT(12) DEF DmaMaskFails, SetupInv
<1>6. fault' = "none" => ModuleInv(a)'
  BY SMTT(12) DEF DmaMaskFails, ModuleInv, ReadyOwnsSlot, SetupInv, Claiming, Holding,
        NobodyReady, ResOf
<1> QED
  BY <1>2, <1>3, <1>4, <1>5, <1>6

\* LInv is kept when the DMA mask is set.
LEMMA DmaSetMaskKeeps ==
  ASSUME NEW a \in Admins, Admins = {a}, LInv, DmaSetMask(a)
  PROVE  LInv'
<1> USE SlotsAssumption, StaticAssumption, DriversAssumption
<1>1. Gone(a, "cdev")
  BY Going DEF DmaSetMask, LInv, Pcs
<1> USE <1>1 DEF LInv, TypeOK, Pointer, Answers, NoDriver, Unknown, Dangling, busVars, objVars,
      drvVars, admVars, At, ObjectOf, Gone, Moved
<1>2. TypeOK'
  BY SMTT(12) DEF DmaSetMask, SetupInv, Claiming
<1>3. ReadyOwnsSlot'
  BY SMTT(12) DEF DmaSetMask, ReadyOwnsSlot, SetupInv, Claiming, Holding, NobodyReady, ResOf
<1>4. fault' = "none" => SetupInv(a)'
  BY SMTT(12) DEF DmaSetMask, ReadyOwnsSlot, SetupInv, Claiming, Holding, NobodyReady, ResOf
<1>5. PciDrvrs' = {v \in Drivers : mod'[v] # "out"}
  BY SMTT(12) DEF DmaSetMask, SetupInv
<1>6. fault' = "none" => ModuleInv(a)'
  BY SMTT(12) DEF DmaSetMask, ModuleInv, ReadyOwnsSlot, SetupInv, Claiming, Holding,
        NobodyReady, ResOf
<1> QED
  BY <1>2, <1>3, <1>4, <1>5, <1>6

\* LInv is kept when the character or block device cannot be created.
LEMMA CdevFailsKeeps ==
  ASSUME NEW a \in Admins, Admins = {a}, LInv, CdevFails(a)
  PROVE  LInv'
<1> USE SlotsAssumption, StaticAssumption, DriversAssumption
<1>1. Failed(a)
  BY Failing DEF CdevFails, LInv, SetupInv, Claiming, At
<1> USE <1>1 DEF LInv, TypeOK, Pointer, Answers, NoDriver, Unknown, Dangling, busVars, objVars,
      drvVars, admVars, At, ObjectOf, Failed, Moved, Idle
<1>2. TypeOK'
  BY SMTT(12) DEF CdevFails, SetupInv, Claiming, Release
<1>3. ReadyOwnsSlot'
  BY SMTT(12) DEF CdevFails, ReadyOwnsSlot, SetupInv, Claiming, Holding, NobodyReady, ResOf,
        Release
<1>4. fault' = "none" => SetupInv(a)'
  BY SMTT(12) DEF CdevFails, ReadyOwnsSlot, SetupInv, Claiming, Holding, NobodyReady, ResOf,
        Release
<1>5. PciDrvrs' = {v \in Drivers : mod'[v] # "out"}
  BY SMTT(12) DEF CdevFails, SetupInv
<1>6. fault' = "none" => ModuleInv(a)'
  BY SMTT(12) DEF CdevFails, ModuleInv, ReadyOwnsSlot, SetupInv, Claiming, Holding, NobodyReady,
        ResOf
<1> QED
  BY <1>2, <1>3, <1>4, <1>5, <1>6

\* LInv is kept when the character or block device is created.
LEMMA SetupCdevKeeps ==
  ASSUME NEW a \in Admins, Admins = {a}, LInv, SetupCdev(a)
  PROVE  LInv'
<1> USE SlotsAssumption, StaticAssumption, DriversAssumption
<1>1. Gone(a, "node")
  BY Going DEF SetupCdev, LInv, Pcs
<1> USE <1>1 DEF LInv, TypeOK, Pointer, Answers, NoDriver, Unknown, Dangling, busVars, objVars,
      drvVars, admVars, At, ObjectOf, Gone, Moved
<1>2. TypeOK'
  BY SMTT(12) DEF SetupCdev, SetupInv, Claiming
<1>3. ReadyOwnsSlot'
  BY SMTT(12) DEF SetupCdev, ReadyOwnsSlot, SetupInv, Claiming, Holding, NobodyReady, ResOf
<1>4. fault' = "none" => SetupInv(a)'
  BY SMTT(12) DEF SetupCdev, ReadyOwnsSlot, SetupInv, Claiming, Holding, NobodyReady, ResOf
<1>5. PciDrvrs' = {v \in Drivers : mod'[v] # "out"}
  BY SMTT(12) DEF SetupCdev, SetupInv
<1>6. fault' = "none" => ModuleInv(a)'
  BY SMTT(12) DEF SetupCdev, ModuleInv, ReadyOwnsSlot, SetupInv, Claiming, Holding, NobodyReady,
        ResOf
<1> QED
  BY <1>2, <1>3, <1>4, <1>5, <1>6

\* LInv is kept when the device becomes ready.
LEMMA SetupReadyKeeps ==
  ASSUME NEW a \in Admins, Admins = {a}, LInv, SetupReady(a)
  PROVE  LInv'
<1> USE SlotsAssumption, StaticAssumption, DriversAssumption
<1>1. bHP' \in [Slots -> BOOLEAN] /\ Succeeded(a)
  BY Succeeding DEF SetupReady, LInv, SetupInv, Claiming, At
<1> USE <1>1 DEF LInv, TypeOK, Pointer, Answers, NoDriver, Unknown, Dangling, busVars, objVars,
      drvVars, admVars, At, ObjectOf, Succeeded, Moved, Idle
<1>2. TypeOK'
  BY SMTT(12) DEF SetupReady, SetupInv, Claiming
<1>3. ReadyOwnsSlot'
  <2>1. UNCHANGED <<pci_devid, driver, sysfs, isr, res, mod,
        fault>> /\ bReady' = bReady \cup {ObjectOf(a)}
    BY DEF SetupReady
  <2>2. ASSUME fault = "none", NEW d \in Drivers, NEW s \in Slots, <<d, s>> \in bReady'
        PROVE  /\ pci_devid[s] = d /\ driver[s] = d /\ sysfs[s] = d /\ isr[s] = d
               /\ ResOf(d, s) \subseteq res /\ mod[d] # "out"
    <3>1. CASE <<d, s>> \in bReady
      BY <2>2, <3>1 DEF ReadyOwnsSlot
    <3>2. CASE op[a].drv = d /\ op[a].slot = s
      BY <2>2, <3>2 DEF SetupReady, SetupInv, Claiming, Holding
    <3> QED
      BY <2>1, <2>2, <3>1, <3>2
  <2> QED
    BY <2>1, <2>2 DEF ReadyOwnsSlot
<1>4. fault' = "none" => SetupInv(a)'
  BY SMTT(12) DEF SetupReady, ReadyOwnsSlot, SetupInv, Claiming, Holding, NobodyReady, ResOf
<1>5. PciDrvrs' = {v \in Drivers : mod'[v] # "out"}
  BY SMTT(12) DEF SetupReady, SetupInv
<1>6. fault' = "none" => ModuleInv(a)'
  BY SMTT(12) DEF SetupReady, ModuleInv, ReadyOwnsSlot, SetupInv, Claiming, Holding,
        NobodyReady, ResOf
<1> QED
  BY <1>2, <1>3, <1>4, <1>5, <1>6

\* LInv is kept when a driver is loaded.
LEMMA InsmodKeeps ==
  ASSUME NEW a \in Admins, Admins = {a}, LInv, NEW d \in Drivers, Insmod(a, d)
  PROVE  LInv'
<1> USE SlotsAssumption, StaticAssumption, DriversAssumption
<1>1. Moved(a) /\ op'[a] = [pc |-> "load", drv |-> d, slot |-> 1, hpl |-> FALSE, devcount |-> 0]
  <2> DEFINE o == [pc |-> "load", drv |-> d, slot |-> 1, hpl |-> FALSE, devcount |-> 0]
  <2>1. o \in Operation
    BY DEF Insmod, LInv, TypeOK, SetupInv, At, Operation, Pcs, Pointer
  <2>2. op' = [op EXCEPT ![a] = o] /\ answer' = [answer EXCEPT ![a] = "none"] /\ TypeOK
    BY DEF Insmod, LInv, Start
  <2> HIDE DEF o
  <2>3. Moved(a) /\ op'[a] = o
    BY <2>1, <2>2, Starting DEF Answers
  <2> QED
    BY <2>3 DEF o
<1> USE <1>1 DEF LInv, TypeOK, Pointer, Answers, NoDriver, Unknown, Dangling, busVars, objVars,
      drvVars, admVars, At, ObjectOf, Moved
<1>2. TypeOK'
  BY SMTT(12) DEF Insmod, SetupInv, Claiming
<1>3. ReadyOwnsSlot'
  BY SMTT(12) DEF Insmod, ReadyOwnsSlot, SetupInv, Claiming, Holding, NobodyReady, ResOf
<1>4. fault' = "none" => SetupInv(a)'
  BY SMTT(12) DEF Insmod, ReadyOwnsSlot, SetupInv, Claiming, Holding, NobodyReady, ResOf
<1>5. PciDrvrs' = {v \in Drivers : mod'[v] # "out"}
  BY SMTT(12) DEF Insmod, SetupInv
<1>6. fault' = "none" => ModuleInv(a)'
  BY SMTT(12) DEF Insmod, ModuleInv, ReadyOwnsSlot, SetupInv, Claiming, Holding, NobodyReady,
        ResOf
<1> QED
  BY <1>2, <1>3, <1>4, <1>5, <1>6

\* LInv is kept when a load fails before it sets up anything.
LEMMA InsmodFailsKeeps ==
  ASSUME NEW a \in Admins, Admins = {a}, LInv, NEW d \in Drivers, InsmodFails(a, d)
  PROVE  LInv'
<1>1. CASE fault' = "oops"
  <2>1. UNCHANGED <<busVars, drvVars>> /\ (UNCHANGED admVars \/ Returned(a))
    BY Returning DEF InsmodFails, LInv, Answers
  <2> QED
    BY <1>1, <2>1 DEF LInv, TypeOK, ReadyOwnsSlot, busVars, drvVars, objVars, admVars, Returned,
                      Moved, Answers
<1>2. CASE fault' # "oops"
  <2>1. Returned(a) /\ UNCHANGED <<busVars, drvVars, fault>>
    BY <1>2, Returning DEF InsmodFails, LInv, Answers
  <2>2. TypeOK'
    BY <2>1 DEF LInv, TypeOK, Returned, Moved, Answers, busVars, drvVars, objVars
  <2>3. ReadyOwnsSlot' /\ PciDrvrs' = {v \in Drivers : mod'[v] # "out"}
    BY <2>1 DEF LInv, ReadyOwnsSlot, busVars, drvVars, objVars
  <2>4. SetupInv(a)' /\ ModuleInv(a)'
    BY <2>1 DEF SetupInv, ModuleInv, Returned, Idle, Claiming, Holding
  <2> QED
    BY <2>2, <2>3, <2>4 DEF LInv
<1> QED
  BY <1>1, <1>2

\* LInv is kept when the load turns to its next device.
LEMMA LoadNextKeeps ==
  ASSUME NEW a \in Admins, Admins = {a}, LInv, LoadNext(a)
  PROVE  LInv'
<1> USE SlotsAssumption, StaticAssumption, DriversAssumption
<1>1. Gone(a, "setup")
  BY Going DEF LoadNext, LInv, Pcs
<1> op[a].slot \in Slots
  BY StaticSlot DEF LoadNext, LInv, TypeOK, SetupInv, At, Operation
<1> USE <1>1 DEF LInv, TypeOK, Pointer, Answers, NoDriver, Unknown, Dangling, busVars, objVars,
      drvVars, admVars, At, ObjectOf, Gone, Moved
<1>2. TypeOK'
  BY SMTT(12) DEF LoadNext, SetupInv, Claiming
<1>3. ReadyOwnsSlot'
  BY SMTT(12) DEF LoadNext, ReadyOwnsSlot, SetupInv, Claiming, Holding, NobodyReady, ResOf
<1>4. fault' = "none" => SetupInv(a)'
  BY SMTT(12) DEF LoadNext, ReadyOwnsSlot, SetupInv, Claiming, Holding, NobodyReady, ResOf
<1>5. PciDrvrs' = {v \in Drivers : mod'[v] # "out"}
  BY SMTT(12) DEF LoadNext, SetupInv
<1>6. fault' = "none" => ModuleInv(a)'
  BY SMTT(12) DEF LoadNext, ModuleInv, ReadyOwnsSlot, SetupInv, Claiming, Holding, NobodyReady,
        ResOf
<1> QED
  BY <1>2, <1>3, <1>4, <1>5, <1>6

\* LInv is kept when the load succeeds.
LEMMA LoadEndsKeeps ==
  ASSUME NEW a \in Admins, Admins = {a}, LInv, LoadEnds(a)
  PROVE  LInv'
<1> USE SlotsAssumption, StaticAssumption, DriversAssumption
<1>1. Returned(a)
  BY Returning DEF LoadEnds, LInv, Answers
<1> USE <1>1 DEF LInv, TypeOK, Pointer, Answers, NoDriver, Unknown, Dangling, busVars, objVars,
      drvVars, admVars, At, ObjectOf, Returned, Moved, Idle
<1>2. TypeOK'
  BY SMTT(12) DEF LoadEnds, SetupInv, Claiming
<1>3. ReadyOwnsSlot'
  BY SMTT(12) DEF LoadEnds, ReadyOwnsSlot, SetupInv, Claiming, Holding, NobodyReady, ResOf
<1>4. fault' = "none" => SetupInv(a)'
  BY SMTT(12) DEF LoadEnds, ReadyOwnsSlot, SetupInv, Claiming, Holding, NobodyReady, ResOf
<1>5. PciDrvrs' = {v \in Drivers : mod'[v] # "out"}
  BY SMTT(12) DEF LoadEnds, SetupInv
<1>6. fault' = "none" => ModuleInv(a)'
  BY SMTT(12) DEF LoadEnds, ModuleInv, ReadyOwnsSlot, SetupInv, Claiming, Holding, NobodyReady,
        ResOf
<1> QED
  BY <1>2, <1>3, <1>4, <1>5, <1>6

\* LInv is kept when the load has set up nothing.
LEMMA LoadFailsKeeps ==
  ASSUME NEW a \in Admins, Admins = {a}, LInv, LoadFails(a)
  PROVE  LInv'
<1> USE SlotsAssumption, StaticAssumption, DriversAssumption
<1>1. Moved(a) /\ op'[a] = [pc |-> "unload", drv |-> op[a].drv, slot |-> 1, hpl |-> FALSE,
      devcount |-> 0]
  <2> DEFINE o == [pc |-> "unload", drv |-> op[a].drv, slot |-> 1, hpl |-> FALSE, devcount |-> 0]
  <2>1. o \in Operation
    BY DEF LoadFails, LInv, TypeOK, SetupInv, At, Operation, Pcs, Pointer
  <2>2. op' = [op EXCEPT ![a] = o] /\ answer' = [answer EXCEPT ![a] = "error"] /\ TypeOK
    BY DEF LoadFails, LInv, Start
  <2> HIDE DEF o
  <2>3. Moved(a) /\ op'[a] = o
    BY <2>1, <2>2, Starting DEF Answers
  <2> QED
    BY <2>3 DEF o
<1> USE <1>1 DEF LInv, TypeOK, Pointer, Answers, NoDriver, Unknown, Dangling, busVars, objVars,
      drvVars, admVars, At, ObjectOf, Moved
<1>2. TypeOK'
  BY SMTT(12) DEF LoadFails, SetupInv, Claiming
<1>3. ReadyOwnsSlot'
  BY SMTT(12) DEF LoadFails, ReadyOwnsSlot, SetupInv, Claiming, Holding, NobodyReady, ResOf
<1>4. fault' = "none" => SetupInv(a)'
  BY SMTT(12) DEF LoadFails, ReadyOwnsSlot, SetupInv, Claiming, Holding, NobodyReady, ResOf
<1>5. PciDrvrs' = {v \in Drivers : mod'[v] # "out"}
  BY SMTT(12) DEF LoadFails, SetupInv
<1>6. fault' = "none" => ModuleInv(a)'
  BY SMTT(12) DEF LoadFails, ModuleInv, ReadyOwnsSlot, SetupInv, Claiming, Holding, NobodyReady,
        ResOf
<1> QED
  BY <1>2, <1>3, <1>4, <1>5, <1>6

\* LInv is kept when a driver is unloaded.
LEMMA RmmodKeeps ==
  ASSUME NEW a \in Admins, Admins = {a}, LInv, NEW d \in Drivers, Rmmod(a, d)
  PROVE  LInv'
<1> USE SlotsAssumption, StaticAssumption, DriversAssumption
<1>1. Moved(a) /\ op'[a] = [pc |-> "unload", drv |-> d, slot |-> 1, hpl |-> FALSE, devcount |-> 0]
  <2> DEFINE o == [pc |-> "unload", drv |-> d, slot |-> 1, hpl |-> FALSE, devcount |-> 0]
  <2>1. o \in Operation
    BY DEF Rmmod, LInv, TypeOK, SetupInv, At, Operation, Pcs, Pointer
  <2>2. op' = [op EXCEPT ![a] = o] /\ answer' = [answer EXCEPT ![a] = "ok"] /\ TypeOK
    BY DEF Rmmod, LInv, Start
  <2> HIDE DEF o
  <2>3. Moved(a) /\ op'[a] = o
    BY <2>1, <2>2, Starting DEF Answers
  <2> QED
    BY <2>3 DEF o
<1> USE <1>1 DEF LInv, TypeOK, Pointer, Answers, NoDriver, Unknown, Dangling, busVars, objVars,
      drvVars, admVars, At, ObjectOf, Moved
<1>2. TypeOK'
  BY SMTT(12) DEF Rmmod, SetupInv, Claiming
<1>3. ReadyOwnsSlot'
  BY SMTT(12) DEF Rmmod, ReadyOwnsSlot, SetupInv, Claiming, Holding, NobodyReady, ResOf
<1>4. fault' = "none" => SetupInv(a)'
  BY SMTT(12) DEF Rmmod, ReadyOwnsSlot, SetupInv, Claiming, Holding, NobodyReady, ResOf
<1>5. PciDrvrs' = {v \in Drivers : mod'[v] # "out"}
  BY SMTT(12) DEF Rmmod, SetupInv
<1>6. fault' = "none" => ModuleInv(a)'
  BY SMTT(12) DEF Rmmod, ModuleInv, ReadyOwnsSlot, SetupInv, Claiming, Holding, NobodyReady, ResOf
<1> QED
  BY <1>2, <1>3, <1>4, <1>5, <1>6

\* LInv is kept when the unload removes a device.
LEMMA UnloadNextKeeps ==
  ASSUME NEW a \in Admins, Admins = {a}, LInv, UnloadNext(a)
  PROVE  LInv'
<1> USE SlotsAssumption, StaticAssumption, DriversAssumption
<1>1. /\ Moved(a) /\ op'[a].pc = "unload" /\ op'[a].drv = op[a].drv /\ op'[a].hpl = op[a].hpl
      /\ op'[a].slot = op[a].slot + 1
  <2> DEFINE o == [op[a] EXCEPT !.slot = @ + 1]
  <2>1. op[a] \in Operation /\ op[a].slot + 1 \in Nat \ {0}
    BY DEF LInv, TypeOK, Operation
  <2>2. /\ o \in Operation /\ o.pc = op[a].pc /\ o.drv = op[a].drv /\ o.hpl = op[a].hpl
        /\ o.slot = op[a].slot + 1
    BY <2>1 DEF Operation
  <2>3. op' = [op EXCEPT ![a] = o]
    BY DEF UnloadNext
  <2> HIDE DEF o
  <2> QED
    BY <2>2, <2>3 DEF UnloadNext, LInv, TypeOK, Moved, Answers, At
<1> op[a].slot \in Slots
  BY StaticSlot DEF UnloadNext, LInv, TypeOK, SetupInv, At, Operation
<1> USE <1>1 DEF LInv, TypeOK, Pointer, Answers, NoDriver, Unknown, Dangling, busVars, objVars,
      drvVars, admVars, At, ObjectOf, Moved
<1>2. TypeOK'
  <2>1. CASE ObjectOf(a) \in bReady
    <3>1. RemoveDevice(op[a].drv, op[a].slot) /\ UNCHANGED <<mem, pci_devid, driver, bHP, isr, mod, PciDrvrs>>
      BY <2>1 DEF UnloadNext
    <3>2. res' \subseteq res
      BY <3>1 DEF RemoveDevice, Release
    <3> QED
      BY <3>1, <3>2, SMTT(12) DEF RemoveDevice
  <2>2. CASE ObjectOf(a) \notin bReady
    BY <2>2, SMTT(12) DEF UnloadNext
  <2> QED
    BY <2>1, <2>2
<1>3. ReadyOwnsSlot'
  BY SMTT(12) DEF UnloadNext, ReadyOwnsSlot, SetupInv, Claiming, Holding, NobodyReady, ResOf,
        RemoveDevice, Release
<1>4. fault' = "none" => SetupInv(a)'
  BY SMTT(12) DEF UnloadNext, ReadyOwnsSlot, SetupInv, Claiming, Holding, NobodyReady, ResOf,
        RemoveDevice, Release
<1>5. PciDrvrs' = {v \in Drivers : mod'[v] # "out"}
  BY SMTT(12) DEF UnloadNext, SetupInv, RemoveDevice
<1>6. fault' = "none" => ModuleInv(a)'
  <2>1. /\ op[a].pc = "unload" /\ op[a].drv \in Drivers /\ fault = "none"
        /\ ObjectOf(a) \notin bReady' /\ bReady' \subseteq bReady
    BY DEF UnloadNext, RemoveDevice, SetupInv
  <2>2. ASSUME NEW s \in Slots, s < op[a].slot + 1, s <= Static[op[a].drv]
        PROVE  <<op[a].drv, s>> \notin bReady'
    <3>1. s < op[a].slot \/ s = op[a].slot
      BY <2>2
    <3> QED
      BY <2>1, <2>2, <3>1 DEF ModuleInv
  <2> QED
    BY <2>1, <2>2 DEF ModuleInv, Claiming
<1> QED
  BY <1>2, <1>3, <1>4, <1>5, <1>6

\* LInv is kept when the unload frees the device objects.
LEMMA FreeObjectsKeeps ==
  ASSUME NEW a \in Admins, Admins = {a}, LInv, FreeObjects(a)
  PROVE  LInv'
<1> USE SlotsAssumption, StaticAssumption, DriversAssumption
<1>1. Gone(a, "unregister")
  BY Going DEF FreeObjects, LInv, Pcs
<1> USE <1>1 DEF LInv, TypeOK, Pointer, Answers, NoDriver, Unknown, Dangling, busVars, objVars,
      drvVars, admVars, At, ObjectOf, Gone, Moved
<1>2. TypeOK'
  BY SMTT(12) DEF FreeObjects, SetupInv, Claiming
<1>3. ReadyOwnsSlot'
  BY SMTT(12) DEF FreeObjects, ReadyOwnsSlot, SetupInv, Claiming, Holding, NobodyReady, ResOf
<1>4. fault' = "none" => SetupInv(a)'
  BY SMTT(12) DEF FreeObjects, ReadyOwnsSlot, SetupInv, Claiming, Holding, NobodyReady, ResOf
<1>5. PciDrvrs' = {v \in Drivers : mod'[v] # "out"}
  BY SMTT(12) DEF FreeObjects, SetupInv
<1>6. fault' = "none" => ModuleInv(a)'
  BY SMTT(12) DEF FreeObjects, ModuleInv, ReadyOwnsSlot, SetupInv, Claiming, Holding,
        NobodyReady, ResOf
<1> QED
  BY <1>2, <1>3, <1>4, <1>5, <1>6

\* LInv is kept when the driver leaves the bus.
LEMMA UnregisterDriverKeeps ==
  ASSUME NEW a \in Admins, Admins = {a}, LInv, UnregisterDriver(a)
  PROVE  LInv'
<1> USE SlotsAssumption, StaticAssumption, DriversAssumption
<1>1. Returned(a)
  BY DEF UnregisterDriver, LInv, TypeOK, Returned, Moved, Answers, Idle, Operation, Pcs, Pointer
<1> USE <1>1 DEF LInv, TypeOK, Pointer, Answers, NoDriver, Unknown, Dangling, busVars, objVars,
      drvVars, admVars, At, ObjectOf, Returned, Moved, Idle
<1>2. TypeOK'
  BY SMTT(12) DEF UnregisterDriver, SetupInv, Claiming, Dangle
<1>3. ReadyOwnsSlot'
  BY SMTT(12) DEF UnregisterDriver, ReadyOwnsSlot, SetupInv, Claiming, Holding, NobodyReady,
        ResOf, Dangle
<1>4. fault' = "none" => SetupInv(a)'
  BY SMTT(12) DEF UnregisterDriver, ReadyOwnsSlot, SetupInv, Claiming, Holding, NobodyReady,
        ResOf, Dangle
<1>5. PciDrvrs' = {v \in Drivers : mod'[v] # "out"}
  BY SMTT(12) DEF UnregisterDriver, SetupInv, Dangle
<1>6. fault' = "none" => ModuleInv(a)'
  BY SMTT(12) DEF UnregisterDriver, ModuleInv, ReadyOwnsSlot, SetupInv, Claiming, Holding,
        NobodyReady, ResOf, Dangle
<1> QED
  BY <1>2, <1>3, <1>4, <1>5, <1>6

\* LInv is kept when a plug into a slot in use is refused.
LEMMA HotplugInUseKeeps ==
  ASSUME NEW a \in Admins, Admins = {a}, LInv, NEW s \in Slots, HotplugInUse(a, s)
  PROVE  LInv'
<1> USE SlotsAssumption, StaticAssumption, DriversAssumption
<1>1. Returned(a)
  BY Returning DEF HotplugInUse, LInv, Answers
<1> USE <1>1 DEF LInv, TypeOK, Pointer, Answers, NoDriver, Unknown, Dangling, busVars, objVars,
      drvVars, admVars, At, ObjectOf, Returned, Moved, Idle
<1>2. TypeOK'
  BY SMTT(12) DEF HotplugInUse, SetupInv, Claiming
<1>3. ReadyOwnsSlot'
  BY SMTT(12) DEF HotplugInUse, ReadyOwnsSlot, SetupInv, Claiming, Holding, NobodyReady, ResOf
<1>4. fault' = "none" => SetupInv(a)'
  BY SMTT(12) DEF HotplugInUse, ReadyOwnsSlot, SetupInv, Claiming, Holding, NobodyReady, ResOf
<1>5. PciDrvrs' = {v \in Drivers : mod'[v] # "out"}
  BY SMTT(12) DEF HotplugInUse, SetupInv
<1>6. fault' = "none" => ModuleInv(a)'
  BY SMTT(12) DEF HotplugInUse, ModuleInv, ReadyOwnsSlot, SetupInv, Claiming, Holding,
        NobodyReady, ResOf
<1> QED
  BY <1>2, <1>3, <1>4, <1>5, <1>6

\* LInv is kept when a plug starts.
LEMMA HotplugKeeps ==
  ASSUME NEW a \in Admins, Admins = {a}, LInv, NEW s \in Slots,
        NEW id \in Drivers \cup {Unknown}, Hotplug(a, s, id)
  PROVE  LInv'
<1> USE SlotsAssumption, StaticAssumption, DriversAssumption
<1>1. Moved(a) /\ op'[a] = [pc |-> "plug", drv |-> id, slot |-> s, hpl |-> TRUE, devcount |-> 0]
  <2> DEFINE o == [pc |-> "plug", drv |-> id, slot |-> s, hpl |-> TRUE, devcount |-> 0]
  <2>1. o \in Operation
    BY DEF Hotplug, LInv, TypeOK, SetupInv, At, Operation, Pcs, Pointer
  <2>2. op' = [op EXCEPT ![a] = o] /\ answer' = [answer EXCEPT ![a] = "none"] /\ TypeOK
    BY DEF Hotplug, LInv, Start
  <2> HIDE DEF o
  <2>3. Moved(a) /\ op'[a] = o
    BY <2>1, <2>2, Starting DEF Answers
  <2> QED
    BY <2>3 DEF o
<1> USE <1>1 DEF LInv, TypeOK, Pointer, Answers, NoDriver, Unknown, Dangling, busVars, objVars,
      drvVars, admVars, At, ObjectOf, Moved
<1>2. TypeOK'
  BY SMTT(12) DEF Hotplug, SetupInv, Claiming
<1>3. ReadyOwnsSlot'
  BY SMTT(12) DEF Hotplug, ReadyOwnsSlot, SetupInv, Claiming, Holding, NobodyReady, ResOf
<1>4. fault' = "none" => SetupInv(a)'
  BY SMTT(12) DEF Hotplug, ReadyOwnsSlot, SetupInv, Claiming, Holding, NobodyReady, ResOf
<1>5. PciDrvrs' = {v \in Drivers : mod'[v] # "out"}
  BY SMTT(12) DEF Hotplug, SetupInv
<1>6. fault' = "none" => ModuleInv(a)'
  BY SMTT(12) DEF Hotplug, ModuleInv, ReadyOwnsSlot, SetupInv, Claiming, Holding, NobodyReady,
        ResOf
<1> QED
  BY <1>2, <1>3, <1>4, <1>5, <1>6

\* LInv is kept when a plug finds no memory.
LEMMA HotplugNoMemoryKeeps ==
  ASSUME NEW a \in Admins, Admins = {a}, LInv, HotplugNoMemory(a)
  PROVE  LInv'
<1> USE SlotsAssumption, StaticAssumption, DriversAssumption
<1>1. Returned(a)
  BY Returning DEF HotplugNoMemory, LInv, Answers
<1> USE <1>1 DEF LInv, TypeOK, Pointer, Answers, NoDriver, Unknown, Dangling, busVars, objVars,
      drvVars, admVars, At, ObjectOf, Returned, Moved, Idle
<1>2. TypeOK'
  BY SMTT(12) DEF HotplugNoMemory, SetupInv, Claiming
<1>3. ReadyOwnsSlot'
  BY SMTT(12) DEF HotplugNoMemory, ReadyOwnsSlot, SetupInv, Claiming, Holding, NobodyReady, ResOf
<1>4. fault' = "none" => SetupInv(a)'
  BY SMTT(12) DEF HotplugNoMemory, ReadyOwnsSlot, SetupInv, Claiming, Holding, NobodyReady, ResOf
<1>5. PciDrvrs' = {v \in Drivers : mod'[v] # "out"}
  BY SMTT(12) DEF HotplugNoMemory, SetupInv
<1>6. fault' = "none" => ModuleInv(a)'
  BY SMTT(12) DEF HotplugNoMemory, ModuleInv, ReadyOwnsSlot, SetupInv, Claiming, Holding,
        NobodyReady, ResOf
<1> QED
  BY <1>2, <1>3, <1>4, <1>5, <1>6

\* LInv is kept when a plug builds the pci_dev.
LEMMA HotplugSetupKeeps ==
  ASSUME NEW a \in Admins, Admins = {a}, LInv, HotplugSetup(a)
  PROVE  LInv'
<1> USE SlotsAssumption, StaticAssumption, DriversAssumption
<1>1. Gone(a, "probe")
  BY Going DEF HotplugSetup, LInv, Pcs
<1> USE <1>1 DEF LInv, TypeOK, Pointer, Answers, NoDriver, Unknown, Dangling, busVars, objVars,
      drvVars, admVars, At, ObjectOf, Gone, Moved
<1>2. TypeOK'
  BY SMTT(12) DEF HotplugSetup, SetupInv, Claiming, SetupPciDevice
<1>3. ReadyOwnsSlot'
  BY SMTT(12) DEF HotplugSetup, ReadyOwnsSlot, SetupInv, Claiming, Holding, NobodyReady, ResOf,
        SetupPciDevice
<1>4. fault' = "none" => SetupInv(a)'
  BY SMTT(12) DEF HotplugSetup, ReadyOwnsSlot, SetupInv, Claiming, Holding, NobodyReady, ResOf,
        SetupPciDevice
<1>5. PciDrvrs' = {v \in Drivers : mod'[v] # "out"}
  BY SMTT(12) DEF HotplugSetup, SetupInv, SetupPciDevice
<1>6. fault' = "none" => ModuleInv(a)'
  BY SMTT(12) DEF HotplugSetup, ModuleInv, ReadyOwnsSlot, SetupInv, Claiming, Holding,
        NobodyReady, ResOf,
        SetupPciDevice
<1> QED
  BY <1>2, <1>3, <1>4, <1>5, <1>6

\* LInv is kept when no driver claims the plugged device.
LEMMA HotplugNoDriverKeeps ==
  ASSUME NEW a \in Admins, Admins = {a}, LInv, HotplugNoDriver(a)
  PROVE  LInv'
<1> USE SlotsAssumption, StaticAssumption, DriversAssumption
<1>1. Failed(a)
  BY Failing DEF HotplugNoDriver, LInv, SetupInv, Claiming, At
<1> USE <1>1 DEF LInv, TypeOK, Pointer, Answers, NoDriver, Unknown, Dangling, busVars, objVars,
      drvVars, admVars, At, ObjectOf, Failed, Moved, Idle
<1>2. TypeOK'
  BY SMTT(12) DEF HotplugNoDriver, SetupInv, Claiming
<1>3. ReadyOwnsSlot'
  BY SMTT(12) DEF HotplugNoDriver, ReadyOwnsSlot, SetupInv, Claiming, Holding, NobodyReady, ResOf
<1>4. fault' = "none" => SetupInv(a)'
  BY SMTT(12) DEF HotplugNoDriver, ReadyOwnsSlot, SetupInv, Claiming, Holding, NobodyReady, ResOf
<1>5. PciDrvrs' = {v \in Drivers : mod'[v] # "out"}
  BY SMTT(12) DEF HotplugNoDriver, SetupInv
<1>6. fault' = "none" => ModuleInv(a)'
  BY SMTT(12) DEF HotplugNoDriver, ModuleInv, ReadyOwnsSlot, SetupInv, Claiming, Holding,
        NobodyReady, ResOf
<1> QED
  BY <1>2, <1>3, <1>4, <1>5, <1>6

\* LInv is kept when the probe of the driver is called.
LEMMA ProbeKeeps ==
  ASSUME NEW a \in Admins, Admins = {a}, LInv, Probe(a)
  PROVE  LInv'
<1> USE SlotsAssumption, StaticAssumption, DriversAssumption
<1>1. Gone(a, "setup")
  BY Going DEF Probe, LInv, Pcs
<1> USE <1>1 DEF LInv, TypeOK, Pointer, Answers, NoDriver, Unknown, Dangling, busVars, objVars,
      drvVars, admVars, At, ObjectOf, Gone, Moved
<1>2. TypeOK'
  BY SMTT(12) DEF Probe, SetupInv, Claiming
<1>3. ReadyOwnsSlot'
  BY SMTT(12) DEF Probe, ReadyOwnsSlot, SetupInv, Claiming, Holding, NobodyReady, ResOf
<1>4. fault' = "none" => SetupInv(a)'
  BY SMTT(12) DEF Probe, ReadyOwnsSlot, SetupInv, Claiming, Holding, NobodyReady, ResOf
<1>5. PciDrvrs' = {v \in Drivers : mod'[v] # "out"}
  BY SMTT(12) DEF Probe, SetupInv
<1>6. fault' = "none" => ModuleInv(a)'
  BY SMTT(12) DEF Probe, ModuleInv, ReadyOwnsSlot, SetupInv, Claiming, Holding, NobodyReady, ResOf
<1> QED
  BY <1>2, <1>3, <1>4, <1>5, <1>6

\* LInv is kept when an unplug is refused.
LEMMA HotunplugRefusedKeeps ==
  ASSUME NEW a \in Admins, Admins = {a}, LInv, NEW s \in Slots, HotunplugRefused(a, s)
  PROVE  LInv'
<1> USE SlotsAssumption, StaticAssumption, DriversAssumption
<1>1. Returned(a)
  BY Returning DEF HotunplugRefused, LInv, Answers
<1> USE <1>1 DEF LInv, TypeOK, Pointer, Answers, NoDriver, Unknown, Dangling, busVars, objVars,
      drvVars, admVars, At, ObjectOf, Returned, Moved, Idle
<1>2. TypeOK'
  BY SMTT(12) DEF HotunplugRefused, SetupInv, Claiming
<1>3. ReadyOwnsSlot'
  BY SMTT(12) DEF HotunplugRefused, ReadyOwnsSlot, SetupInv, Claiming, Holding, NobodyReady, ResOf
<1>4. fault' = "none" => SetupInv(a)'
  BY SMTT(12) DEF HotunplugRefused, ReadyOwnsSlot, SetupInv, Claiming, Holding, NobodyReady, ResOf
<1>5. PciDrvrs' = {v \in Drivers : mod'[v] # "out"}
  BY SMTT(12) DEF HotunplugRefused, SetupInv
<1>6. fault' = "none" => ModuleInv(a)'
  BY SMTT(12) DEF HotunplugRefused, ModuleInv, ReadyOwnsSlot, SetupInv, Claiming, Holding,
        NobodyReady, ResOf
<1> QED
  BY <1>2, <1>3, <1>4, <1>5, <1>6

\* LInv is kept when an unplug starts.
LEMMA HotunplugKeeps ==
  ASSUME NEW a \in Admins, Admins = {a}, LInv, NEW s \in Slots, Hotunplug(a, s)
  PROVE  LInv'
<1> USE SlotsAssumption, StaticAssumption, DriversAssumption
<1>1. Moved(a) /\ op'[a] = [pc |-> "remove", drv |-> driver[s], slot |-> s, hpl |-> FALSE,
      devcount |-> 0]
  <2> DEFINE o == [pc |-> "remove", drv |-> driver[s], slot |-> s, hpl |-> FALSE, devcount |-> 0]
  <2>1. o \in Operation
    BY DEF Hotunplug, LInv, TypeOK, SetupInv, At, Operation, Pcs, Pointer
  <2>2. op' = [op EXCEPT ![a] = o] /\ answer' = [answer EXCEPT ![a] = "none"] /\ TypeOK
    BY DEF Hotunplug, LInv, Start
  <2> HIDE DEF o
  <2>3. Moved(a) /\ op'[a] = o
    BY <2>1, <2>2, Starting DEF Answers
  <2> QED
    BY <2>3 DEF o
<1> USE <1>1 DEF LInv, TypeOK, Pointer, Answers, NoDriver, Unknown, Dangling, busVars, objVars,
      drvVars, admVars, At, ObjectOf, Moved
<1>2. TypeOK'
  BY SMTT(12) DEF Hotunplug, SetupInv, Claiming
<1>3. ReadyOwnsSlot'
  BY SMTT(12) DEF Hotunplug, ReadyOwnsSlot, SetupInv, Claiming, Holding, NobodyReady, ResOf
<1>4. fault' = "none" => SetupInv(a)'
  BY SMTT(12) DEF Hotunplug, ReadyOwnsSlot, SetupInv, Claiming, Holding, NobodyReady, ResOf
<1>5. PciDrvrs' = {v \in Drivers : mod'[v] # "out"}
  BY SMTT(12) DEF Hotunplug, SetupInv
<1>6. fault' = "none" => ModuleInv(a)'
  BY SMTT(12) DEF Hotunplug, ModuleInv, ReadyOwnsSlot, SetupInv, Claiming, Holding, NobodyReady,
        ResOf
<1> QED
  BY <1>2, <1>3, <1>4, <1>5, <1>6

\* LInv is kept when an unplug removes the device.
LEMMA HotunplugRemoveKeeps ==
  ASSUME NEW a \in Admins, Admins = {a}, LInv, HotunplugRemove(a)
  PROVE  LInv'
<1> USE SlotsAssumption, StaticAssumption, DriversAssumption
<1>1. Returned(a)
  BY Returning DEF HotunplugRemove, LInv, Answers
<1> USE <1>1 DEF LInv, TypeOK, Pointer, Answers, NoDriver, Unknown, Dangling, busVars, objVars,
      drvVars, admVars, At, ObjectOf, Returned, Moved, Idle
<1>2. TypeOK'
  BY SMTT(12) DEF HotunplugRemove, SetupInv, Claiming, RemoveDevice, Release
<1>3. ReadyOwnsSlot'
  BY SMTT(12) DEF HotunplugRemove, ReadyOwnsSlot, SetupInv, Claiming, Holding, NobodyReady,
        ResOf, RemoveDevice, Release
<1>4. fault' = "none" => SetupInv(a)'
  BY SMTT(12) DEF HotunplugRemove, ReadyOwnsSlot, SetupInv, Claiming, Holding, NobodyReady,
        ResOf, RemoveDevice, Release
<1>5. PciDrvrs' = {v \in Drivers : mod'[v] # "out"}
  BY SMTT(12) DEF HotunplugRemove, SetupInv, RemoveDevice
<1>6. fault' = "none" => ModuleInv(a)'
  BY SMTT(12) DEF HotunplugRemove, ModuleInv, ReadyOwnsSlot, SetupInv, Claiming, Holding,
        NobodyReady, ResOf,
        RemoveDevice
<1> QED
  BY <1>2, <1>3, <1>4, <1>5, <1>6

-----------------------------------------------------------------------------
\* The states the system starts in satisfy LInv: nothing is loaded or plugged.
LEMMA InitSatisfiesLInv ==
  ASSUME Init
  PROVE  LInv
<1>1. \A a \in Admins : Idle \in Operation
  BY DEF Idle, Operation, Pcs, Pointer
<1>2. TypeOK
  BY <1>1 DEF Init, TypeOK, Pointer
<1>3. ReadyOwnsSlot
  BY DEF Init, ReadyOwnsSlot
<1>4. \A a \in Admins : SetupInv(a) /\ ModuleInv(a)
  BY DEF Init, Idle, SetupInv, ModuleInv, Claiming, Holding
<1>5. PciDrvrs = {d \in Drivers : mod[d] # "out"}
  BY DEF Init
<1> QED
  BY <1>2, <1>3, <1>4, <1>5 DEF LInv

\* Every step of the one administrator keeps LInv.
LEMMA StepKeepsLInv ==
  ASSUME NEW a, Admins = {a}, LInv, [Next]_vars
  PROVE  LInv'
<1>1. CASE SetupStep(a)
  BY <1>1,
     SetupBeginKeeps, GetDeviceKeeps, ClaimFailsKeeps, ClaimPciResrcsKeeps,
     RegisterFailsKeeps, RegisterDeviceKeeps, DmaMaskFailsKeeps, DmaSetMaskKeeps,
     CdevFailsKeeps, SetupCdevKeeps, SetupReadyKeeps
     DEF SetupStep
<1>2. CASE ModuleStep(a)
  BY <1>2,
     InsmodKeeps, InsmodFailsKeeps, LoadNextKeeps, LoadEndsKeeps, LoadFailsKeeps, RmmodKeeps,
     UnloadNextKeeps, FreeObjectsKeeps, UnregisterDriverKeeps
     DEF ModuleStep
<1>3. CASE HotplugStep(a)
  BY <1>3,
     HotplugInUseKeeps, HotplugKeeps, HotplugNoMemoryKeeps, HotplugSetupKeeps,
     HotplugNoDriverKeeps, ProbeKeeps, HotunplugRefusedKeeps, HotunplugKeeps,
     HotunplugRemoveKeeps
     DEF HotplugStep
<1>4. CASE UNCHANGED vars
  <2>1. TypeOK' /\ ReadyOwnsSlot' /\ PciDrvrs' = {d \in Drivers : mod'[d] # "out"}
    BY <1>4 DEF LInv, TypeOK, ReadyOwnsSlot, vars, busVars, drvVars, objVars, admVars
  <2>2. fault' = "none" => \A b \in Admins : SetupInv(b)'
    BY <1>4 DEF LInv, SetupInv, NobodyReady, vars, busVars, drvVars, objVars, admVars
  <2>3. fault' = "none" => \A b \in Admins : ModuleInv(b)'
    BY <1>4 DEF LInv, ModuleInv, vars, busVars, drvVars, objVars, admVars
  <2> QED
    BY <2>1, <2>2, <2>3 DEF LInv
<1> QED
  BY <1>1, <1>2, <1>3, <1>4 DEF Next

\* LInv is an invariant of loading, plugging, unplugging and unloading by one
\* administrator, whatever fails.
THEOREM LifecycleInvariance ==
  ASSUME NEW CONSTANT a, Admins = {a}
  PROVE  Spec => []LInv
<1>1. Init => LInv
  BY InitSatisfiesLInv
<1>2. LInv /\ [Next]_vars => LInv'
  BY StepKeepsLInv
<1> QED
  BY <1>1, <1>2, PTL DEF Spec

\* A device that is ready owns its slot (maddev_setup_device,
\* maddev_remove_device, madbus_hotplug, pcisim_register_driver).
THEOREM ReadyDevicesOwnTheirSlots ==
  ASSUME NEW CONSTANT a, Admins = {a}
  PROVE  Spec => []ReadyOwnsSlot
<1>1. Spec => []LInv
  BY LifecycleInvariance
<1>2. LInv => ReadyOwnsSlot
  BY DEF LInv
<1> QED
  BY <1>1, <1>2, PTL

\* maddev_setup_device never begins with an object that is ready: a plug takes a
\* free slot, and a load finds no object of its driver.
LEMMA SetupFindsNobodyReady ==
  ASSUME NEW CONSTANT a, Admins = {a}, LInv, At(a, "setup")
  PROVE  ObjectOf(a) \notin bReady
<1>1. a \in Admins /\ SetupInv(a) /\ ModuleInv(a) /\ TypeOK
  BY DEF LInv, At
<1>2. op[a].drv \in Drivers /\ op[a].slot \in Slots /\ op[a].hpl \in BOOLEAN
  BY <1>1 DEF SetupInv, At, TypeOK, Operation
<1>3. CASE op[a].hpl
  BY <1>1, <1>2, <1>3 DEF SetupInv, At, ObjectOf, NobodyReady
<1>4. CASE ~op[a].hpl
  <2>1. op[a].slot >= op[a].slot
    BY <1>2, SlotsAssumption
  <2> QED
    BY <1>1, <1>2, <1>4, <2>1 DEF ModuleInv, At, ObjectOf
<1> QED
  BY <1>2, <1>3, <1>4

\* A ready device stays ready until it is unplugged (madbus_hotunplug) or its
\* driver unloaded (maddev_cleanup_module).
THEOREM ReadyDevicesStay ==
  ASSUME NEW CONSTANT a, Admins = {a}
  PROVE  Spec => ReadyUntilRemoved
<1>1. LInv /\ [Next]_vars => [LeavesByRemoval]_vars
  <2> SUFFICES ASSUME LInv, Next, NEW d \in Drivers, NEW s \in Slots,
                      <<d, s>> \in bReady, <<d, s>> \notin bReady'
               PROVE  \E b \in Admins :
                        /\ op[b].drv = d
                        /\ op[b].pc = "unload" \/ (op[b].pc = "remove" /\ op[b].slot = s)
    BY DEF LeavesByRemoval
  <2> a \in Admins
    OBVIOUS
  <2>1. SetupStep(a) \/ ModuleStep(a) \/ HotplugStep(a)
    BY DEF Next
  <2>2. CASE SetupStep(a)
    <3>1. ~SetupBegin(a)
      BY SetupFindsNobodyReady DEF SetupBegin
    <3> QED
      BY <2>2, <3>1
         DEF SetupStep, GetDevice, ClaimFails, ClaimPciResrcs, RegisterFails, RegisterDevice,
             DmaMaskFails, DmaSetMask, CdevFails, SetupCdev, SetupReady, drvVars, objVars
  <2>3. CASE ModuleStep(a)
    <3>1. UnloadNext(a) \/ FreeObjects(a)
      BY <2>3 DEF ModuleStep, Insmod, InsmodFails, Rmmod, LoadNext, LoadEnds, LoadFails,
        UnregisterDriver,
                  drvVars, objVars
    <3>2. op[a].pc = "unload"
      BY <3>1 DEF UnloadNext, FreeObjects, At
    <3>3. CASE UnloadNext(a)
      <4>1. <<d, s>> = <<op[a].drv, op[a].slot>>
        BY <3>3 DEF UnloadNext, RemoveDevice, ObjectOf, objVars
      <4> QED
        BY <3>2, <4>1
    <3>4. CASE FreeObjects(a)
      BY <3>2, <3>4 DEF FreeObjects
    <3> QED
      BY <3>1, <3>3, <3>4
  <2>4. CASE HotplugStep(a)
    <3>1. HotunplugRemove(a)
      BY <2>4 DEF HotplugStep, HotplugInUse, Hotplug, HotplugNoMemory, HotplugSetup,
                  HotplugNoDriver, Probe, HotunplugRefused, Hotunplug, drvVars, objVars
    <3>2. op[a].pc = "remove" /\ <<d, s>> = <<op[a].drv, op[a].slot>>
      BY <3>1 DEF HotunplugRemove, RemoveDevice, At
    <3> QED
      BY <3>2
  <2> QED
    BY <2>1, <2>2, <2>3, <2>4
<1>2. Spec => []LInv
  BY LifecycleInvariance
<1> QED
  BY <1>1, <1>2, PTL DEF Spec, ReadyUntilRemoved

\* What the release of one object does to the others: nothing.
LEMMA ReleaseOne ==
  ASSUME NEW d \in Drivers, NEW s \in Slots, NEW x \in Drivers, NEW y \in Slots,
         NEW r \in Resources, Release(x, y), <<d, s, r>> \in res'
  PROVE  <<d, s>> # <<x, y>> /\ <<d, s, r>> \in res
  BY DEF Release, ResOf

\* The steps of maddev_setup_device lose resources in the claim only, and never
\* the mapping.
LEMMA SetupLeaks ==
  ASSUME NEW CONSTANT a, Admins = {a}, LInv, SetupStep(a),
         NEW d \in Drivers, NEW s \in Slots, NEW r \in Resources,
         Leaked(d, s, r)', ~Leaked(d, s, r)
  PROVE  op[a].drv = d /\ op[a].pc = "claim" /\ op[a].slot = s /\ r # "map"
<1>1. a \in Admins /\ TypeOK /\ fault = "none" /\ SetupInv(a)
  BY DEF LInv, SetupStep, At, SetupBegin, GetDevice, ClaimFails, ClaimPciResrcs, RegisterFails,
         RegisterDevice, DmaMaskFails, DmaSetMask, CdevFails, SetupCdev, SetupReady
<1>2. op[a].slot \in Slots /\ op[a].drv \in Drivers
  BY <1>1 DEF SetupInv, Claiming, SetupStep, At, SetupBegin, GetDevice, ClaimFails,
         ClaimPciResrcs, RegisterFails, RegisterDevice, DmaMaskFails, DmaSetMask, CdevFails,
         SetupCdev, SetupReady
<1>3. /\ <<d, s, r>> \in res' /\ <<d, s>> \notin bReady'
      /\ op'[a].pc \in Holding => ObjectOf(a)' # <<d, s>>
      /\ <<d, s, r>> \in res => <<d, s>> \in bReady \/ (op[a].pc \in Holding /\ ObjectOf(a) = <<d, s>>)
  BY <1>1 DEF Leaked, Owned
<1>4. CASE SetupBegin(a)
  BY <1>2, <1>3, <1>4, SetupFindsNobodyReady DEF SetupBegin, At, Holding, Claiming, ObjectOf
<1>5. CASE GetDevice(a) \/ DmaSetMask(a) \/ SetupCdev(a) \/ RegisterDevice(a)
  <2>1. UNCHANGED <<bReady, res>>
    BY <1>5 DEF GetDevice, DmaSetMask, SetupCdev, RegisterDevice, drvVars, objVars
  <2>2. PICK pc \in {"claim"} \cup Holding :
          Gone(a, pc) /\ (op[a].pc \in Holding => pc \in Holding)
    BY <1>1, <1>5, Going DEF GetDevice, DmaSetMask, SetupCdev, RegisterDevice, At, Holding,
                             Claiming, Pcs
  <2> QED
    BY <1>3, <2>1, <2>2 DEF Gone, ObjectOf
<1>6. CASE ClaimFails(a)
  <2>1. PICK call \in DOMAIN LeftByClaim :
          res' = res \cup {<<op[a].drv, op[a].slot, k>> : k \in LeftByClaim[call]}
    BY <1>6 DEF ClaimFails
  <2>2. bReady' = bReady /\ op[a].pc = "claim"
    BY <1>6 DEF ClaimFails, At
  <2>3. <<d, s, r>> \notin res
    BY <1>3, <2>2 DEF Holding
  <2>4. d = op[a].drv /\ s = op[a].slot /\ r \in LeftByClaim[call]
    BY <1>3, <2>1, <2>3
  <2>5. r # "map"
    BY <2>4 DEF LeftByClaim
  <2> QED
    BY <2>2, <2>4, <2>5
<1>7. CASE ClaimPciResrcs(a)
  <2>1. Gone(a, "register")
    BY <1>1, <1>7, Going DEF ClaimPciResrcs, Pcs
  <2>2. <<d, s>> # ObjectOf(a)
    BY <1>3, <2>1 DEF Gone, ObjectOf, Holding, Claiming
  <2>3. bReady' = bReady /\ res' = res \cup ResOf(op[a].drv, op[a].slot)
    BY <1>7 DEF ClaimPciResrcs
  <2> QED
    BY <1>3, <2>2, <2>3 DEF ResOf, ObjectOf
<1>8. CASE RegisterFails(a) \/ DmaMaskFails(a) \/ CdevFails(a)
  <2>1. bReady' = bReady /\ Release(op[a].drv, op[a].slot)
    BY <1>8 DEF RegisterFails, DmaMaskFails, CdevFails
  <2> QED
    BY <1>2, <1>3, <2>1, ReleaseOne DEF ObjectOf
<1>9. CASE SetupReady(a)
  BY <1>3, <1>9 DEF SetupReady
<1> QED
  BY <1>4, <1>5, <1>6, <1>7, <1>8, <1>9 DEF SetupStep

\* Loading and unloading lose what the devices beyond the static ones hold.
LEMMA ModuleLeaks ==
  ASSUME NEW CONSTANT a, Admins = {a}, LInv, ModuleStep(a),
         NEW d \in Drivers, NEW s \in Slots, NEW r \in Resources,
         Leaked(d, s, r)', ~Leaked(d, s, r)
  PROVE  /\ op[a].drv = d /\ op[a].pc = "unload" /\ op[a].slot > Static[d]
         /\ s > Static[d] /\ <<d, s>> \in bReady
<1>1. a \in Admins /\ TypeOK /\ fault = "none" /\ SetupInv(a) /\ ModuleInv(a)
  BY DEF LInv, ModuleStep, At, Insmod, InsmodFails, Rmmod, LoadNext, LoadEnds, LoadFails,
         UnloadNext, FreeObjects, UnregisterDriver
<1>2. op[a].pc \notin Holding
  BY DEF ModuleStep, At, Insmod, InsmodFails, Rmmod, LoadNext, LoadEnds, LoadFails,
         UnloadNext, FreeObjects, UnregisterDriver, Holding, Claiming
<1>3. /\ <<d, s, r>> \in res' /\ <<d, s>> \notin bReady'
      /\ <<d, s, r>> \in res => <<d, s>> \in bReady
  BY <1>1, <1>2 DEF Leaked, Owned
<1>4. UnloadNext(a) \/ FreeObjects(a)
  BY <1>3 DEF ModuleStep, Insmod, InsmodFails, Rmmod, LoadNext, LoadEnds, LoadFails,
              UnregisterDriver, drvVars, objVars
<1>5. op[a].pc = "unload" /\ op[a].drv \in Drivers /\ op[a].slot \in Nat
  BY <1>1, <1>4 DEF UnloadNext, FreeObjects, At, SetupInv, TypeOK, Operation
<1>6. CASE UnloadNext(a)
  <2>1. ObjectOf(a) \in bReady /\ RemoveDevice(op[a].drv, op[a].slot)
    BY <1>3, <1>6 DEF UnloadNext, objVars
  <2>2. op[a].slot \in Slots
    BY <1>1, <2>1 DEF TypeOK, ObjectOf
  <2>3. <<d, s>> # ObjectOf(a) /\ <<d, s, r>> \in res
    BY <1>3, <1>5, <2>1, <2>2, ReleaseOne DEF RemoveDevice, ObjectOf
  <2> QED
    BY <1>3, <2>1, <2>3 DEF RemoveDevice, ObjectOf
<1>7. CASE FreeObjects(a)
  <2>1. <<d, s>> \in bReady /\ d = op[a].drv /\ op[a].slot > Static[d]
    BY <1>3, <1>7 DEF FreeObjects
  <2>2. s > Static[d]
    BY <1>1, <1>5, <2>1, SlotsAssumption, StaticAssumption DEF ModuleInv
  <2> QED
    BY <1>5, <2>1, <2>2
<1> QED
  BY <1>4, <1>6, <1>7

\* Plugging loses nothing outside the set-up, and unplugging releases what the
\* device held.
LEMMA HotplugLeaks ==
  ASSUME NEW CONSTANT a, Admins = {a}, LInv, HotplugStep(a),
         NEW d \in Drivers, NEW s \in Slots, NEW r \in Resources,
         Leaked(d, s, r)', ~Leaked(d, s, r)
  PROVE  FALSE
<1>1. a \in Admins /\ TypeOK /\ fault = "none" /\ SetupInv(a)
  BY DEF LInv, HotplugStep, At, HotplugInUse, HotunplugRefused, Hotunplug, Hotplug,
         HotplugNoMemory, HotplugSetup, HotplugNoDriver, Probe, HotunplugRemove
<1>2. op[a].pc \notin Holding
  BY DEF HotplugStep, At, HotplugInUse, HotunplugRefused, Hotunplug, Hotplug,
         HotplugNoMemory, HotplugSetup, HotplugNoDriver, Probe, HotunplugRemove, Holding, Claiming
<1>3. /\ <<d, s, r>> \in res' /\ <<d, s>> \notin bReady'
      /\ <<d, s, r>> \in res => <<d, s>> \in bReady
  BY <1>1, <1>2 DEF Leaked, Owned
<1>4. HotunplugRemove(a)
  BY <1>3 DEF HotplugStep, HotplugInUse, Hotplug, HotplugNoMemory, HotplugSetup,
              HotplugNoDriver, Probe, HotunplugRefused, Hotunplug, drvVars, objVars
<1>5. op[a].drv \in Drivers /\ op[a].slot \in Slots /\ RemoveDevice(op[a].drv, op[a].slot)
  BY <1>1, <1>4 DEF HotunplugRemove, At, SetupInv
<1> QED
  BY <1>3, <1>5, ReleaseOne DEF RemoveDevice

\* PCI resources are lost in two places only: the error returns of
\* maddev_claim_pci_resrcs, and maddev_cleanup_module for the devices that were
\* plugged beyond the static ones.
THEOREM ResourcesLeakNowhereElse ==
  ASSUME NEW CONSTANT a, Admins = {a}
  PROVE  Spec => NoOtherLeak
<1>1. LInv /\ [Next]_vars => [LeaksByClaimOrUnload]_vars
  <2> SUFFICES ASSUME LInv, Next, NEW d \in Drivers, NEW s \in Slots, NEW r \in Resources,
                      Leaked(d, s, r)', ~Leaked(d, s, r)
               PROVE  /\ op[a].drv = d
                      /\ \/ op[a].pc = "claim" /\ op[a].slot = s /\ r # "map"
                         \/ /\ op[a].pc = "unload" /\ op[a].slot > Static[d]
                            /\ s > Static[d] /\ <<d, s>> \in bReady
    BY DEF LeaksByClaimOrUnload
  <2>1. SetupStep(a) \/ ModuleStep(a) \/ HotplugStep(a)
    BY DEF Next
  <2> QED
    BY <2>1, SetupLeaks, ModuleLeaks, HotplugLeaks
<1>2. Spec => []LInv
  BY LifecycleInvariance
<1> QED
  BY <1>1, <1>2, PTL DEF Spec, NoOtherLeak
-----------------------------------------------------------------------------

\* What PlugInv says of the slots.
PluggedSlots(a) ==
  \A d \in Drivers, s \in Slots :
    /\ pci_devid[s] = d /\ bHP[s] /\ s > Static[d]
    /\ driver[s] \in {NoDriver, d} /\ ~Plugging(a, s)
    => <<d, s>> \in bReady \/ (driver[s] = d /\ op[a].pc = "unregister" /\ op[a].drv = d)

\* A set-up that failed gives a plugged slot back and leaves the others alone.
LEMMA FailedPlug ==
  ASSUME NEW a \in Admins, LInv, fault = "none", PlugInv(a), Failed(a),
         op[a].pc \in {"setup", "probe"} \cup Claiming,
         UNCHANGED <<bHP, mod>>,
         \A d \in Drivers, s \in Slots : <<d, s>> \in bReady /\ <<d, s>> # ObjectOf(a) => <<d,
        s>> \in bReady',
         \A s \in Slots : s # op[a].slot => driver'[s] = driver[s],
         op[a].pc \in {"setup", "probe"} => driver' = driver
  PROVE  PlugInv(a)'
<1>1. op[a].slot \in Slots /\ op[a].drv \in Drivers \cup {Unknown} /\ SetupInv(a) /\ TypeOK
  BY DEF LInv, SetupInv, Claiming
<1>2. CASE op[a].hpl
  <2>1. op'[a] = Idle /\ pci_devid' = [pci_devid EXCEPT ![op[a].slot] = NoDriver]
    BY <1>2 DEF Failed
  <2>2. PluggedSlots(a)'
    <3> SUFFICES ASSUME NEW d \in Drivers, NEW s \in Slots, pci_devid'[s] = d, bHP'[s],
                        s > Static[d], driver'[s] \in {NoDriver, d}
                 PROVE  <<d, s>> \in bReady'
      BY DEF PluggedSlots
    <3>1. s # op[a].slot /\ pci_devid[s] = d
      BY <1>1, <2>1, DriversAssumption DEF TypeOK
    <3> QED
      BY <3>1 DEF PlugInv, Plugging, ObjectOf, Claiming
  <2> QED
    BY <2>1, <2>2 DEF PlugInv, PluggedSlots, Idle, Claiming
<1>3. CASE ~op[a].hpl
  <2>1. /\ pci_devid' = pci_devid /\ op'[a].pc = "load" /\ op'[a].drv = op[a].drv
        /\ ~op'[a].hpl /\ op[a].pc \in {"setup"} \cup Claiming
        /\ op[a].slot <= Static[op[a].drv]
    BY <1>1, <1>3 DEF Failed, SetupInv, PlugInv
  <2>2. PluggedSlots(a)'
    <3> SUFFICES ASSUME NEW d \in Drivers, NEW s \in Slots, pci_devid[s] = d, bHP[s],
                        s > Static[d], driver'[s] \in {NoDriver, d}
                 PROVE  <<d, s>> \in bReady'
      BY <2>1 DEF PluggedSlots
    <3>1. driver'[s] = driver[s] /\ <<d, s>> # ObjectOf(a)
      <4>1. CASE s = op[a].slot
        <5>1. op[a].drv # d
          BY <2>1, <4>1, SlotsAssumption, StaticAssumption
        <5>2. op[a].pc \notin Claiming
          BY <1>1, <4>1, <5>1 DEF SetupInv
        <5> QED
          BY <2>1, <5>1, <5>2 DEF ObjectOf
      <4>2. CASE s # op[a].slot
        BY <4>2 DEF ObjectOf
      <4> QED
        BY <4>1, <4>2
    <3> QED
      BY <1>3, <2>1, <3>1 DEF PlugInv, Plugging, Claiming
  <2> QED
    BY <2>1, <2>2 DEF PlugInv, PluggedSlots, Claiming
<1>4. op[a].hpl \in BOOLEAN
  BY <1>1 DEF TypeOK, Operation
<1> QED
  BY <1>2, <1>3, <1>4

\* A set-up that goes on changes its own slot only, which is not claimed to be
\* settled.
LEMMA SetupGoesOnPlug ==
  ASSUME NEW a \in Admins, LInv, fault = "none", PlugInv(a), NEW pc \in Claiming \cup {"get"},
         Gone(a, pc), op[a].pc \in {"setup", "get"} \cup Claiming,
         UNCHANGED <<bHP, mod>>,
         pci_devid' = pci_devid \/ pci_devid' = [pci_devid EXCEPT ![op[a].slot] = op[a].drv],
         op[a].pc = "setup" => pc = "get" \/ op[a].hpl,
         op[a].pc = "setup" => driver' = driver,
         op[a].pc = "get" => pci_devid' = [pci_devid EXCEPT ![op[a].slot] = op[a].drv],
         \A d \in Drivers, s \in Slots : <<d, s>> \in bReady /\ <<d, s>> # ObjectOf(a) => <<d,
        s>> \in bReady',
         \A s \in Slots : s # op[a].slot => driver'[s] = driver[s]
  PROVE  PlugInv(a)'
<1>1. /\ op[a].slot \in Slots /\ op[a].drv \in Drivers /\ SetupInv(a) /\ TypeOK
      /\ op[a].hpl \in BOOLEAN
  BY DEF LInv, SetupInv, Claiming, TypeOK, Operation
<1>2. /\ op'[a].pc = pc /\ op'[a].slot = op[a].slot /\ op'[a].hpl = op[a].hpl
      /\ op'[a].drv = op[a].drv /\ pc \notin {"idle", "unload", "unregister", "remove"}
  BY DEF Gone, Claiming
<1>3. PluggedSlots(a)'
  <2> SUFFICES ASSUME NEW d \in Drivers, NEW s \in Slots, pci_devid'[s] = d, bHP[s],
                      s > Static[d], driver'[s] \in {NoDriver, d}, ~Plugging(a, s)'
               PROVE  <<d, s>> \in bReady'
    BY DEF PluggedSlots
  <2>1. CASE s # op[a].slot
    BY <1>1, <2>1 DEF TypeOK, PlugInv, Plugging, ObjectOf, Claiming
  <2>2. CASE s = op[a].slot
    <3>1. ~op[a].hpl /\ op[a].slot <= Static[op[a].drv]
      BY <1>1, <1>2, <2>2 DEF Plugging, PlugInv
    <3>2. op[a].drv # d
      BY <2>2, <3>1, SlotsAssumption, StaticAssumption
    <3>3. op[a].pc \notin Claiming /\ op[a].pc # "get"
      BY <1>1, <2>2, <3>2 DEF SetupInv, TypeOK
    <3>4. op[a].pc = "setup" /\ pci_devid[s] = d /\ driver[s] = driver'[s]
      BY <1>1, <2>2, <3>2, <3>3 DEF TypeOK
    <3> QED
      BY <3>1, <3>2, <3>4 DEF PlugInv, Plugging, ObjectOf
  <2> QED
    BY <2>1, <2>2
<1>4. pc \in {"setup", "get"} \cup Claiming /\ ~op[a].hpl => op[a].slot <= Static[op[a].drv]
  BY DEF PlugInv
<1> QED
  BY <1>2, <1>3, <1>4 DEF PlugInv, PluggedSlots

\* The steps of maddev_setup_device keep PlugInv.
LEMMA SetupStepPlug ==
  ASSUME NEW a \in Admins, LInv, PlugInv(a), SetupStep(a)
  PROVE  PlugInv(a)'
<1> USE DEF busVars, objVars, drvVars, admVars, At
<1>1. TypeOK /\ fault = "none" /\ SetupInv(a)
  BY DEF LInv, SetupStep, SetupBegin, GetDevice, ClaimFails, ClaimPciResrcs, RegisterFails,
         RegisterDevice, DmaMaskFails, DmaSetMask, CdevFails, SetupCdev, SetupReady
<1>2. op[a].slot \in Slots /\ op[a].drv \in Drivers
  BY <1>1 DEF SetupInv, Claiming, SetupStep, SetupBegin, GetDevice, ClaimFails, ClaimPciResrcs,
         RegisterFails, RegisterDevice, DmaMaskFails, DmaSetMask, CdevFails, SetupCdev, SetupReady
<1>3. CASE (SetupBegin(a) /\ SetupFails(a)) \/ ClaimFails(a) \/ RegisterFails(a)
           \/ DmaMaskFails(a) \/ CdevFails(a)
  <2>1. Failed(a)
    BY <1>1, <1>2, <1>3, Failing DEF ClaimFails, RegisterFails, DmaMaskFails, CdevFails
  <2>2. op[a].pc \in {"setup"} \cup Claiming /\ UNCHANGED <<bHP, mod>>
    BY <1>3 DEF SetupBegin, ClaimFails, RegisterFails, DmaMaskFails, CdevFails, Claiming
  <2>3. \A d \in Drivers, s \in Slots :
          <<d, s>> \in bReady /\ <<d, s>> # ObjectOf(a) => <<d, s>> \in bReady'
    BY <1>3 DEF SetupBegin, ClaimFails, RegisterFails, DmaMaskFails, CdevFails
  <2>4. /\ \A s \in Slots : s # op[a].slot => driver'[s] = driver[s]
        /\ op[a].pc \in {"setup", "probe"} => driver' = driver
    BY <1>1, <1>3 DEF SetupBegin, ClaimFails, RegisterFails, DmaMaskFails, CdevFails, TypeOK
  <2> QED
    BY <1>1, <2>1, <2>2, <2>3, <2>4, FailedPlug
<1>4. CASE (SetupBegin(a) /\ ~SetupFails(a)) \/ GetDevice(a) \/ ClaimPciResrcs(a)
           \/ RegisterDevice(a) \/ DmaSetMask(a) \/ SetupCdev(a)
  <2>1. PICK pc \in Claiming \cup {"get"} :
          Gone(a, pc) /\ (op[a].pc = "setup" => pc = "get" \/ op[a].hpl)
    <3>1. PICK pc \in Claiming \cup {"get"} :
            Goto(a, pc) /\ (op[a].pc = "setup" => pc = "get" \/ op[a].hpl)
      BY <1>4 DEF SetupBegin, GetDevice, ClaimPciResrcs, RegisterDevice, DmaSetMask, SetupCdev,
                  Claiming
    <3> QED
      BY <1>1, <3>1, Going DEF Claiming, Pcs
  <2>2. op[a].pc \in {"setup", "get"} \cup Claiming /\ UNCHANGED <<bHP, mod>>
    BY <1>4 DEF SetupBegin, GetDevice, ClaimPciResrcs, RegisterDevice, DmaSetMask, SetupCdev,
                Claiming
  <2>3. \A d \in Drivers, s \in Slots :
          <<d, s>> \in bReady /\ <<d, s>> # ObjectOf(a) => <<d, s>> \in bReady'
    BY <1>4 DEF SetupBegin, GetDevice, ClaimPciResrcs, RegisterDevice, DmaSetMask, SetupCdev
  <2>4. /\ \A s \in Slots : s # op[a].slot => driver'[s] = driver[s]
        /\ op[a].pc = "setup" => driver' = driver
    BY <1>1, <1>4 DEF SetupBegin, GetDevice, ClaimPciResrcs, RegisterDevice, DmaSetMask,
        SetupCdev,
                      TypeOK, SetupPciDevice
  <2>5. /\ pci_devid' = pci_devid \/ pci_devid' = [pci_devid EXCEPT ![op[a].slot] = op[a].drv]
        /\ op[a].pc = "get" => pci_devid' = [pci_devid EXCEPT ![op[a].slot] = op[a].drv]
    BY <1>4 DEF SetupBegin, GetDevice, ClaimPciResrcs, RegisterDevice, DmaSetMask, SetupCdev,
                SetupPciDevice
  <2> QED
    BY <1>1, <2>1, <2>2, <2>3, <2>4, <2>5, SetupGoesOnPlug
<1>5. CASE SetupReady(a)
  <2>1. Succeeded(a)
    BY <1>1, <1>2, <1>5, Succeeding DEF SetupReady
  <2>2. /\ UNCHANGED <<pci_devid, driver, mod>> /\ bReady' = bReady \cup {ObjectOf(a)}
        /\ op[a].pc = "node" /\ pci_devid[op[a].slot] = op[a].drv
        /\ ~op[a].hpl => bHP' = bHP
        /\ op[a].hpl => bHP' = [bHP EXCEPT ![op[a].slot] = TRUE]
    BY <1>1, <1>5 DEF SetupReady, SetupSucceeds, SetupInv, Claiming
  <2>3. /\ op'[a].pc \in {"idle", "load"} /\ ~op'[a].hpl
    BY <2>1 DEF Succeeded, Idle
  <2>4. PluggedSlots(a)'
    <3> SUFFICES ASSUME NEW d \in Drivers, NEW s \in Slots, pci_devid[s] = d, bHP'[s],
                        s > Static[d], driver[s] \in {NoDriver, d}
                 PROVE  <<d, s>> \in bReady'
      BY <2>2 DEF PluggedSlots
    <3>1. CASE s = op[a].slot
      BY <2>2, <3>1 DEF ObjectOf
    <3>2. CASE s # op[a].slot
      BY <1>1, <2>2, <3>2 DEF PlugInv, Plugging, TypeOK
    <3> QED
      BY <3>1, <3>2
  <2> QED
    BY <2>3, <2>4 DEF PlugInv, PluggedSlots, Claiming
<1> QED
  BY <1>3, <1>4, <1>5 DEF SetupStep

\* Loading and unloading keep PlugInv: the unload of a driver leaves its pointers
\* in the slots it does not give back.
LEMMA ModuleStepPlug ==
  ASSUME NEW a \in Admins, LInv, PlugInv(a), ModuleStep(a)
  PROVE  PlugInv(a)'
<1> USE DEF busVars, objVars, drvVars, admVars, At
<1>1. TypeOK /\ ReadyOwnsSlot /\ fault = "none" /\ SetupInv(a)
  BY DEF LInv, ModuleStep, Insmod, InsmodFails, Rmmod, LoadNext, LoadEnds, LoadFails,
        UnloadNext, FreeObjects,
         UnregisterDriver
<1>2. CASE \E d \in Drivers : Insmod(a, d)
  <2>1. PICK n \in Drivers : Insmod(a, n)
    BY <1>2
  <2>2. op'[a].pc = "load" /\ ~op'[a].hpl /\ op[a].pc = "idle"
    BY <1>1, <2>1 DEF Insmod, Start, TypeOK
  <2>3. UNCHANGED <<pci_devid, bHP, driver, bReady>>
    BY <2>1 DEF Insmod
  <2>4. ~op[a].hpl
    BY <2>2 DEF PlugInv
  <2> QED
    BY <2>2, <2>3, <2>4 DEF PlugInv, Plugging, Claiming
<1>3. CASE \E d \in Drivers : Rmmod(a, d)
  <2>1. PICK n \in Drivers : Rmmod(a, n)
    BY <1>3
  <2>2. op'[a].pc = "unload" /\ op'[a].drv = n /\ ~op'[a].hpl /\ op[a].pc = "idle"
    BY <1>1, <2>1 DEF Rmmod, Start, TypeOK
  <2>3. UNCHANGED <<pci_devid, bHP, driver, bReady>> /\ mod'[n] = "exit"
    BY <1>1, <2>1 DEF Rmmod, TypeOK
  <2>4. ~op[a].hpl
    BY <2>2 DEF PlugInv
  <2> QED
    BY <2>2, <2>3, <2>4 DEF PlugInv, Plugging, Claiming
<1>11. CASE \E d \in Drivers : InsmodFails(a, d)
  <2>1. UNCHANGED <<pci_devid, bHP, driver, bReady, mod>> /\ op[a].pc = "idle"
    BY <1>11 DEF InsmodFails
  <2>2. op'[a] = Idle \/ op' = op
    BY <1>1, <1>11, Returning DEF InsmodFails, Answers, Returned
  <2>3. ~op[a].hpl
    BY <2>1 DEF PlugInv
  <2> QED
    BY <2>1, <2>2, <2>3 DEF PlugInv, Plugging, Claiming, Idle
<1>4. op[a].pc \in {"load", "unload", "unregister"} => op[a].drv \in Drivers /\ ~op[a].hpl
  BY <1>1 DEF SetupInv
<1>5. CASE LoadNext(a)
  <2>1. /\ op'[a].pc = "setup" /\ op'[a].drv = op[a].drv /\ op'[a].slot = op[a].slot
        /\ op'[a].hpl = op[a].hpl
    BY <1>1, <1>5, Going DEF LoadNext, Pcs, Gone
  <2>2. UNCHANGED <<pci_devid, bHP, driver, bReady, mod>> /\ op[a].pc = "load"
        /\ op[a].slot <= Static[op[a].drv]
    BY <1>5 DEF LoadNext
  <2> QED
    BY <1>4, <2>1, <2>2 DEF PlugInv, Plugging, Claiming
<1>6. CASE LoadEnds(a)
  <2>1. op'[a] = Idle
    BY <1>1, <1>6, Returning DEF LoadEnds, Answers, Returned
  <2>2. UNCHANGED <<pci_devid, bHP, driver, bReady>> /\ op[a].pc = "load"
    BY <1>6 DEF LoadEnds
  <2> QED
    BY <1>4, <2>1, <2>2 DEF PlugInv, Plugging, Claiming, Idle
<1>7. CASE LoadFails(a)
  <2>1. op'[a].pc = "unload" /\ op'[a].drv = op[a].drv /\ ~op'[a].hpl
    BY <1>1, <1>7 DEF LoadFails, Start, TypeOK
  <2>2. /\ UNCHANGED <<pci_devid, bHP, driver, bReady>> /\ op[a].pc = "load"
        /\ mod'[op[a].drv] = "exit"
    BY <1>1, <1>4, <1>7 DEF LoadFails, TypeOK
  <2> QED
    BY <1>4, <2>1, <2>2 DEF PlugInv, Plugging, Claiming
<1>8. CASE UnloadNext(a)
  <2>1. op'[a].pc = "unload" /\ op'[a].drv = op[a].drv /\ op'[a].hpl = op[a].hpl
        /\ op[a].pc = "unload"
    <3> DEFINE o == [op[a] EXCEPT !.slot = @ + 1]
    <3>1. op[a] \in Operation
      BY <1>1 DEF TypeOK
    <3>2. o.pc = op[a].pc /\ o.drv = op[a].drv /\ o.hpl = op[a].hpl
      BY <3>1 DEF Operation
    <3>3. op' = [op EXCEPT ![a] = o] /\ op[a].pc = "unload"
      BY <1>8 DEF UnloadNext
    <3> HIDE DEF o
    <3> QED
      BY <1>1, <3>2, <3>3 DEF TypeOK
  <2>2. /\ UNCHANGED <<pci_devid, bHP, driver, mod>> /\ op[a].slot <= Static[op[a].drv]
        /\ \A d \in Drivers, s \in Slots :
             <<d, s>> \in bReady /\ <<d, s>> # ObjectOf(a) => <<d, s>> \in bReady'
    BY <1>8 DEF UnloadNext, RemoveDevice, ObjectOf
  <2>3. PluggedSlots(a)'
    <3> SUFFICES ASSUME NEW d \in Drivers, NEW s \in Slots, pci_devid[s] = d, bHP[s],
                        s > Static[d], driver[s] \in {NoDriver, d}
                 PROVE  <<d, s>> \in bReady'
      BY <2>2 DEF PluggedSlots
    <3>1. <<d, s>> # ObjectOf(a)
      BY <1>4, <2>1, <2>2, SlotsAssumption, StaticAssumption DEF ObjectOf
    <3> QED
      BY <1>4, <2>1, <2>2, <3>1 DEF PlugInv, Plugging
  <2> QED
    BY <1>4, <2>1, <2>2, <2>3 DEF PlugInv, PluggedSlots, Claiming
<1>9. CASE FreeObjects(a)
  <2>1. /\ op'[a].pc = "unregister" /\ op'[a].drv = op[a].drv /\ op'[a].hpl = op[a].hpl
        /\ op[a].pc = "unload"
    BY <1>1, <1>9, Going DEF FreeObjects, Pcs, Gone
  <2>2. /\ UNCHANGED <<pci_devid, bHP, driver, mod>>
        /\ bReady' = {o \in bReady : o[1] # op[a].drv}
    BY <1>9 DEF FreeObjects
  <2>3. PluggedSlots(a)'
    <3> SUFFICES ASSUME NEW d \in Drivers, NEW s \in Slots, pci_devid[s] = d, bHP[s],
                        s > Static[d], driver[s] \in {NoDriver, d}
                 PROVE  <<d, s>> \in bReady' \/ (driver[s] = d /\ op[a].drv = d)
      BY <2>1, <2>2 DEF PluggedSlots
    <3>1. <<d, s>> \in bReady
      BY <1>4, <2>1 DEF PlugInv, Plugging
    <3>2. driver[s] = d
      BY <1>1, <3>1 DEF ReadyOwnsSlot
    <3> QED
      BY <2>2, <3>1, <3>2
  <2> QED
    BY <2>1, <2>2, <2>3 DEF PlugInv, PluggedSlots, Claiming
<1>10. CASE UnregisterDriver(a)
  <2>1. op'[a] = Idle
    BY <1>1, <1>10 DEF UnregisterDriver, TypeOK
  <2>2. /\ UNCHANGED <<pci_devid, bHP, bReady>> /\ op[a].pc = "unregister"
        /\ \A s \in Slots : driver'[s] = IF driver[s] = op[a].drv THEN Dangling ELSE driver[s]
    BY <1>10 DEF UnregisterDriver, Dangle
  <2>3. PluggedSlots(a)'
    <3> SUFFICES ASSUME NEW d \in Drivers, NEW s \in Slots, pci_devid[s] = d, bHP[s],
                        s > Static[d], driver'[s] \in {NoDriver, d}
                 PROVE  <<d, s>> \in bReady
      BY <2>2 DEF PluggedSlots
    <3>1. driver'[s] = driver[s] /\ driver[s] # op[a].drv
      BY <2>2, DriversAssumption DEF NoDriver, Dangling
    <3> QED
      BY <1>4, <2>2, <3>1 DEF PlugInv, Plugging
  <2> QED
    BY <2>1, <2>3 DEF PlugInv, PluggedSlots, Claiming, Idle
<1> QED
  BY <1>2, <1>3, <1>5, <1>6, <1>7, <1>8, <1>9, <1>10, <1>11 DEF ModuleStep

\* Plugging and unplugging keep PlugInv.
LEMMA HotplugStepPlug ==
  ASSUME NEW a \in Admins, LInv, PlugInv(a), HotplugStep(a)
  PROVE  PlugInv(a)'
<1> USE DEF busVars, objVars, drvVars, admVars, At
<1>1. TypeOK /\ ReadyOwnsSlot /\ fault = "none" /\ SetupInv(a)
  BY DEF LInv, HotplugStep, HotplugInUse, HotunplugRefused, Hotunplug, Hotplug, HotplugNoMemory,
         HotplugSetup, HotplugNoDriver, Probe, HotunplugRemove
<1>2. CASE \E s \in Slots : HotplugInUse(a, s) \/ HotunplugRefused(a, s)
  <2>1. op'[a] = Idle
    BY <1>1, <1>2, Returning DEF HotplugInUse, HotunplugRefused, Answers, Returned
  <2>2. UNCHANGED <<pci_devid, bHP, driver, bReady>> /\ op[a].pc = "idle"
    BY <1>2 DEF HotplugInUse, HotunplugRefused
  <2> QED
    BY <2>1, <2>2 DEF PlugInv, Plugging, Claiming, Idle
<1>3. CASE \E s \in Slots, id \in Drivers \cup {Unknown} : Hotplug(a, s, id)
  <2>1. PICK s \in Slots : /\ op[a].pc = "idle" /\ op'[a].pc = "plug" /\ op'[a].hpl
                           /\ op'[a].slot = s
                           /\ UNCHANGED <<pci_devid, bHP, driver, bReady>>
    BY <1>1, <1>3 DEF Hotplug, Start, TypeOK
  <2> QED
    BY <2>1 DEF PlugInv, Plugging, Claiming
<1>4. CASE \E s \in Slots : Hotunplug(a, s)
  <2>1. PICK s \in Slots : /\ op[a].pc = "idle" /\ op'[a].pc = "remove" /\ ~op'[a].hpl
                           /\ op'[a].slot = s
                           /\ UNCHANGED <<pci_devid, bHP, driver, bReady>>
    BY <1>1, <1>4 DEF Hotunplug, Start, TypeOK
  <2> QED
    BY <2>1 DEF PlugInv, Plugging, Claiming
<1>5. CASE HotplugNoMemory(a) \/ HotunplugRemove(a)
  <2>1. op'[a] = Idle
    BY <1>1, <1>5, Returning DEF HotplugNoMemory, HotunplugRemove, Answers, Returned
  <2>2. /\ UNCHANGED <<bHP, driver>> /\ op[a].pc \in {"plug", "remove"}
        /\ pci_devid' = [pci_devid EXCEPT ![op[a].slot] = NoDriver]
        /\ \A d \in Drivers, s \in Slots :
             <<d, s>> \in bReady /\ s # op[a].slot => <<d, s>> \in bReady'
    BY <1>5 DEF HotplugNoMemory, HotunplugRemove, RemoveDevice
  <2>3. PluggedSlots(a)'
    <3> SUFFICES ASSUME NEW d \in Drivers, NEW s \in Slots, pci_devid'[s] = d, bHP[s],
                        s > Static[d], driver[s] \in {NoDriver, d}
                 PROVE  <<d, s>> \in bReady'
      BY <2>2 DEF PluggedSlots
    <3>1. s # op[a].slot /\ pci_devid[s] = d
      BY <1>1, <2>2, DriversAssumption DEF TypeOK
    <3> QED
      BY <2>2, <3>1 DEF PlugInv, Plugging
  <2> QED
    BY <2>1, <2>3 DEF PlugInv, PluggedSlots, Claiming, Idle
<1>6. CASE HotplugSetup(a)
  <2>1. /\ op'[a].pc = "probe" /\ op'[a].slot = op[a].slot /\ op'[a].hpl = op[a].hpl
        /\ op[a].pc = "plug"
    BY <1>1, <1>6, Going DEF HotplugSetup, Pcs, Gone
  <2>2. op[a].hpl
    BY <1>1, <2>1 DEF SetupInv
  <2>3. /\ UNCHANGED <<bHP, bReady>>
        /\ \A s \in Slots : s # op[a].slot => pci_devid'[s] = pci_devid[s] /\ driver'[s] = driver[s]
    BY <1>1, <1>6 DEF HotplugSetup, SetupPciDevice, TypeOK
  <2> QED
    BY <2>1, <2>2, <2>3 DEF PlugInv, Plugging, Claiming
<1>7. CASE HotplugNoDriver(a)
  <2>1. op[a].pc = "probe" /\ op[a].slot \in Slots
    BY <1>1, <1>7 DEF HotplugNoDriver, SetupInv
  <2>2. Failed(a)
    BY <1>1, <1>7, <2>1, Failing DEF HotplugNoDriver
  <2> QED
    BY <1>1, <1>7, <2>1, <2>2, FailedPlug DEF HotplugNoDriver
<1>8. CASE Probe(a)
  <2>1. /\ op'[a].pc = "setup" /\ op'[a].slot = op[a].slot /\ op'[a].hpl = op[a].hpl
        /\ op[a].pc = "probe"
    BY <1>1, <1>8, Going DEF Probe, Pcs, Gone
  <2>2. op[a].hpl
    BY <1>1, <2>1 DEF SetupInv
  <2>3. UNCHANGED <<bHP, bReady, pci_devid, driver>>
    BY <1>8 DEF Probe
  <2> QED
    BY <2>1, <2>2, <2>3 DEF PlugInv, Plugging, Claiming
<1> QED
  BY <1>2, <1>3, <1>4, <1>5, <1>6, <1>7, <1>8 DEF HotplugStep

\* At first no slot is plugged.
LEMMA InitPlug ==
  ASSUME Init, NEW a \in Admins
  PROVE  PlugInv(a)
BY DriversAssumption DEF Init, PlugInv, Idle, Claiming, NoDriver

\* A hot plug that fails at any point gives its slot back, and one that succeeds
\* leaves a ready device there until it is unplugged or its driver unloaded
\* (madbus_hotplug, maddev_probe, maddev_setup_device).
THEOREM PluggedDevicesAreReady ==
  ASSUME NEW CONSTANT a, Admins = {a}
  PROVE  Spec => []PluggedIsReady
<1> DEFINE Inv == fault = "none" => PlugInv(a)
<1>1. Init => Inv
  BY InitPlug
<1>2. LInv /\ Inv /\ [Next]_vars => Inv'
  <2> SUFFICES ASSUME LInv, fault = "none" => PlugInv(a), [Next]_vars
               PROVE  fault' = "none" => PlugInv(a)'
    OBVIOUS
  <2>1. CASE UNCHANGED vars
    BY <2>1 DEF vars, busVars, objVars, drvVars, admVars, PlugInv, Plugging
  <2>2. CASE Next
    <3>1. fault = "none"
      BY <2>2 DEF Next, SetupStep, ModuleStep, HotplugStep, At, SetupBegin, GetDevice, ClaimFails,
         ClaimPciResrcs, RegisterFails, RegisterDevice, DmaMaskFails, DmaSetMask, CdevFails,
         SetupCdev, SetupReady, Insmod, InsmodFails, Rmmod, LoadNext, LoadEnds, LoadFails,
        UnloadNext,
         FreeObjects, UnregisterDriver, HotplugInUse, HotunplugRefused, Hotunplug, Hotplug,
         HotplugNoMemory, HotplugSetup, HotplugNoDriver, Probe, HotunplugRemove
    <3> QED
      BY <2>2, <3>1, SetupStepPlug, ModuleStepPlug, HotplugStepPlug DEF Next
  <2> QED
    BY <2>1, <2>2
<1>3. LInv /\ Inv => PluggedIsReady
  <2> SUFFICES ASSUME LInv, fault = "none", PlugInv(a), NEW d \in Drivers, NEW s \in Slots,
                      pci_devid[s] = d, driver[s] \in {NoDriver, d}, bHP[s], mod[d] = "live",
                      s > Static[d], op[a].pc = "idle" \/ op[a].slot # s
               PROVE  <<d, s>> \in bReady
    BY DEF PluggedIsReady
  <2> QED
    BY DEF PlugInv, Plugging
<1>4. Spec => []LInv
  BY LifecycleInvariance
<1> QED
  BY <1>1, <1>2, <1>3, <1>4, PTL DEF Spec
=============================================================================
