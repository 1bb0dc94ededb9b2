---------------------------- MODULE MadLifecycle ----------------------------
(***************************************************************************)
(* How devices come and go: the slots of the simulated PCI bus             *)
(* (simdrvrlib.h), the loading and unloading of the two device drivers and *)
(* the set-up and removal of their device objects (maddrvrdefs.c), and the *)
(* hot plug and unplug ioctls of the bus (madbusmain.c).                   *)
(*                                                                         *)
(* Every operation runs in the process of its user and takes no lock that  *)
(* another one takes, so with more than one administrator they interleave. *)
(*                                                                         *)
(* Three things the code may do have no defined outcome: to initialise a   *)
(* device structure that is registered with the kernel, to call a driver   *)
(* that is no longer loaded, and to use a null pointer when a load fails.  *)
(* They set "fault", and nothing happens after that.                       *)
(***************************************************************************)
EXTENDS Naturals

CONSTANTS
  Admins,   \* processes that load, unload, plug and unplug
  Drivers,  \* device drivers; a PCI device id is named after the one that claims it
  Slots,    \* bus slots 1..madbus_nbr_slots; the devices are numbered as they are
  Static,   \* number of devices each driver sets up at load (maddev_nbr_devs)
  MayFail   \* pairs <<driver, call>>: which calls of the kernel may fail

ASSUME SlotsAssumption == Slots \subseteq Nat /\ \E n \in Slots : Slots = 1 .. n
ASSUME StaticAssumption == Static \in [Drivers -> {0} \cup Slots]
Calls == {"module", "enable", "region", "config", "irq", "register", "dma", "cdev"}
ASSUME MayFailAssumption == MayFail \subseteq Drivers \X Calls

NoDriver == "none"        \* a zero device id or a null pointer
Unknown  == "unknown"     \* a device id no driver claims
Dangling == "dangling"    \* a pointer into a driver that was unloaded
ASSUME DriversAssumption == Drivers \cap {NoDriver, Unknown, Dangling} = {}

VARIABLES
  mem,       \* slots 1..mem have memory for their registers
  pci_devid, \* the device id in each slot, NoDriver if the slot is free
  driver,    \* the driver pointer in the pci_dev of each slot
  bHP,       \* the device in the slot was hot plugged
  isr,       \* the driver whose ISR the device thread of the slot calls
  sysfs,     \* under which driver's name the pci_dev is registered
  mod,       \* state of each driver's module
  PciDrvrs,  \* drivers the bus knows
  bReady,    \* the device objects <<driver, number>> that are ready,
  bDevRegstrd, \* that say they are registered,
  res,       \* the PCI resources <<driver, number, kind>> they hold
  op,        \* what each administrator is doing
  answer,    \* what the operation of each has returned, or is to return; "none" before
  fault      \* the undefined thing that has happened

busVars  == <<mem, pci_devid, driver, bHP, isr, sysfs>>
objVars  == <<bReady, bDevRegstrd, res>>
drvVars  == <<mod, PciDrvrs, objVars>>
admVars  == <<op, answer>>
vars == <<busVars, drvVars, admVars, fault>>

Idle == [pc |-> "idle", drv |-> NoDriver, slot |-> 1, hpl |-> FALSE, devcount |-> 0]
Pcs == {"idle", "load", "plug", "probe", "setup", "get", "claim", "register", "dma", "cdev",
        "node", "remove", "unload", "unregister"}

Init ==
  /\ mem \in Slots
  /\ pci_devid = [s \in Slots |-> NoDriver]
  /\ driver = [s \in Slots |-> NoDriver]
  /\ bHP = [s \in Slots |-> FALSE]
  /\ isr = [s \in Slots |-> NoDriver]
  /\ sysfs = [s \in Slots |-> NoDriver]
  /\ mod = [d \in Drivers |-> "out"]
  /\ PciDrvrs = {}
  /\ bReady = {} /\ bDevRegstrd = {} /\ res = {}
  /\ op = [a \in Admins |-> Idle]
  /\ answer = [a \in Admins |-> "none"]
  /\ fault = "none"

At(a, pc) == fault = "none" /\ op[a].pc = pc
Fails(a, call) == <<op[a].drv, call>> \in MayFail
Goto(a, pc) == op' = [op EXCEPT ![a].pc = pc] /\ UNCHANGED answer
Start(a, pc, drv, slot, hpl, result) ==
  /\ op' = [op EXCEPT ![a] = [pc |-> pc, drv |-> drv, slot |-> slot, hpl |-> hpl, devcount |-> 0]]
  /\ answer' = [answer EXCEPT ![a] = result]
Returns(a, result) ==
  /\ op' = [op EXCEPT ![a] = Idle]
  /\ answer' = [answer EXCEPT ![a] = result]

\* The device object an administrator is setting up or removing.
ObjectOf(a) == <<op[a].drv, op[a].slot>>

\* What a device object holds of its pci_dev: the device is enabled, region 0 is
\* requested and mapped, and interrupts are requested.
Resources == {"enable", "region", "map", "irq"}
ResOf(d, s) == {<<d, s, r>> : r \in Resources}

\* maddev_release_pci_resrcs gives back everything, whatever was claimed when.
Release(d, s) == res' = res \ ResOf(d, s)

\* madbus_setup_pci_device clears the whole pci_dev, its driver pointer
\* included, whatever the slot is used for.
SetupPciDevice(s, id) ==
  /\ pci_devid' = [pci_devid EXCEPT ![s] = id]
  /\ driver' = [driver EXCEPT ![s] = NoDriver]
  /\ fault' = IF sysfs[s] # NoDriver THEN "reinit" ELSE fault

-----------------------------------------------------------------------------
(***************************************************************************)
(* The end of maddev_setup_device, in its two callers.                     *)
(***************************************************************************)
\* Mutant of SetupFails: the slot stays in use after a plug that failed.
SetupFailsKeepsSlot(a) ==
  IF op[a].hpl
  THEN /\ Returns(a, "error")
       /\ UNCHANGED pci_devid
  ELSE /\ op' = [op EXCEPT ![a].pc = "load", ![a].slot = @ + 1]
       /\ UNCHANGED <<pci_devid, answer>>

\* madbus_hotplug frees the slot; maddev_setup_devices goes on to the next.
SetupFails(a) ==
  IF op[a].hpl
  THEN /\ pci_devid' = [pci_devid EXCEPT ![op[a].slot] = NoDriver]
       /\ Returns(a, "error")
  ELSE /\ op' = [op EXCEPT ![a].pc = "load", ![a].slot = @ + 1]
       /\ UNCHANGED <<pci_devid, answer>>

SetupSucceeds(a) ==
  IF op[a].hpl
  THEN /\ bHP' = [bHP EXCEPT ![op[a].slot] = TRUE]
       /\ Returns(a, "ok")
  ELSE /\ op' = [op EXCEPT ![a].pc = "load", ![a].slot = @ + 1, ![a].devcount = @ + 1]
       /\ UNCHANGED <<bHP, answer>>

-----------------------------------------------------------------------------
(***************************************************************************)
(* maddev_setup_device.                                                    *)
(***************************************************************************)
\* maddev_exchange_sim_parms fails for a slot without memory.
SetupBegin(a) ==
  /\ At(a, "setup")
  /\ bReady' = bReady \ {ObjectOf(a)}
  /\ IF op[a].slot > mem THEN SetupFails(a)
     ELSE Goto(a, IF op[a].hpl THEN "claim" ELSE "get") /\ UNCHANGED pci_devid
  /\ UNCHANGED <<mem, driver, bHP, isr, sysfs, mod, PciDrvrs, bDevRegstrd, res, fault>>

\* pcisim_get_device: the slot after that of the device before, used or not.
GetDevice(a) ==
  /\ At(a, "get")
  /\ SetupPciDevice(op[a].slot, op[a].drv)
  /\ Goto(a, "claim")
  /\ UNCHANGED <<mem, bHP, isr, sysfs, drvVars>>

\* What the error returns of maddev_claim_pci_resrcs leave: nothing if the device
\* cannot be enabled; the device enabled, which no other error return undoes (the
\* region, the mapping or the vectors are refused); the region too, if config
\* space cannot be read once it is mapped; the interrupts before one that is
\* refused.
LeftByClaim ==
  [enable |-> {}, region |-> {"enable"}, config |-> {"enable", "region"}, irq |-> {"enable", "irq"}]

\* A slot that was freed in the meantime has no region to request.
ClaimFails(a) ==
  /\ At(a, "claim")
  /\ \E call \in DOMAIN LeftByClaim :
       /\ Fails(a, call) \/ (call = "region" /\ pci_devid[op[a].slot] = NoDriver)
       /\ res' = res \cup {<<op[a].drv, op[a].slot, r>> : r \in LeftByClaim[call]}
       /\ isr' = IF call = "irq" THEN [isr EXCEPT ![op[a].slot] = op[a].drv] ELSE isr
  /\ SetupFails(a)
  /\ UNCHANGED <<mem, driver, bHP, sysfs, mod, PciDrvrs, bReady, bDevRegstrd, fault>>

ClaimPciResrcs(a) ==
  /\ At(a, "claim")
  /\ pci_devid[op[a].slot] # NoDriver
  /\ isr' = [isr EXCEPT ![op[a].slot] = op[a].drv]
  /\ res' = res \cup ResOf(op[a].drv, op[a].slot)
  /\ Goto(a, "register")
  /\ UNCHANGED <<mem, pci_devid, driver, bHP, sysfs, mod, PciDrvrs, bReady, bDevRegstrd, fault>>

\* Mutant of RegisterFails: the resources are not released.
RegisterFailsKeepsResrcs(a) ==
  /\ At(a, "register")
  /\ Fails(a, "register")
  /\ driver' = [driver EXCEPT ![op[a].slot] = op[a].drv]
  /\ bDevRegstrd' = bDevRegstrd \ {ObjectOf(a)}
  /\ SetupFails(a)
  /\ UNCHANGED <<mem, bHP, isr, sysfs, mod, PciDrvrs, bReady, res, fault>>

RegisterFails(a) ==
  /\ At(a, "register")
  /\ Fails(a, "register")
  /\ driver' = [driver EXCEPT ![op[a].slot] = op[a].drv]
  /\ bDevRegstrd' = bDevRegstrd \ {ObjectOf(a)}
  /\ Release(op[a].drv, op[a].slot)
  /\ SetupFails(a)
  /\ UNCHANGED <<mem, bHP, isr, sysfs, mod, PciDrvrs, bReady, fault>>

\* sim_init_sysfs_device and device_add.
RegisterDevice(a) ==
  /\ At(a, "register")
  /\ driver' = [driver EXCEPT ![op[a].slot] = op[a].drv]
  /\ sysfs' = [sysfs EXCEPT ![op[a].slot] = op[a].drv]
  /\ fault' = IF sysfs[op[a].slot] # NoDriver THEN "reinit" ELSE fault
  /\ bDevRegstrd' = bDevRegstrd \cup {ObjectOf(a)}
  /\ Goto(a, "dma")
  /\ UNCHANGED <<mem, pci_devid, bHP, isr, mod, PciDrvrs, bReady, res>>

\* The device is unregistered, and its object still says that it is registered.
DmaMaskFails(a) ==
  /\ At(a, "dma")
  /\ Fails(a, "dma")
  /\ sysfs' = [sysfs EXCEPT ![op[a].slot] = NoDriver]
  /\ Release(op[a].drv, op[a].slot)
  /\ SetupFails(a)
  /\ UNCHANGED <<mem, driver, bHP, isr, mod, PciDrvrs, bReady, bDevRegstrd, fault>>

DmaSetMask(a) ==
  /\ At(a, "dma")
  /\ Goto(a, "cdev")
  /\ UNCHANGED <<busVars, drvVars, fault>>

\* The character or block device cannot be created: the resources are
\* released, and the device stays registered.
CdevFails(a) ==
  /\ At(a, "cdev")
  /\ Fails(a, "cdev")
  /\ Release(op[a].drv, op[a].slot)
  /\ SetupFails(a)
  /\ UNCHANGED <<mem, driver, bHP, isr, sysfs, mod, PciDrvrs, bReady, bDevRegstrd, fault>>

SetupCdev(a) ==
  /\ At(a, "cdev")
  /\ Goto(a, "node")
  /\ UNCHANGED <<busVars, drvVars, fault>>

\* device_create may fail; maddev_init_io_parms; the device is ready.
SetupReady(a) ==
  /\ At(a, "node")
  /\ bReady' = bReady \cup {ObjectOf(a)}
  /\ SetupSucceeds(a)
  /\ UNCHANGED <<mem, pci_devid, driver, isr, sysfs, mod, PciDrvrs, bDevRegstrd, res, fault>>

-----------------------------------------------------------------------------
(***************************************************************************)
(* maddev_remove_device.  The ISR pointer and the driver pointer of the    *)
(* slot stay, as does its device id.                                       *)
(***************************************************************************)
\* Mutant of RemoveDevice: the device stays ready.
RemoveDeviceKeepsReady(d, s) ==
  /\ UNCHANGED bReady
  /\ bDevRegstrd' = bDevRegstrd \ {<<d, s>>}
  /\ Release(d, s)
  /\ sysfs' = IF <<d, s>> \in bDevRegstrd THEN [sysfs EXCEPT ![s] = NoDriver] ELSE sysfs
  /\ fault' = IF <<d, s>> \in bDevRegstrd /\ sysfs[s] # d THEN "unregister" ELSE fault

RemoveDevice(d, s) ==
  /\ bReady' = bReady \ {<<d, s>>}
  /\ bDevRegstrd' = bDevRegstrd \ {<<d, s>>}
  /\ Release(d, s)
  /\ sysfs' = IF <<d, s>> \in bDevRegstrd THEN [sysfs EXCEPT ![s] = NoDriver] ELSE sysfs
  /\ fault' = IF <<d, s>> \in bDevRegstrd /\ sysfs[s] # d THEN "unregister" ELSE fault

-----------------------------------------------------------------------------
(***************************************************************************)
(* maddevc_init_module, maddevb_init_module, maddev_cleanup_module.        *)
(***************************************************************************)
Insmod(a, d) ==
  /\ At(a, "idle")
  /\ mod[d] = "out"
  /\ mod' = [mod EXCEPT ![d] = "init"]
  /\ PciDrvrs' = PciDrvrs \cup {d}
  /\ Start(a, "load", d, 1, FALSE, "none")
  /\ UNCHANGED <<busVars, objVars, fault>>

\* The region of device numbers, the memory for the objects or the registration
\* with the bus fails: the module cleans up after itself and the load fails.  The
\* clean-up looks at driver.p, which is the driver's own static structure until
\* driver_register has put its own there, and null when that then failed.
InsmodFails(a, d) ==
  /\ At(a, "idle")
  /\ mod[d] = "out"
  /\ <<d, "module">> \in MayFail
  /\ \/ Returns(a, "error") /\ UNCHANGED fault
     \/ fault' = "oops" /\ UNCHANGED admVars
  /\ UNCHANGED <<busVars, drvVars>>

\* maddev_setup_devices: a device that fails does not stop the others.
LoadNext(a) ==
  /\ At(a, "load")
  /\ op[a].slot <= Static[op[a].drv]
  /\ Goto(a, "setup")
  /\ UNCHANGED <<busVars, drvVars, fault>>

\* No static device, or at least one that is ready.
LoadEnds(a) ==
  /\ At(a, "load")
  /\ op[a].slot > Static[op[a].drv]
  /\ Static[op[a].drv] = 0 \/ op[a].devcount > 0
  /\ mod' = [mod EXCEPT ![op[a].drv] = "live"]
  /\ Returns(a, "ok")
  /\ UNCHANGED <<busVars, PciDrvrs, objVars, fault>>

\* -ENODEV: the module cleans up after itself.
LoadFails(a) ==
  /\ At(a, "load")
  /\ op[a].slot > Static[op[a].drv]
  /\ Static[op[a].drv] > 0 /\ op[a].devcount = 0
  /\ mod' = [mod EXCEPT ![op[a].drv] = "exit"]
  /\ Start(a, "unload", op[a].drv, 1, FALSE, "error")
  /\ UNCHANGED <<busVars, PciDrvrs, objVars, fault>>

Rmmod(a, d) ==
  /\ At(a, "idle")
  /\ mod[d] = "live"
  /\ mod' = [mod EXCEPT ![d] = "exit"]
  /\ Start(a, "unload", d, 1, FALSE, "ok")
  /\ UNCHANGED <<busVars, PciDrvrs, objVars, fault>>

\* maddev_remove_devices: the static numbers only, and of these the devices
\* that are ready.
UnloadNext(a) ==
  /\ At(a, "unload")
  /\ op[a].slot <= Static[op[a].drv]
  /\ IF ObjectOf(a) \in bReady THEN RemoveDevice(op[a].drv, op[a].slot)
     ELSE UNCHANGED <<objVars, sysfs, fault>>
  /\ op' = [op EXCEPT ![a].slot = @ + 1]
  /\ UNCHANGED <<mem, pci_devid, driver, bHP, isr, mod, PciDrvrs, answer>>

\* kfree(mad_dev_objects), while the bus still knows the driver.  What the objects
\* hold is not released.
FreeObjects(a) ==
  /\ At(a, "unload")
  /\ op[a].slot > Static[op[a].drv]
  /\ bReady' = {o \in bReady : o[1] # op[a].drv}
  /\ bDevRegstrd' = {o \in bDevRegstrd : o[1] # op[a].drv}
  /\ Goto(a, "unregister")
  /\ UNCHANGED <<busVars, mod, PciDrvrs, res, fault>>

Dangle(p, d) == [s \in Slots |-> IF p[s] = d THEN Dangling ELSE p[s]]

\* Mutant of UnregisterDriver: the bus keeps its entry.
UnregisterDriverKeepsEntry(a) ==
  /\ At(a, "unregister")
  /\ mod' = [mod EXCEPT ![op[a].drv] = "out"]
  /\ driver' = Dangle(driver, op[a].drv)
  /\ isr' = Dangle(isr, op[a].drv)
  /\ sysfs' = Dangle(sysfs, op[a].drv)
  /\ op' = [op EXCEPT ![a] = Idle]
  /\ UNCHANGED <<mem, pci_devid, bHP, PciDrvrs, objVars, answer, fault>>

UnregisterDriver(a) ==
  /\ At(a, "unregister")
  /\ PciDrvrs' = PciDrvrs \ {op[a].drv}
  /\ mod' = [mod EXCEPT ![op[a].drv] = "out"]
  /\ driver' = Dangle(driver, op[a].drv)
  /\ isr' = Dangle(isr, op[a].drv)
  /\ sysfs' = Dangle(sysfs, op[a].drv)
  /\ op' = [op EXCEPT ![a] = Idle]
  /\ UNCHANGED <<mem, pci_devid, bHP, objVars, answer, fault>>

-----------------------------------------------------------------------------
(***************************************************************************)
(* madbus_hotplug and madbus_hotunplug.                                    *)
(***************************************************************************)
HotplugInUse(a, s) ==
  /\ At(a, "idle")
  /\ pci_devid[s] # NoDriver
  /\ Returns(a, "error")
  /\ UNCHANGED <<busVars, drvVars, fault>>

Hotplug(a, s, id) ==
  /\ At(a, "idle")
  /\ pci_devid[s] = NoDriver
  /\ Start(a, "plug", id, s, TRUE, "none")
  /\ UNCHANGED <<busVars, drvVars, fault>>

\* Without memory the config space is not built: -EFAULT, the slot is free.
HotplugNoMemory(a) ==
  /\ At(a, "plug")
  /\ op[a].slot > mem
  /\ pci_devid' = [pci_devid EXCEPT ![op[a].slot] = NoDriver]
  /\ Returns(a, "error")
  /\ UNCHANGED <<mem, driver, bHP, isr, sysfs, drvVars, fault>>

HotplugSetup(a) ==
  /\ At(a, "plug")
  /\ op[a].slot <= mem
  /\ SetupPciDevice(op[a].slot, op[a].drv)
  /\ Goto(a, "probe")
  /\ UNCHANGED <<mem, bHP, isr, sysfs, drvVars>>

\* No driver's probe matches: -EUNATCH.
HotplugNoDriver(a) ==
  /\ At(a, "probe")
  /\ op[a].drv \notin PciDrvrs
  /\ SetupFails(a)
  /\ UNCHANGED <<mem, driver, bHP, isr, sysfs, drvVars, fault>>

\* maddev_probe of the driver that claims the id.
Probe(a) ==
  /\ At(a, "probe")
  /\ op[a].drv \in PciDrvrs
  /\ Goto(a, "setup")
  /\ UNCHANGED <<busVars, drvVars, fault>>

\* -ENODEV, -EOPNOTSUPP, -EUNATCH.
HotunplugRefused(a, s) ==
  /\ At(a, "idle")
  /\ pci_devid[s] = NoDriver \/ ~bHP[s] \/ driver[s] = NoDriver
  /\ Returns(a, "error")
  /\ UNCHANGED <<busVars, drvVars, fault>>

\* The remove function is called through the pointer in the pci_dev.
Hotunplug(a, s) ==
  /\ At(a, "idle")
  /\ pci_devid[s] # NoDriver /\ bHP[s] /\ driver[s] # NoDriver
  /\ fault' = IF driver[s] = Dangling THEN "gone" ELSE fault
  /\ Start(a, "remove", driver[s], s, FALSE, "none")
  /\ UNCHANGED <<busVars, drvVars>>

HotunplugRemove(a) ==
  /\ At(a, "remove")
  /\ RemoveDevice(op[a].drv, op[a].slot)
  /\ pci_devid' = [pci_devid EXCEPT ![op[a].slot] = NoDriver]
  /\ Returns(a, "ok")
  /\ UNCHANGED <<mem, driver, bHP, isr, mod, PciDrvrs>>

-----------------------------------------------------------------------------
SetupStep(a) ==
  \/ SetupBegin(a) \/ GetDevice(a) \/ ClaimFails(a) \/ ClaimPciResrcs(a)
  \/ RegisterFails(a) \/ RegisterDevice(a) \/ DmaMaskFails(a) \/ DmaSetMask(a)
  \/ CdevFails(a) \/ SetupCdev(a) \/ SetupReady(a)

ModuleStep(a) ==
  \/ \E d \in Drivers : Insmod(a, d) \/ InsmodFails(a, d) \/ Rmmod(a, d)
  \/ LoadNext(a) \/ LoadEnds(a) \/ LoadFails(a)
  \/ UnloadNext(a) \/ FreeObjects(a) \/ UnregisterDriver(a)

HotplugStep(a) ==
  \/ \E s \in Slots :
       \/ HotplugInUse(a, s) \/ HotunplugRefused(a, s) \/ Hotunplug(a, s)
       \/ \E id \in Drivers \cup {Unknown} : Hotplug(a, s, id)
  \/ HotplugNoMemory(a) \/ HotplugSetup(a) \/ HotplugNoDriver(a) \/ Probe(a) \/ HotunplugRemove(a)

Next == \E a \in Admins : SetupStep(a) \/ ModuleStep(a) \/ HotplugStep(a)

Spec == Init /\ [][Next]_vars

-----------------------------------------------------------------------------
Pointer == Drivers \cup {NoDriver, Dangling}

Operation == [pc : Pcs, drv : Pointer \cup {Unknown}, slot : Nat \ {0}, hpl : BOOLEAN, devcount : Nat]

TypeOK ==
  /\ mem \in Slots
  /\ pci_devid \in [Slots -> Drivers \cup {NoDriver, Unknown}]
  /\ driver \in [Slots -> Pointer]
  /\ bHP \in [Slots -> BOOLEAN]
  /\ isr \in [Slots -> Pointer]
  /\ sysfs \in [Slots -> Pointer]
  /\ mod \in [Drivers -> {"out", "init", "live", "exit"}]
  /\ PciDrvrs \subseteq Drivers
  /\ bReady \subseteq Drivers \X Slots
  /\ bDevRegstrd \subseteq Drivers \X Slots
  /\ res \subseteq Drivers \X Slots \X Resources
  /\ op \in [Admins -> Operation]
  /\ answer \in [Admins -> {"none", "ok", "error"}]
  /\ fault \in {"none", "reinit", "unregister", "gone", "oops"}

\* A device that is ready owns its slot: the id, the driver pointer, the
\* registration and the interrupt are those of its driver, which is loaded, its
\* object holds its resources, and nobody else's device is ready there.  (The two
\* drivers number their devices alike, and each keeps its own objects.)
ReadyOwnsSlot ==
  fault = "none" =>
    \A d \in Drivers, s \in Slots :
      <<d, s>> \in bReady =>
        /\ pci_devid[s] = d /\ driver[s] = d /\ sysfs[s] = d /\ isr[s] = d
        /\ ResOf(d, s) \subseteq res /\ mod[d] # "out"

\* An object holds its resources for a device that is ready or being set up;
\* otherwise nobody is left to give them back (unless the same object is set up
\* once more).
Claiming == {"claim", "register", "dma", "cdev", "node"}
Holding == Claiming \ {"claim"}
Owned(d, s) == <<d, s>> \in bReady \/ \E a \in Admins : op[a].pc \in Holding /\ ObjectOf(a) = <<d, s>>
Leaked(d, s, r) == <<d, s, r>> \in res /\ ~Owned(d, s)

\* What is leaked in a step is leaked by a claim that fails, which unmaps the
\* registers and keeps the rest, or by freeing the objects of a driver, and then
\* it is what a device held that was plugged beyond the static ones.
LeaksByClaimOrUnload ==
  \A d \in Drivers, s \in Slots, r \in Resources :
    Leaked(d, s, r)' /\ ~Leaked(d, s, r) =>
      \E a \in Admins :
        /\ op[a].drv = d
        /\ \/ op[a].pc = "claim" /\ op[a].slot = s /\ r # "map"
           \/ op[a].pc = "unload" /\ op[a].slot > Static[d] /\ s > Static[d] /\ <<d, s>> \in bReady

\* Two places of the code lose PCI resources: the error returns of
\* maddev_claim_pci_resrcs, and maddev_cleanup_module, which removes the static
\* devices only.  No other does: not the error returns of maddev_setup_device after
\* the claim, no unplug, and no unload of a static device.
NoOtherLeak == [][LeaksByClaimOrUnload]_vars

\* A slot that was hot plugged and that no operation is about is free again or
\* holds a ready device of its driver: a plug that fails at any point gives the
\* slot back.  (Not after its driver was unloaded: maddev_remove_devices knows
\* the static devices only.)
PluggedIsReady ==
  fault = "none" =>
    \A d \in Drivers, s \in Slots :
      /\ pci_devid[s] = d /\ driver[s] \in {NoDriver, d} /\ bHP[s]
      /\ mod[d] = "live" /\ s > Static[d]
      /\ \A a \in Admins : op[a].pc = "idle" \/ op[a].slot # s
      => <<d, s>> \in bReady

\* The devices that cease to be ready in a step are those of the removal or the
\* unload that is under way.
LeavesByRemoval ==
  \A d \in Drivers, s \in Slots :
    <<d, s>> \in bReady /\ <<d, s>> \notin bReady' =>
      \E a \in Admins :
        op[a].drv = d /\ (op[a].pc = "unload" \/ (op[a].pc = "remove" /\ op[a].slot = s))

\* A ready device stays ready until it is unplugged or its driver unloaded: no
\* plug, no load and no failing set-up (maddev_setup_device begins with bReady =
\* false) takes a device object that is in use.
ReadyUntilRemoved == [][LeavesByRemoval]_vars

-----------------------------------------------------------------------------
(***************************************************************************)
(* With one administrator ReadyOwnsSlot is an invariant: while a device is *)
(* set up, what was done so far belongs to its driver, and nobody is ready *)
(* in its slot.  The load finds no device of its driver ready, and the     *)
(* unload leaves none of those it has passed.                              *)
(***************************************************************************)
NobodyReady(s) == \A d \in Drivers : <<d, s>> \notin bReady

SetupInv(a) ==
  LET o == op[a]
      In(pcs) == o.pc \in pcs
  IN  /\ In({"load", "unload", "unregister"}) => o.drv \in Drivers /\ ~o.hpl
      /\ In({"setup", "get", "remove"} \cup Claiming) => o.drv \in Drivers /\ o.slot \in Slots
      /\ In({"plug", "probe"}) => o.hpl /\ o.drv \in Drivers \cup {Unknown} /\ o.slot \in Slots
      /\ In({"get"}) => ~o.hpl
      /\ In({"load", "setup", "get"} \cup Claiming) =>
           mod[o.drv] # "out" /\ (o.hpl \/ mod[o.drv] = "init")
      /\ In({"plug"}) => pci_devid[o.slot] = NoDriver
      /\ In({"probe"} \cup Claiming) \/ (In({"setup"}) /\ o.hpl) =>
           pci_devid[o.slot] = o.drv /\ NobodyReady(o.slot)
      /\ In(Holding) => isr[o.slot] = o.drv /\ ResOf(o.drv, o.slot) \subseteq res
      /\ In({"dma", "cdev", "node"}) => driver[o.slot] = o.drv /\ sysfs[o.slot] = o.drv
      /\ In({"remove"}) => driver[o.slot] = o.drv
      /\ In({"unregister"}) => \A s \in Slots : <<o.drv, s>> \notin bReady

\* The objects of its driver that a load has yet to set up, and those an unload
\* has removed, are not ready.
ModuleInv(a) ==
  LET o == op[a]
  IN  /\ o.pc \in {"load", "setup", "get"} \cup Claiming /\ ~o.hpl =>
           \A s \in Slots : s >= o.slot => <<o.drv, s>> \notin bReady
      /\ o.pc = "unload" =>
           \A s \in Slots : s < o.slot /\ s <= Static[o.drv] => <<o.drv, s>> \notin bReady

LInv ==
  /\ TypeOK
  /\ ReadyOwnsSlot
  /\ fault = "none" => \A a \in Admins : SetupInv(a) /\ ModuleInv(a)
  /\ PciDrvrs = {d \in Drivers : mod[d] # "out"}

\* With one administrator PluggedIsReady is an invariant: the slots a load comes
\* to are those of its static devices, and a slot whose plug is over, and whose
\* driver pointer was not left behind by an unload, has a ready device until its
\* driver is on its way out.
Plugging(a, s) == op[a].slot = s /\ (op[a].hpl \/ op[a].pc = "remove")

PlugInv(a) ==
  LET o == op[a]
  IN  /\ o.pc \in {"setup", "get"} \cup Claiming /\ ~o.hpl => o.slot <= Static[o.drv]
      /\ o.pc \in {"unload", "unregister"} => mod[o.drv] = "exit"
      /\ o.pc = "idle" => ~o.hpl
      /\ \A d \in Drivers, s \in Slots :
           /\ pci_devid[s] = d /\ bHP[s] /\ s > Static[d]
           /\ driver[s] \in {NoDriver, d} /\ ~Plugging(a, s)
           => <<d, s>> \in bReady \/ (driver[s] = d /\ o.pc = "unregister" /\ o.drv = d)
=============================================================================
