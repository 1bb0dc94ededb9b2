# Madsim: TLA+ models, checks and proofs

Madsim simulates, in software, a memory-mapped PCI device that interrupts, so
that a device driver can be developed without the hardware. The repository holds
the simulator, the drivers for the device, test programs, and the same system
for Windows and for an FPGA. This directory models

* the newest Linux version,
  `madsim_embedded/meta-custom-mods/meta-madsimko/recipes-kernel/files` (called
  `K/` below): the character driver, the block driver, the device thread, the
  bus ioctls, and the coming and going of devices and drivers; and
* the read and write requests of the Windows version, `MadsimVs2019` (called
  `W/`): driver, interrupt thread and simulator window.

## 1. Inventory

### The components

| Component | Files | State it keeps | Operations |
|---|---|---|---|
| Character-mode driver `maddevc` | `K/maddevcmain.c`, `maddevcio.c`, `maddevc.h`, `maddrvrdefs.[ch]` | per device: `devmutex`, `devlock`, the queue states `read_f`, `write_f`, `ioctl_f`, the register copy `IntRegState`, the tasklet | `open`, `release`, `read`, `write`, `read_iter`, `write_iter`, `ioctl`, `mmap`, `llseek`; ISR; DPC |
| Block-mode driver `maddevb` | `K/maddevbmain.c`, `maddevbio.c`, `maddevb_blk_utils.c`, `maddevb.h`, `maddevb_zoned.c` | the flag `batomic`, the one tag of its hardware queue, `ioctl_f`, the element chain in the device, the gendisk | `queue_rq` with its work item, `rw_page`, raw read and write, ioctl, ISR, DPC |
| Device thread (one kernel thread per simulated device) | `K/mbdevthread.c` | `dev_iotag`; the device memory and the register file it shares with the drivers | poll, decode, carry out buffered, cache, alignment and DMA i/o, call the ISR |
| Bus driver `madbus` | `K/madbusmain.c`, `madbus.h` | the register file, shared buffers, the slots | ioctls `RESET`, `EXPIRE`, `SET_MSI`, `SET_STATUS`, `SET_INTID`, hot plug and unplug, `mmap` of the registers |
| Simulated PCI core | `K/simdrvrlib.h` | slots, `pci_dev`s and their driver pointers, registered drivers, `isrfn[]` | register and unregister a driver, claim a slot, request and free an interrupt, plug and unplug |
| Shared driver code | `K/maddrvrdefs.[ch]` | the device objects: ready, registered, resources | program an i/o, build a chain, reset the registers, wait, translate a status, set up and remove devices, claim PCI resources |
| Windows driver | `W/MadDevice/MadDevIoFunxns.cpp`, `MadDevice.cpp`, `W/inc/MadDevice.h`, `W/MadUtilFunxns.cpp` | table of pending requests, DMA transaction, chain, work item and its context, the registers | read and write by buffer, DMA or chained DMA; ISR; DPC; work items |
| Windows bus driver's interrupt thread | `W/Madbus/MadBusPdoIntThread.cpp` | registers it has read | move the data, call the driver's ISR |
| Windows simulator window | `W/MadDevSimUsrInt/` | run mode, extraneous interrupts | poll, answer an i/o, inject an error or an interrupt, change mode |
| User programs | `madsimui.cpp`, `madtest.cpp`, `W/MadTestApp` | none that lasts | menus over the ioctls and system calls |

Other parts of the repository: `madsim_v11` (an earlier version of the same
sources), the rest of `MadsimVs2019`, `Mad_Hardware_Device` (the device in
Verilog), `krash_*` (kernel crash demonstrations), `Python_baseball` (statistics
scripts), `Binaries`.

### How they interact

**Character driver.** A caller takes `devmutex`, marks its queue `eIoPending`,
programs the registers under `devlock` and sleeps on its queue. The device thread
polls the registers **without any lock**: it sees interrupts enabled, a go bit and
no interrupt id, compares the tag register with its own tag, moves the data
between the device and a shared host buffer, stores count and interrupt id in
the registers and **calls** the driver's ISR. The ISR takes `devlock`, copies the
registers to `IntRegState`, masks the interrupts and schedules the DPC. The DPC
resets the registers (tag plus one) and sets the queue state, which wakes the
caller. The caller reads `IntRegState` without a lock, frees the queue, copies
the data and releases the mutex. The bus driver's ioctls write the same
registers at any moment and take no lock.

**Block driver.** Same device, another way in. Three paths compete for one atomic
flag that nobody waits for: blk-mq's requests (issued by a work item), page i/o in
its caller's thread, raw calls. The winner builds a chain of elements in the device,
programs the registers and sleeps on `ioctl_q`; the device thread walks the chain.
A request is ended, and so its tag given to the next, before the flag is cleared.

**Life cycle.** Loading a driver registers it with the simulated bus and sets up
its static devices; a hot plug fills a slot and lets the bus find the driver, which
sets the device up. A set-up claims resources, registers the `pci_dev`, sets the
DMA mask, creates the character or block device and its node, and may fail at each
step. An unplug or an unload takes it all back.

**Windows.** The queue hands out one request at a time. Its handler records it in a
table, programs the device and returns. The window sees the go bit, sets a cause in
`IntID` and posts a message; the interrupt thread of the bus driver moves the data
and calls the ISR, whose DPC finds the request in the table by the kind of i/o and
queues the work item, which completes the request and **then** clears the entry.

### What is hard, and what makes it correct

* Callers, device thread, ISR and DPC share the registers; only some of them lock.
  Correct: nobody changes the registers, or the chain, under the device
  (`DeviceUndisturbed`), and everything under way belongs to one caller that
  waits for it (`WorkHasWaiter`).
* The result reaches the caller through a copy shared by all callers. Correct:
  it is the caller's own (`AnswerIsOwn`, `OwnDataOnly`).
* Two tags in two threads must stay equal (`TagsInStep`).
* Seven return paths of the character driver release different things
  (`MutexFollowsCall`, `BusyHasCaller`, `QueuesFreeWhenIdle`).
* The wait has no timeout: a lost wake-up hangs a caller and all behind it
  (`WaitEnds`, `CallReturns`, `IssuedEnds`).
* The registers can be changed from outside at any moment (`AnswerNotStolen`).
* The busy flag of the block driver is taken on three paths and given back on eight
  (`FlagIsExclusive`, `FlagReturns`); a request that fails is ended by the driver
  on some paths and returned to blk-mq on others (`TagFollowsRequest`).
* The chain is rebuilt for each i/o in the memory the device reads
  (`ChainIsOwn`, `EndSizeMatches`).
* A device is known by five records that three files keep: slot, driver pointer,
  registration, interrupt, device object (`ReadyOwnsSlot`). A set-up can stop half
  way (`NoOtherLeak`, `PluggedIsReady`), and must not take what is in use
  (`ReadyUntilRemoved`).
* Windows: the tail of the DPC and of the work item overlap with the next request
  (`TransferIsOwn`, `TransferOnce`, `SuccessMeansTransferred`, `CompletedOnce`,
  `RequestDetermined`).

`PROJECT.json` lists each hazard with its line, and says which ones no property
covers and why.

## 2. The modules

| Module | What it is |
|---|---|
| `MadRegisters` | the register file, and the pure functions on it: what the device thread decodes, what the driver programs and resets, the translation of a status into an error code |
| `MadCharIo` | one device, its callers, device thread, ISR and DPC: the whole buffered i/o path |
| `MadCharCtl` | `MadCharIo` with the operations that change the registers from outside: ioctls of the bus driver and of the device, cache operations, alignments and DMA of the device thread |
| `MadSerialIo` | the abstract promise to a synchronous caller: a device that carries out one i/o at a time, takes the data of its caller, and finishes |
| `MadBlockIo` | the block driver's three paths, blk-mq as the driver uses it, device thread with chain, ISR, DPC |
| `MadSerialDisk` | the abstract promise of the block driver: a disk whose operations each happen in one step, or not at all |
| `MadLifecycle` | slots, drivers and device objects: load, unload, set-up, removal, hot plug, unplug |
| `MadWdfIo` | the Windows read and write path |
| `MadCharIoInv`, `MadCharCtlInv`, `MadBlockIoInv`, `MadWdfIoInv` | the inductive invariants (those of `MadLifecycle` are at its end) |
| `MadCharIo_proof`, `MadCharIoInv_proof`, `MadCharIoData_proof` | theorems and proofs of the i/o path: types, phases, data and refinement |
| `MadCharCtl_proof` | of the i/o path with its control operations |
| `MadBlockIo_proof`, `MadBlockIoData_proof` | of the block driver: flag and tag, then chain, data and refinement |
| `MadLifecycle_proof`, `MadWdfIo_proof` | of the life cycle and the Windows path |
| `MCCharIo`, `MCCharCtl`, `MCBlockIo`, `MCLifecycle`, `MCWdfIo` | constants, symmetry sets and views for TLC |

### How the state corresponds: character driver

* **Registers.** A register with named bits is the set of names that are one; the
  four-bit counts are sets of bit positions, so the device's `Status |= count` is
  a union. `HostPA`, the address of the shared host buffer, is tagged with the
  caller on whose behalf it was programmed: that is how the properties tell one
  caller's i/o from another's. `TagMax` stands for 2^32 - 1. Cache and
  alignment bits are kept, index registers and sizes are not.
* **Callers.** `pc[p]` is the place in `maddevc_read` / `maddev_read_bufrd` and
  the three other paths: `lock` (waits for `devmutex`), `check` (queue check),
  `fill` (copy from the user), `pend` (queue set busy), `prog`, `go`, `release`
  (programming under `devlock`), `wait`, `copy`, `reset_f`, `unlock`. The two
  synchronous calls lock before they check; the two queued calls check first.
  Queued calls run as threads of their own (the kernel calls `read_iter`
  synchronously); several may be in the driver at once.
* **Programming is three steps**, because the unlocked device thread can run
  between the register writes of `maddevc_program_stream_io` and between the go
  bit and the release of the lock. The writes before the go bit are one step: the
  device thread does nothing with them until it sees the bit. All other critical
  sections of `devlock` have no unlocked observer that could tell their steps apart
  and are one step.
* **Device thread.** `poll` reads `IntEnable`, `IntID`, `IoTag`; `decode` reads
  `Control` and compares tags; `xfer` moves data with the values read
  (`seen`) and writes the registers back; `isr` is the ISR it calls. `bug`
  is the dead thread after `BUG_ON`. Decoding an i/o and the first reads of the
  function that carries it out are one step, its writes and its move of data
  another. The code decodes the direction once more in between, which only a bus
  ioctl could make differ; no run is about that difference.
* **DPC.** Two steps: register reset (under the lock) and wake-up.
* **Buffers.** `inBufr`, `outBufr` hold the caller whose data is in the shared
  buffer, `accepted` the caller whose data the device took last.
* **Control operations.** The device's ioctls run under both locks and are one
  step; the bus ioctls are one step that may come anywhere. What they leave in the
  registers may start the device by itself: a cache operation or an alignment
  (`cache`), which never calls the ISR; a DMA of one block (`dma`), which copies zero
  bytes because nobody writes `DTBC`, and calls the ISR; a chained DMA, whose chain
  of zeroes has no end: the thread is dead, as after `BUG_ON`.

### Block driver

* `pc[p]` is blk-mq's side of an operation (waiting for the tag, turned away,
  issued), `cmd[p]` the driver's (allocated, mapped, programming, waiting,
  ending, freeing); `tag` is the one tag of the hardware queue and `runq` a due
  run of it. blk-mq is outside the repository: it hands out the tag, keeps a
  request that was answered `BLK_STS_DEV_RESOURCE`, and runs the queue again
  when a request ends.
* Only the default parameters of the driver are modelled: one queue of one tag
  (`hw_queue_depth`), work items, no memory backing.
* `chain` is the table of elements in the device; `HwSgle` computes the element
  that each segment is written to, as `Next_HWSGLE` does, and `Walked` the
  elements the device visits, up to the first with the `END` bit. `DTBC` is the
  transfer count, which the caller reads from the live register.
* `disk` and `bufr` hold whose data is where; a segment is one sector.
* There is no signal and no injected error here: the bus ioctls are composed with
  the character driver only.

### Life cycle

* The five records are `pci_devid` (slot), `driver`, `sysfs` (registration), `isr`
  and the object's `bReady`; `bHP` and `bDevRegstrd` are the two flags of the same
  names. The devices of the two drivers carry the same
  numbers and are distinct objects.
* `op[a]` is the call stack of an administrator: what it does, to which driver and
  slot, and whether the set-up belongs to a plug or a load.
* `res` are the PCI resources of the device objects, by kind: the device enabled,
  region 0 requested, its registers mapped, its interrupts requested. Each error
  return of `maddev_claim_pci_resrcs` leaves what it leaves in the code (`LeftByClaim`):
  the device stays enabled, after a failed read of config space the region stays
  requested (`maddrvrdefs.c:868`), after a refused interrupt those before it stay
  requested (`898`). Unloading releases the static devices only, so what a plugged
  device holds stays in `res` when its object is freed (`605`, `643`). A later set-up
  of the same object that gets past its claim takes these over, and its release gives
  all of them back; the simulated PCI core keeps no count of them, so that a set says
  what is held.
* A load can fail before it sets anything up (`InsmodFails`: device numbers, memory,
  registration with the bus), and `answer` is what the operation will return, or has.
* Three things have no defined outcome: initialising a `pci_dev` that is registered,
  calling into a driver that is not loaded, and the clean-up of a failed load through
  a null `driver.p` (`maddrvrdefs.c:657`). They set `fault` (`reinit`, `unregister`,
  `gone`, `oops`) and nothing happens after them. The invariants about slots are about
  the states before.

### Windows

* `owner` is the sequential queue, `pc[r]` the handler, `hPendingReqs` the table,
  `wi` the one context of the one work item, `HdwSgDmaList` the one chain.
* `ui` is the window's poll: it reads `IntEnable`, then `Control`, decides, sets
  `IntID`, later clears the go bit, with no lock. Its `IntID |= bit` is one step,
  although the compiler's load and store could be parted.
* `int` is the interrupt thread, on whose processor the ISR and the DPC run before
  it goes on. `worker` are system threads that run the work item, which can be queued
  again while one of them still runs it.
* Status codes are reduced to success or error. The driver is its free build, in
  which assertions do nothing; a null request or a second completion is a bug
  check (`fault`).
* Applications read and write in the directions that the run mode of the window
  serves.

### Bounds

* Character driver: two callers (one in `charioctl`), one bit of count, tags that wrap at 1 or 2; the
  control operations may come any number of times, with the arguments of the cfg
  (`StatusArgs` and the others: values that name a bit the code tests, alone).
  `charioctl` has one caller because a device that its user has armed, and that
  interrupts on its own, multiplies the states; how callers meet at the mutex under
  injected errors is in `charctl`, and the theorems `MutexFollowsCallUnderControl` and
  `BusyHasCallerUnderControl` are for any number of callers and all the operations.
  Two callers are enough for every conflict of the code, which is always between
  the holder of the mutex and one other; the proofs lift the number of callers, the
  width of the counts and of the tag. `TagMax` 1 or 2 wraps in a
  behaviour of two or three i/o. The control runs are explored up to the
  contents of the shared buffers (`ControlView`), which decide no step and occur
  in none of their properties.
* `blkio`: two threads, each with any of the three paths, one sector, one segment.
  More segments would show `blkchain` again: with two, the element chain is wrong
  and the refinement of the disk fails. `blkchain`: one thread, two sectors, two
  segments.
* `lifecycle`: one administrator (operations are then sequential; see Plan), two
  drivers of which one has a static device, two slots. Each call of the kernel fails
  for at least one driver and most for both (`EachCallFails`): of the claim's four
  error returns that leave something different, each is in, but not each for both,
  since the state keeps what every failure has left (1.5 million states). The proofs
  are for every set of failures.
* `wdfio`: two requests, two workers, three run modes, with and without extraneous
  interrupts; `MaxXfers` 2 tells one transfer from more. A request overlaps with the
  tail of the one before it only, so two show every conflict of neighbours, and
  the proofs lift the number.

Symmetry is on callers, requests and workers, and is not used with liveness.

### Fairness

`charserial` and `charlive` use `FairSpec` of `MadCharIo`: the device thread runs
(it is bound to a processor and yields with `schedule()`), a scheduled tasklet
runs, a woken caller runs (weak fairness), and the kernel hands the mutex to its
waiters in turn, so that a caller that could take it again and again does take
it (strong fairness of `LockDevmutex`). `blkio` uses `FairSpec` of `MadBlockIo`:
device thread, tasklet, work items and threads inside a call run (weak fairness);
nothing is assumed of blk-mq. In neither is anything assumed of new calls. The
life cycle and the Windows path have no liveness property: an administrator may
stop anywhere between two operations, and a Windows request whose entry was wiped
may never end.

## 3. The runs

Passing:

| Run | Question |
|---|---|
| `chario` | Reads and writes, synchronous and queued, mixed: does each completion reach its own caller, do tags, mutex, queues stay in step, is the device undisturbed? The inductive invariant `IInv` is checked too. |
| `charserial` | Does the synchronous path implement `MadSerialIo` (liveness included), and does every caller get and give its own data? |
| `charlive` | Do all waits end and all calls return, synchronous and queued mixed? |
| `charctl` | An alert injected at any moment of queued i/o: do the error returns keep mutex and queues right? |
| `charctlsync` | Reset, expiry and injected interrupts by the bus, init and reset by the device ioctl, at any moment of synchronous i/o: can a caller take the completion of another? The inductive invariant `SyncInv` is checked too; it includes `CtlInv`, and so the mutex and the queues. |
| `charioctl` | Enable and control registers written by ioctl, the injected status, cache operations, alignments and zero-byte DMA of the device, at any moment of a synchronous call: do mutex and queues follow the calls? |
| `blkio` | Requests, page i/o and raw calls in every interleaving: is the flag exclusive and always given back, does everything issued end, does the driver implement `MadSerialDisk`? |
| `lifecycle` | Load, unload, plug, unplug with any failure: do ready devices own their slots, do they stay until they are removed, is a plug that fails undone, and where are PCI resources left behind? The inductive invariant `LInv` is checked too. |
| `wdfio` | What does a window that serves one direction and issues no extraneous interrupts let happen to each request? The other modes are explored for the type invariant and to fire every action. |

Runs that show what the code does against what a comment or assertion says:

| Run | Shown |
|---|---|
| `charlate` | a failed queued read frees the queue of the next read (`maddevcio.c:166`) |
| `blkchain` | the segments of a request overwrite each other in the element table, and the request ends short and without an error (`maddrvrdefs.h:343`; assertion `maddevb_blk_utils.c:479`) |
| `wdfassert` | the work item clears the table entry of the next request, whose interrupt then finds none (`MadDevIoFunxns.cpp:504`; assertion `:467`) |

Deadlock is checked in `chario`, `charserial`, `charlive`. It is off in the control
runs, since after a bus reset or the init ioctl the device thread may be dead or an
i/o lost, and the system really stops; in the block runs, since a request answered
`BLK_STS_DEV_RESOURCE` waits for the queue to be run again, which the end of a page
i/o or raw call that held the flag does not do; in `lifecycle`, which stops at a
fault; and in the Windows runs, which stop at a bug check or when the requests of
the run are used up.

`NoOtherLeak` is stated as it is because the code does leave resources behind, in two
places: the error returns of the claim, and the unload of a driver with plugged
devices. The property says that a step leaves a resource without an owner in these
two places only: not on the error returns of a set-up after its claim, not on an
unplug, not on the unload of a static device.

`OwnDataOnly` and the data part of `SerialSpec` are stated for synchronous calls
only: with queued writes they are false, because the queue is checked before the
mutex is taken and the shared buffer filled after it (`maddevcio.c:295`), and with
queued reads because the copy to the caller comes after the unlock
(`maddevcio.c:180-183`).

The four properties of `wdfio` besides its invariant say `Quiet`: the window in one
direction, without extraneous interrupts. Outside it they fail, as the
code's interrupt path allows: in full duplex the interrupts enabled by the end of a
DPC let the window answer one i/o twice. `CompletedOnce` also needs requests
of one type: with chained and unchained DMA mixed, the DPC that completes whatever
is pending after an error and the work item can meet on one request.

## 4. What is proved

For every value of the constants, from the assumptions of the modules and the
hypotheses named in the last column:

| Module | Theorem | States | Given |
|---|---|---|---|
| `MadCharIo_proof`, `MadCharIoInv_proof` | `TypeCorrect` | `Spec => []TypeOK` | |
| | `Invariance` | `Spec => []IInv` | |
| | `TagsStayInStep`, `WorkIsWaitedFor`, `AnswersAreOwn`, `MutexIsCallers`, `BusyQueueHasCaller`, `IdleQueuesAreFree` | the safety invariants of `chario` | |
| | `DeviceIsUndisturbed` | the action property of `chario` | |
| `MadCharIoData_proof` | `DataInvariance`, `OnlyOwnData` | `Spec => []DataInv`, `Spec => []OwnDataOnly` | synchronous calls |
| | `OneIoAtATime` | every step is one of `MadSerialIo` or a stutter | synchronous calls |
| `MadCharCtl_proof` | `ControlInvariance`, `MutexFollowsCallUnderControl`, `BusyHasCallerUnderControl` | `CtlSpec => []CtlInv` and two invariants of the control runs | |
| | `SyncInvariance`, `AnswersAreNotStolen` | `CtlSpec => []SyncInv`, `CtlSpec => []AnswerNotStolen` | synchronous calls, no `dev_enable`, no `dev_control` |
| `MadBlockIo_proof` | `BlockInvariance` | `Spec => []BInv` | |
| | `BusyFlagIsExclusive`, `EveryRequestEndsOnce`, `BlockTagsStayInStep`, `BlockWorkIsWaitedFor` | invariants of `blkio`, for any number of threads, sectors, segments | |
| | `BlockDeviceIsUndisturbed` | its action property | |
| `MadBlockIoData_proof` | `DiskInvariance`, `BlockTypes`, `TheChainIsOwn` | `Spec => []DiskInv` and the other two invariants of `blkio` | |
| | `OnlyTheLastSegmentMoves` | of a request of any length the device moves the last segment, and no other | |
| | `OneSegmentSizeMatches` | `[]EndSizeMatches`, the property that `blkchain` violates | no operation longer than a segment |
| | `OneOperationAtATime` | every step is one of `MadSerialDisk` or a stutter | no operation longer than a segment |
| | `ShortOperationsAreADisk` | both of these | page i/o and raw calls only, or `MaxSegs = 1` |
| `MadLifecycle_proof` | `LifecycleInvariance` | `Spec => []LInv` | one administrator |
| | `ReadyDevicesOwnTheirSlots`, `PluggedDevicesAreReady` | the invariants of `lifecycle` | one administrator |
| | `ReadyDevicesStay`, `ResourcesLeakNowhereElse` | its action properties | one administrator |
| `MadWdfIo_proof` | `WdfInvariance` | `Spec => []WInv` | |
| | `DeviceMovesOwnersData`, `NoTransferTwice`, `SuccessWasTransferred`, `RequestsCompletedOnce` | the four properties of `wdfio` | |

**Character driver.** The properties are not inductive: that an answered caller
reads its own completion says nothing of how it came about. `IInv` follows one i/o.
The caller that holds the mutex (`MutexInv`) is in one of the phases `Armed`,
`PickedUp`, `Raised`, `Scheduled`, `Resetting`, answered; each phase says what
registers, device thread, register copy and DPC look like, and when no caller is
at the device everything is `Quiet`. The proof: a step of a caller that is not
at the device keeps every phase (`PhaseFrame`), because two callers cannot both
hold the mutex (`OthersAway`); a step of the device thread or the DPC can only
happen when not everything is quiet, so there is exactly one caller at the device
(`SomeoneAtDevice`), and the step moves it to the next phase. As a by-product
the error returns are unreachable without outside interference (`AnsweredOk`).

**Data and refinement of the character driver.** `DataInv` adds whose data the two
shared buffers hold: a write's from the fill on, a read's from the transfer to the
copy. It is inductive relative to `IInv`, because the phase of the caller at the
device says when the transfer happens, and because with synchronous calls fill
and copy are under the mutex. The refinement maps the go bit, the
transfer of the device thread and the end of the wait to the three steps of
`MadSerialIo`; all others stutter (`SerialStep`). `SerialView` is the mapping: it
shows the i/o whose go bit is set, until its caller has left the wait.

**Control operations.** A write to the registers at any moment ends every phase of
`IInv`, so that nothing of it about registers survives. Two things do. `CtlInv`:
types, the mutex, the lock, and that a busy queue is that of a caller on its way;
it holds for all operations and all calls, because no control operation touches
the mutex or the queues of reads and writes, and every return, whatever the status
it found, releases the mutex and leaves its queue pending for nobody (a synchronous
call that failed leaves the error code there, which refuses the next). And `SyncInv`: at most one of transfer, interrupt and DPC is under way, each of them
has a caller that waits, and registers and register copy name that caller or
nobody. Registers that the device would pick up therefore belong to the one
caller that holds the mutex. The two ioctls that write `Control` and `Enable` from
user space are excluded because with them the device can carry out an i/o that no
caller waits for, and a queued error return because it frees the queue of the next
caller: that is what `charlate` shows.

**Block driver.** The same phases hang on the stage of the one command that holds
the flag (`CmdInv`); without a command all rests (`RestInv`). Exclusion comes from
the flag alone: it is up exactly while a command exists, and a path enters only
by the `cmpxchg` that finds it down. That a request ends once is the
correspondence of the tag with `pc` and `cmd` on every exit.

**Chain and data of the block driver.** `DiskInv` says, for each place of an
operation, what the element table holds (`ChainInv`): once the chain is built its
first element is the last segment of the operation, with the `END` mark, because
`HwSgle` never leaves the first element (`HwSgleStays`). So the device walks one
element, whatever the length: `OnlyTheLastSegmentMoves` is the finding of
`blkchain` for every length. When the last segment is the only one, that one
transfer is the operation, and the driver with its device, queues, interrupt and
DPC implements the disk step by step. The hypothesis `[]OneSegmentOps` of these
theorems is met by every page i/o; for requests it is `MaxSegs = 1`.

**Life cycle.** `LInv` says, for each place of a set-up or removal, what was done so
far (`SetupInv`): the slot holds the driver's id, nobody is ready there, from the
claim on the interrupt is the driver's and the object has its resources, and so on.
`ModuleInv` adds what a load has still to do and an unload has done: the objects a
load comes to are not ready, nor those an unload has passed. `NoOtherLeak` follows
step by step: an error return after the claim releases what it holds (`SetupLeaks`), an
unload releases every ready device up to `Static`, so that what `FreeObjects` leaves
without an owner belongs to a device plugged beyond it (`ModuleLeaks`). `PlugInv`, on top of it, is about
hot-plugged slots: one that no plug or removal is working on has a ready device,
or is just being unloaded. The set-up of a load can disturb that only in a slot up to
`Static` of its driver, which is why the invariant says so of `op[a].slot`. One
administrator is an assumption of each theorem: operations of two interleave
without a lock.

**Windows.** `OnePlace` says that the i/o of the owner is in one place at a time: go
bit, interrupt, DPC, queued work item, one worker. The tails of the DPC and of the
work item run on beside the next request; `DeviceInv`, `PendingInv`, `WorkInv` say
all they can do to it: take away its host address or its entry, but never put
another request in their place. The invariant says so under the condition `Quiet`; when the
user ends the automatic mode the condition ends, and with it the claim.

Every safety property of the passing runs is thus stated by a theorem. Only
model-checked are

* the liveness properties `WaitEnds`, `CallReturns`, `FlagReturns` and `IssuedEnds`,
  and the fairness of the two abstract specifications in `SerialSpec` and
  `SerialDisk`: their steps are proved, that they finish is not.

Beyond the hypotheses of the table nothing is claimed, and the runs say why:
`OwnDataOnly` and `AnswerNotStolen` fail with queued calls (the latter in `charlate`),
`EndSizeMatches` and the refinement of the disk with two segments (`blkchain`).
What `SyncInv` excludes, ioctls that arm the device, is where a completion can
reach the wrong caller.

The prover has no induction over data. `HwSgle` is a recursive function over the
segments of a request, and what is proved of it needs one: `HwSgleStays` takes
the smallest segment for which the claim fails, from the well-foundedness of the
natural numbers.

## 5. Plan

Done: the character driver and its control operations, the block driver, the life
cycle and the Windows read and write path, with invariants and proofs. Left, in
this order:

1. `MadLifecycle` with two administrators: a plug checks the slot and takes it
   without a lock, and `ReadyOwnsSlot` fails; which of the operations still keep
   it, and the composition of removal with i/o in progress.
2. `MadBlockIo` with the bus ioctls, whose injected alert meets a `BUG_ON` in the
   tasklet, and with the device's ioctls.
3. A data plane: index registers, unit counts, byte positions and their wrap, for
   buffered, cache and alignment i/o.
4. The cache and alignment ioctls, power and the fatal-error work item of Windows.
5. Proofs: which of the control operations may be mixed with queued calls, and the
   life cycle with two administrators as far as it holds.

## 6. Not modelled

* Of `K/`: `SET_MSI`; the positions in the device data, so that the completed
  counts, which accumulate in `Status` (`mbdevthread.c:333`), are sets of bits only;
  the cache ioctls of the block driver, which share static buffers among all
  devices; its memory-backed, zoned and throttled modes and its timeout handler,
  which come from the kernel's `null_blk`; user-page DMA,
  which the raw calls never reach because they are refused, and the DMA of one block
  that moves data; `open`, `release`,
  `llseek`, `mmap`, which share no state with the i/o path; formatting and logging.
* Facts about the code that no run shows, kept as hazards in `PROJECT.json`: the
  lock is asserted free before it is taken (`maddrvrdefs.h:278`), which fails under
  ordinary contention; a synchronous call that fails leaves its direction refused
  (`maddevcio.c:90`, `258`); a bus reset makes the next i/o stop the device thread
  (`madbusmain.c:199`); the init ioctl leaves registers that start a DMA to address
  zero (`maddevcmain.c:69`); a claim that fails keeps what it has claimed so far, and
  an unload what plugged devices hold (`maddrvrdefs.c:763`).
* Of `W/`: enumeration, PnP, power and WMI call-backs of the framework, the StorPort
  miniport `MadDiskMP`, the MFC applications.
* `madsim_v11` is an older copy of the modelled sources together with third-party
  kernel files; the Verilog is mostly generated; the crash demonstrations and the
  statistics scripts have no state to verify. These, with the Windows parts
  above, are most of the repository's lines, so that the models cover a small
  share of them although they cover the paths where its actors meet.
