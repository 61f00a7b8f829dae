# A verification model of the LPC178x DfuSe bootloader

This directory holds TLA+ modules that model the bootloader in `src/`, the TLC
configurations that check them on small instances, and proofs, checked by the
TLA+ proof system, of the results that matter most. Paths below are relative to
the repository; the library in `src/src/src/usb_task/nxpUSBLib` is called
nxpUSBLib, and the kernel in `src/src/uCOS-III` uC/OS-III. The kernel's files
contain form feeds, and line numbers, here and in `PROJECT.json`, count each of
them as the end of a line (the mapped lines of three functions at the end of
their files stop at the number of line feeds, a few lines short of the
functions' ends).

## 1. The system

The bootloader runs from RAM on an LPC1788. At a reset it either starts the
application at 0x00010000 or becomes a USB device that a DfuSe host (dfu-util,
DfuSeDemo) updates the flash with.

| Part | State it keeps | Operations |
|---|---|---|
| Boot decision, `main.c` | shared memory `boot_mem` (survives a system reset), the BOOT_MODE pin | `main`, `boot_mode_requested`, `app_magic_is_existing`, `bootmode_start`, `user_app_start_hard`, `user_app_start_user` |
| DFU handler, `usb_task.c` | `DFU_State`, `DFU_Status`, `CurrentAddr`, `firmware_data`, `need_detach` | DNLOAD (commands, blocks, end), UPLOAD, GETSTATUS, CLRSTATUS, GETSTATE, ABORT, DETACH; `task_loop` |
| Flash driver, `iap.c` | none of its own; the flash and the ROM's set of prepared sectors | `iap_erase`, `iap_write`, `iap_blank_check`, `sector_by_address`, `ExecuteCommand` |
| Endpoint 0 driver, nxpUSBLib `Endpoint_LPC17xx.*`, `Endpoint_LPC.*` | `SETUPReceived`, `isOutReceived`, `isInReady`, `usb_data_buffer` with index and size, `DataInRemainCount/Offset`, `shortpacket` | `SlaveEndpointISR` and the bus reset in the USB interrupt; ClearSETUP, ClearOUT, ClearIN, WaitUntilReady in the USB task |
| Control requests, `USBTask.c`, `DeviceStandardReq.c` | `USB_ControlRequest`, device address, state, configuration, remote wakeup | `USB_DeviceTask`, `USB_Device_ProcessControlRequest`, the standard requests |
| Descriptors, `Descriptors.c` | constant tables | `CALLBACK_USB_GetDescriptor` |
| Kernel, uC/OS-III `os_core.c`, `os_prio.c`, `os_tick.c`, `os_time.c`, `os_sem.c`, `os_task.c` and the port | ready lists and priority table, tick wheel, pend lists, the current task and the one to switch to, nesting and lock counters | OSSched, OSSchedLock/Unlock, round robin, OSTimeDly, OSSemCreate/Pend/Post/Set/Del, the tick task, OSIntEnter/OSIntExit, PendSV |
| Interrupt dispatch, `bsp_int.c` | a table of handlers | `BSP_IntHandler` |
| Helper functions, start-up code, MCU drivers | registers, constants | not modelled, section 8 |

How they interact. One task (`task_loop`, every millisecond) polls the stack;
when the interrupt has announced a SETUP packet it copies it, calls the DFU
handler, and the handler talks to the host through the endpoint 0 driver
(flags and one buffer shared with the interrupt, no lock) and to the flash
through the ROM (interrupts off). The handler leaves the machine only by
`need_detach`, which `task_loop` turns into a system reset a second later; the
boot decision then reads memory that was written before the reset. The
application asks for an update by writing to the shared memory and resetting.
Below all of this the kernel wakes the USB task every millisecond and takes
interrupts at any point outside a critical section.

What is hard, and what must hold:

* *task against interrupt*: a packet, a flag, a bus reset or the selected
  endpoint changes between any two steps of a handler. No block or answer may be
  mixed up, no transfer acknowledged for another, no handler left waiting, no
  request left without an answer.
* *late and lost data, retries*: an acknowledged download may not have been
  carried out. Status and state must still tell the truth about what was.
* *power failures*: a torn sector, a half-written image. What the host believes
  finished must be in the flash; nothing else may be touched; another attempt
  must be possible.
* *the boot decision*: a request that survives a reset must be consumed; a
  finished update must start; the documented conditions must be the real ones.
* *flash commands*: a call is two commands, the ROM may be busy or refuse either
  of them, and interrupts come between them. To its caller a call must be one
  step, and what it returns must be what the flash went through.
* *wake-ups and time*: an interrupt wakes a task while another is about to
  block, or while the scheduler is locked; a task is in two lists at once; the
  tick counter wraps. No wake-up may be lost, every delay must end at its tick.
* *arithmetic*: sectors of two sizes, 32-bit wrap, unaligned addresses.

## 2. The modules

| Module | What it models |
|---|---|
| `FlashLayout` | layout table, `sector_by_address`, and what the ROM answers and does |
| `FlashDriver` | the flash driver, one step per call |
| `FlashService`, `IapDriver` | the driver as its callers know it, and command by command with the BUSY loop and interrupts |
| `DfuDevice` | the DFU handler over the flash driver, one action per request, for a free host; power losses |
| `DfuSession` | `DfuDevice` and a host that makes an update; late data, power losses, retries |
| `FirmwareUpdate` | what an update promises, without flash, addresses or protocol |
| `BootSystem` | `DfuSession` and everything a reset involves |
| `ControlEndpoint` | endpoint 0, packet by packet: host, controller, interrupt and task |
| `StandardRequests` | enumeration: the standard requests, bus resets, a host |
| `PriorityTable`, `TaskLists` | the data structures of the kernel |
| `Kernel`, `KernelService` | the kernel, and what delays and semaphores promise a task |
| `*_proofs` | theorems about the module they are named after; those about `DfuDevice`, and that `DfuSession` implements `FirmwareUpdate`, are in `DfuSession_proofs`, those about `PriorityTable` in `Kernel_proofs` |
| `MC*` | the small instances |

`DfuSession` extends `DfuDevice` extends `FlashDriver` extends `FlashLayout`;
`BootSystem` extends `DfuSession` and its specification is shown to implement
that of `DfuSession`, which implements `FirmwareUpdate`. `IapDriver` extends
`FlashLayout` and implements `FlashService`, whose steps are the calls of
`FlashDriver`: this is why `DfuDevice` may take a call for one step. `Kernel`
extends `TaskLists` and `PriorityTable` and implements `KernelService`.
`ControlEndpoint` and `StandardRequests` stand apart: the first looks inside the
steps that `DfuDevice` and `StandardRequests` take as one, the second is about
the requests that the DFU handler never sees.

### FlashLayout, FlashDriver

The flash is a function from *rows* to contents. A row is the unit the ROM
aligns a copy to (256 bytes); a DFU block (512 bytes) covers `BlockRows` of
them. Contents are told apart as far as the properties need: a block of the
image, blank, zeros, or anything else. Programming a row that is not blank
gives something else (`Programmed`). `SmallSectors`, `SmallSize`,
`LargeSectors`, `LargeSize` are the entries of `flashLayout[]`; the code's
0x10000 in `sector_by_address` is `SmallBytes`. The ROM itself is not in the
repository: its answers (`PrepareStatus`, `CopyStatus`, `BlankCheckStatus`) are
what the driver's error returns distinguish, following the status list of
`iap.h`. `iap_erase` and `iap_write` have one disjunct per return. `RomMayFail`
lets the ROM refuse a correct command.

### IapDriver and FlashService

A call is one or two ROM commands, each of them given with the interrupts off
and given again while the ROM answers BUSY. `pc` is where the driver is,
`interrupts`, `pending` and `isr` the processor's side of it. Code and vectors
are in RAM (`sram_bootloader.icf`, system_LPC177x_8x.c:465), so that an
interrupt handler never reads the flash and needs nothing from the driver but to
be served. `before` keeps flash and prepared sectors of the last return: through
it the driver is shown to implement `FlashService`, in which the whole call
happens at the return.

### DfuDevice

The variables carry the names of the code's. `firmware_data` keeps the first
byte and the word behind it, all that the handler ever looks at; `Spells` says
what a block of firmware leaves there, so that a command that is only its first
byte takes its address from the block before, as in the code. A handler is one
step because the USB task runs one handler at a time and nothing else touches
these variables; everything the handler does, `CurrentAddr += 512` after a
failed write included, is in its action. `outcome` is a history variable: what
became of the last DNLOAD or UPLOAD. A power loss (`PowerLossInErase`,
`PowerLossInWrite`) leaves each row of a flash operation old, new or torn.

### DfuSession and FirmwareUpdate

The host is external: clear the status, erase sector by sector, set the
address, send the blocks, end with an empty download, poll GETSTATUS after
each. It gives up at the first answer it does not expect and starts over.
`HostCommandLate` and `HostBlockLate` are data stages that miss the handler's
100 ms; the device acknowledges them all the same. `missed` remembers that a
block was lost that way, because nothing in the device does.

`FirmwareUpdate` knows only the stage of an attempt, the blocks of the image
that are in place and whether one was lost on the way: an attempt empties the
place, fills it in order, can be given up anywhere, and is confirmed only when
it is complete. The refinement reads the blocks off the flash (`StoredBlocks`).

### BootSystem

`mode` is where the processor is; `main` is the decision; `bootmode_start`
clears the shared memory. The magic has three classes (the documented eight
bytes, the same seven with another last byte, other), the request three (0, 1,
other). The application resets the machine, with a request when the user wants
an update, without otherwise. After a power failure the memory holds anything.

### ControlEndpoint

A step is one access to what task and interrupt share, and the interrupt runs
between any two; a pending interrupt preempts the task. `pc` names the place in
the handler and `then` what follows a ClearSETUP or ClearOUT. Data is counted in
units (half a packet), each of them named by its transfer and place, so that a
packet at a wrong place or of a wrong transfer shows. The controller's rules
(a SETUP packet overwrites, CLR_BUF frees the selected endpoint, VALID_BUF
fails while a SETUP packet waits, acknowledging an interrupt selects its
endpoint) are external. Two things are one step although the code takes
several: the counters and the FIFO of `WriteControlEndpoint`, and the copy in a
stream read or write; with an interrupt that is never kept waiting the first
cannot be interrupted by the IN side, and the second only meets a new packet
when the flag is stale, in which case the block is already lost.

### StandardRequests

The actions are the request handlers of `DeviceStandardReq.c`, each of them in
as many steps as a bus reset can fall between with an effect: SET_ADDRESS is
three (its critical section, the controller's address, the device state) and
SET_CONFIGURATION three. A request nobody handled is stalled by `Unhandled`.
`BusReset` is the reset branch of the interrupt with `HAL_Reset`: it leaves
`SETUPReceived`, the configuration number and the remote wakeup setting alone,
as the code does. `Plan` is the host's enumeration, `Requests` what it asks
afterwards; it resets the device when it gets nothing, or the wrong thing.
`believes` is what it has seen acknowledged, and `stale` remembers that a reset
came upon a request not yet done. A host leaves the device the two milliseconds
the USB standard gives it to change its address.

### PriorityTable, TaskLists

A word of `OSPrioTbl` is the set of its 1 bits, counted from the most
significant one, so that counting leading zeros is taking the least. The lists
are kept as the code keeps them, heads, tails, counts and pointers in both
directions, and the operators move the pointers as the functions of
`os_core.c` and `os_tick.c` do, reading before writing; `Chain` is the list
that the forward pointers spell and `WellLinked` says that all the rest agrees.
The four insertions and three removals of the code that differ only in the
list they work on share an operator.

### Kernel

A critical section is one step, since `OS_CFG_ISR_POST_DEFERRED_EN` is 0 and
critical sections turn interrupts off. Between any two, an interrupt may come:
the tick, in four steps (enter, post to the tick task, round robin, exit), or
another one above it, `BSP_IntHandler`, from OSIntEnter to OSIntExit in one step
because nothing interrupts it. `pendSV` is the pending context switch; PendSV
has the tick's priority and a lower exception number, so it runs when no
interrupt is active and before the next tick. `pc` of a task is the place where
it goes on: about to call OSSched, back from a pend, or free to call. `PendOn`
stands for PendObjPtr and the pend data. The tasks of the application make any
call of `Calls` in any order that `os.h` allows; a call that only returns an
error is no step.

The initial states are those after OSStart, with the tasks of a priority in any
order. `os_cfg.h` sets OS_CFG_OBJ_TYPE_CHK_EN and OS_CFG_ARG_CHK_EN to 0, so
that no call looks at the type of its object: the field is written and never
read, and the model does without it. A semaphore that was deleted, or never
created, takes a pend, a post or a set as any other does, and tasks that come to
one while it is deleted wait there for a post. `OSSemCreate` sets the counter
and empties the pend list of whatever it is given. If tasks waited there they
would be in no list that a post reads, with links that still lead into it.
Nothing in the kernel rules that out (os_sem.c:62 promises an error that the
function does not have), so it is the application's obligation and is stated as
one: the tasks of the model create a semaphore only when nobody waits for it
(`NobodyWaits`). This is the one thing they are not free to do. Left out: the
options that suppress the scheduler (OS_OPT_POST_NO_SCHED), non-blocking pends
that only return an error, and everything that `os_cfg.h` configures out
(mutexes, flags, timers, suspension, pend aborts, OSTimeDlyResume, priority
changes).

`KernelService` is the promise to the callers: a delay is a number that every
tick takes one from, a semaphore is a number and a queue ordered by priority
and arrival, and a wait ends with OK, TIMEOUT or DEL. The refinement reads the
queue off the pointers of the pend list, and the number of ticks left off the
match and the tick counter, modulo its width.

## 3. The runs

| Run | Configuration | Shows |
|---|---|---|
| `device_free_host` | `MCDfuDevice.cfg` | any four steps: types, `StatusStateAgree`, `OutcomeReported` (downloads that were missed or ignored excepted) |
| `flash_driver` | `MCIapDriver.cfg` | `DriverInv`, `CallReturns`, `InterruptServed`, and that a call is one step of `FlashService` |
| `boot_system` | `MCBootSystem.cfg` | `SystemInv`, `UpdateStartsImage` of the machine; `SessionInv`, `DoneMeansImage`, `OutsideUntouched` of the update in it, and that it implements `FirmwareUpdate` |
| `update_liveness` | `UpdateLiveness.cfg` | `UpdateEnds` |
| `ep0_polling` | `MCControlEndpoint.cfg` | `EpInv` (for transfers that fit the buffers), `BlockIntact`, `AnswerIntact`, `AckMeansServed`, `HandlerReturns` |
| `ep0_faults` | `EndpointFaults.cfg` | `BlockIntact` of the transfers a host still wants, when it gives one up and when the bus is reset |
| `enumeration` | `MCStandardRequests.cfg` | `NoSilentRequest`, `HostKnowsDevice`, `AnswerAgrees`, `EnumerationEnds` |
| `kernel_sched` | `KernelSched.cfg` | `ListsAgree`, `HighestRuns`, `NoLostWakeup`, `LockKeepsTask`, and that the kernel implements `KernelService` |
| `kernel_time` | `KernelTime.cfg` | the same of delays and timeouts, and `DelayEnds` |
| `empty_claim`, `packet_claim`, `stall_claim` | the `*Claim.cfg` | three statements of the repository that the code does not keep, section 6 |

Bounds and why they are enough:

* `device_free_host`: a flash of two small sectors of one block and a large one
  of two, addresses up to 20 so that one lies past the end and the pointer
  wraps, both command lengths, aligned and unaligned uploads, four steps. Four
  are enough for a command, a failure, a status poll and another command; the
  three properties are also proved, for any number.
* `flash_driver`: a small sector and a large one; addresses at the start of a
  copy that crosses into the next sector, off a row, in the last sector and past
  the end. One interrupt at a time, any number of busy answers.
* `boot_system`: three blocks in one large sector and half of the next, so the
  host erases two sectors, crosses a sector boundary and leaves part of a sector
  blank; two faults allow a fault in the attempt that repairs the first. All of
  its properties are proved without these bounds as well.
* `update_liveness`: as above with one fault, which leaves the flash torn at any
  point of the update and the attempt after it to repair it, and with the ROM
  obeying: a ROM that may always refuse would let no update end.
* `ep0_*`: packets of two units, so that answers of less than one packet, one
  full packet and several occur, and blocks of one and several packets; three or
  four transfers: one to leave something stale behind, one to poll, one to meet
  it, and another. `ep0_polling` has blocks of three packets: first, middle,
  last. `ep0_faults` has one transfer given up and one bus reset, at any point.
* `enumeration`: the four requests of an enumeration and eighteen others, one of
  each branch of each handler; two bus resets out of the blue besides those of
  the host's own recovery, so that one can fall into the enumeration that
  repairs the other.
* `kernel_sched`: tick and idle task and three tasks of one priority, the least
  number with a middle of a list; two words of two bits, so that a priority is
  found in the second; one semaphore that counts to 1, a quantum of one tick,
  one level of lock, no delays. One task pends and locks, one posts, rotates,
  deletes and creates, one pends and sets, and an interrupt posts: a task comes
  to a semaphore before, while and after it is deleted, and posts, sets and
  another deletion find it there.
* `kernel_time`: two tasks of different priority in different words, a tick
  counter of three values, so that it wraps every third tick, a wheel of two
  spokes, so that tasks of different match share one, delays of one and two
  ticks, periodic and to a match, pends with a timeout.

Deadlock is not checked where the bound on steps, faults or transfers ends a
behaviour (`device_free_host`, the runs of `ControlEndpoint`); everywhere else
something can always happen.

## 4. Fairness

`FairSystem`: the processor runs (`main`, `user_app_start_user`), `task_loop`
serves the next request of the host, the user tries again, presses and releases
the button, and turns the machine off and on again even if a torn application
resets it for ever (strong fairness: the machine is in the application again
and again, not all the time). Nothing is assumed of the application, and no
fault is ever assumed not to happen, only that they are finitely many.

`FairEp`: interrupts are taken, the USB task runs (its priority is above every
task that does not sleep), and the frames that `Endpoint_WaitUntilReady` counts
go on, hence strong fairness of the timeout. The host is under no fairness.

`FairDriver`: interrupts are served and return, they leave the task some time
(`[]<>TaskRuns`), and the ROM answers at last with something other than BUSY:
nothing in `ExecuteCommand` bounds its loop, so this is an assumption about the
ROM, and without it neither `CallReturns` nor `InterruptServed` holds.

`FairStd`: the USB task runs; the host attaches, enumerates, ends its status
stage and gives up in the end when nothing comes. That each request of the plan
gets its packet through in the end is strong fairness, since a bus reset may cut
it off any finite number of times.

`KernelFairness`: the tick interrupt comes again and again (strong, since the
other interrupt and PendSV can be in its way); PendSV and the tick handler go
on; the tick task gets its turn (strong: other interrupts delay it, and it has
the highest priority); a task that is about to call OSSched or holds the lock
gets on. The calls that tasks make are under no fairness: a task may stop.

## 5. What is proved

For every value of the constants the assumptions allow (any layout of two runs
of sectors, any image that starts at a sector base and fits, any number of
faults, a ROM that may refuse, any plan of enumeration, any sizes of packets and
buffers and transfers that fit these, any number of tasks and priorities):

* `SectorOfAddress`: the sector the driver computes contains the address, and
  no address outside the flash gets a sector. `SectorUnique` and
  `SectorMonotonic` are the facts about neighbouring sectors that the rest uses.
* `DriverInvariant`: until the last command of a call the flash is as it was and
  only the caller's sector is open. `DriverImplementsService`: a call with all
  its busy answers and interrupts is one step. The return maps to that step,
  everything before it to a stutter, because the invariant knows what the first
  command left.
* `DeviceTypeOK`, `DeviceReports`, `DeviceReportsOutcome`: types, and that
  state, status and outcome agree: a failed operation is seen by every poll
  until a later DNLOAD or UPLOAD is carried out or the host clears or aborts. A
  download whose data is missed or that no branch takes is exempt, because the
  handler acknowledges it and leaves the status of the command before, an error
  included (section 6). `OutcomeReported` is not inductive alone: that
  DFU_Status is OK in dfuDNLOAD_IDLE, where an empty download reports nothing,
  comes from `StatusStateAgree`.
* `SessionInvariant`: `SessionInv` is inductive. It says where the host can be
  for each device state (`ProtocolInv`), where the address pointer is
  (`PointerInv`: exactly at the next block, or behind it after a lost block,
  never ahead) and what is in the flash (`FlashInv`: erased sectors blank, sent
  blocks stored, unsent rows still blank, which is what makes the next copy
  exact). The last is why the first two are needed.
* `SessionDoneMeansImage`, `SessionOutsideUntouched`: the two safety properties
  of an update, from that invariant and the lemmas about rows and sectors.
  `SessionImplementsUpdate`: from the same invariant, each step of host and
  device is a step of `FirmwareUpdate` or changes none of its variables.
* `SystemImplementsSession`: every step of the machine is a step of
  `DfuSession` or leaves its variables alone; with `SystemKeepsSession` an
  update on the machine has all the properties of an update.
* `SystemInvariant`, `SystemStartsImage`: the bootloader runs with a cleared
  request, so the reset after a finished update finds none, and the first sector
  of the image is not blank because a block is in it, so `main` starts it.
* `StdInvariant`, `StdNoSilentRequest`: no request of a host that can reach the
  device is left without an answer or a stall. The hard part of the invariant is
  a SET_ADDRESS handler cut by a bus reset (`AddressPending`): the address it
  goes on to set may be the host's by chance, and then the host must not be
  waiting for something that never came.
* `StdTypes`, `StdHostKnowsDevice`, `StdAnswerAgrees`: what host and device
  believe of each other. `KnowsInv` says where the host is in its plan
  (`HostPlan`) and, as long as no reset came upon a request it had not seen
  done, how far the device has followed: the SETUP packet and the handler are
  the host's (`TaskFollows`), the address is the host's but for one it is about
  to take (`AddressFollows`), and the configuration is what the host saw
  acknowledged but for one whose status packet is on its way
  (`ConfigurationFollows`). The address comes first, from the plan. The remote
  wakeup setting is the one the host saw acknowledged since the last bus reset
  but for one that is being acknowledged (`WakeupFollows`); before that the host
  knows nothing of it, because a bus reset leaves the device's as it was. The
  device's state is claimed for configuration numbers other than 0 (section 6).
* `EpInvariant`: the types of `ControlEndpoint`, and that stale flags, late
  packets, aborts and resets lead out of neither buffer as long as every
  transfer fits them. That it does is `HostKeepsTransferSize`, an assumption
  about the host: the device announces 512 bytes and checks nothing. The index
  into `usb_data_buffer` is 0 except between a read or a load and the ClearOUT
  or ClearIN that follows, whatever stale flags and resets do, and a download
  reads on only while `firmware_offset` is below `wLength`.
* `TransferInv` is what holds between a SETUP packet and its answer for every
  host: nothing of an answer is under way before the handler has got to it
  (`QuietBefore`), the packet the driver has is the host's last one unless a
  newer one is about to be seen or a reset dropped it (`LastSetup`), and no data
  comes before the handler frees the SETUP packet (`NoneEarly`). The next three
  theorems build on it.
* `EpBlockIntact` (`Polls`): a stale `isOutReceived` does not reach the next
  download, because a GETSTATUS handler clears it on its way out (`StaleFlag`),
  and a handler that still reads a download has not been passed by the next one
  (`HostBehind`). With a flag that is not stale, host and handler take turns,
  and `BlockInv` follows each packet from the free buffer to
  `usb_data_buffer`, to its place in `firmware_data`, and to the freed buffer.
* `EpAnswerIntact`, `EpAckMeansServed` (`MaxAborts = 0`): a host that gives
  nothing up waits in its transfer as long as a handler works on it, so handler
  and host are at the same request (`Turns`); the counters of the rest of an
  answer are back at 0 when the IN side is ready (`RemainInv`), and the packet
  under way begins where what the host has ends (`Sent`). Neither needs
  `Polls`, nor a bound on bus resets.
* `TableIsSet`, `HighestIsLeast`: the priority table is a set and
  `OS_PrioGetHighest` its least element, for any number of priorities and any
  width of a word. That a set of numbers has a least one is the well-foundedness
  theorem of the library.
* `KernelLockKeepsTask`: while the scheduler is locked no other task runs. A
  switch is asked for in one step and made in another, so the invariant is that
  none is pending while the lock is held (`NoSwitchPending`): a task only runs,
  and can only lock, once PendSV has run.
* `OrderedEnters`, `TaskLeaves`, with lemmas of the same kind about the other
  operators of `TaskLists`: what an insertion, a removal and the rotation make
  of a list, for every family of lists that are linked both ways (`Good`). The
  proof names the list first: `Spells` says that heads, tails, counts and
  pointers spell a given sequence, and a walk along the pointers gives back
  exactly that sequence (`ChainSpelt`). The kernel moves several tasks in a row
  with a fold; `FoldTrace` gives the values that a fold goes through, and
  `AllLeave` and `AllEnter` are the inductions along them, by a least
  counterexample.
* `KernelInvariant`: `KInv` is inductive. `ListsInv`: each task is in the ready
  list of its priority, the pend list and the spoke that its fields name and in
  no other, in order, and the table has the priorities that are ready.
  `SemsInv`: nobody waits at a semaphore that has a count. `SwitchInv`: a switch
  is only pending with the lock open and no interrupt active, it leads to the
  first ready task of the highest priority, and without one that task runs
  unless the running task is about to call OSSched. Each part needs the others:
  a post wakes the first in the list because the list is ordered, the scheduler
  finds a task because the idle task is never in another list, and a delay that
  ends is found at the head of its spoke because the time left to the tasks
  there ascends.
* `KernelTypes`, `KernelLists`, `KernelHighestRuns`, `KernelNoLostWakeup`: the
  invariants of `kernel_sched` and `kernel_time`, from `KInv`.
* `KernelImplementsService`: every step of the kernel is a step of
  `KernelService` or leaves its variables alone. A queue of the specification is
  what the pointers of a pend list spell, a number of ticks what is left until
  the match. The proof needs, besides `KInv`, that the application's tasks wait
  for semaphores only (`WaitsForSems`). A wait goes where the search loop stops,
  which is behind everyone of its priority or a higher one because the list is
  in order; a post that takes the head of the list, or every task in a row,
  takes the front of the queue (`ReleaseSeen`); a tick takes one from every
  number at once, because the time left ascends along the spoke and the loop
  therefore stops at nobody who is due (`TickTakesOne`), and the tasks whose
  timeout ends leave the others of their queues in order (`AllLeaveInOrder`).

The assumptions are those named in the modules: `LayoutAssumption`,
`ContentAssumption` (positive sizes, sectors of whole rows, distinct contents),
`RequestAssumption`, `CallAssumption`, `SessionAssumption` (the image begins at
a sector base and ends in the flash; sectors hold whole blocks),
`PlanAssumption` (the host addresses the device before it configures it, with an
address of 1 to 127, and changes the address only by a new enumeration),
`EndpointAssumption` (an answer to GETSTATUS is shorter than a packet and fits
the buffer), `HostKeepsTransferSize` (a host asks for and sends at most the
buffer's size at a time, which the device does not check), `PrioAssumption`,
`TaskListsAssumption` (finitely many tasks; a null pointer is no task) and
`KernelAssumption` (the tick task is above and the idle task below every other,
as `os_cfg.h` has it; times fit the tick counter; the names of semaphores,
spokes and interrupt handlers are not mistaken for one another or for null). The
LPC1788's values meet them; TLC evaluates them in the runs.

Only model-checked: liveness (`UpdateEnds`, `CallReturns`, `InterruptServed`,
`HandlerReturns`, `EnumerationEnds`, `DelayEnds`), which is out of the prover's
reach. Every invariant, action property and refinement of the passing runs is
also a theorem.

## 6. Where the code and its documentation part

With a run:

* `empty_claim`: Readme.md:10-11 has the bootloader run if the flash is empty
  at the application's address. The whole sector is checked (main.c:96): after
  an interrupted erase its start may be blank and be jumped to.
* `packet_claim`: Endpoint_LPC17xx.h:326 says when `Endpoint_IsOUTReceived` is
  true. ClearOUT clears the flag after it has freed the buffer, and a packet
  received in between is not seen (line 407).
* `stall_claim`: Events.h:234-235 says that unknown requests are stalled. A
  request the handler knows is stalled unread when it comes before the
  handler of the one before has returned (DeviceStandardReq.c:111).

That `BlockIntact` and `AckMeansServed` hold in `ep0_polling`, where both races
happen, is the other half of the result: a host that polls as DFU asks never
gets a mixed block written because of them. The GETSTATUS between two downloads
is what repairs the stale flag; without it (`Polls = FALSE`) TLC finds a block
shifted by a packet. Two more things TLC shows outside the conditions of the
runs, contradicting no line of the repository: an abandoned UPLOAD leaves
`isInReady` false, and the next one waits for it until a bus reset
(`HandlerReturns` with `MaxAborts = 1`); and an abandoned request may be
answered into the transfer that follows it (`AnswerIntact`, `AckMeansServed`
with `MaxAborts = 1`). So the hypotheses of the theorems of section 5 are not
only sufficient: `EpBlockIntact` needs a host that polls, `EpAnswerIntact` and
`EpAckMeansServed` one that gives nothing up.

Modelled as the code has it, without a run of their own:

* usb_task.c:36-38 says that `DFU_Status` is the status of the last executed
  command. A download whose data does not arrive in time (usb_task.c:98-107 and
  187-194), with a wValue of 1 or an unknown command byte is acknowledged and
  leaves the status of the command before: OK although nothing was written, or
  an old error. `OutcomeReported` exempts these, and `missed` in
  `DoneMeansImage` is there for the first of them.
* Readme.md:11-12 asks for the eight bytes `boot001\0` and a request of 1. Seven
  characters and any non-zero request do (main.c:80-88).
* A short packet sets `isInReady` when it is written, not when it was sent
  (Endpoint_LPC17xx.c:262, against Endpoint_LPC17xx.h:296).
* A SETUP packet received before a bus reset is served after it
  (Endpoint_LPC17xx.c:520 with the state Device.h:90-92 describes), and the
  configuration number survives the reset (DeviceStandardReq.c:194, against
  DeviceStandardReq.h:88-90). `stale` in `HostKnowsDevice` is there for this.
* SET_CONFIGURATION 0 leaves the device Configured (DeviceStandardReq.c:204,
  against Device.h:94-97, which has a device that is not configured Addressed).
  `HostKnowsDevice` speaks of the state only for other numbers.
* os_sem.c:62 promises OS_ERR_OBJ_CREATED for a semaphore that exists, and
  OS_ERR_OBJ_TYPE stands in the lists of every call. OSSemCreate has no such
  test (os_sem.c:109-116) and empties the pend list, and those of the other
  calls are compiled out (os_cfg.h:36, 61). `NobodyWaits` is there for the
  first; the second is how the model has it.
* The semaphore of a task does not count: that part of OSTaskSemPend and
  OSTaskSemPost is commented out (os_task.c:1231-1250 and 2239-2273). A tick
  that comes while the tick task is not waiting is lost, and OSTickCtr
  (os_tick.c:438) counts the runs of the tick task rather than ticks. A delay
  ends at its count all the same (`DelayEnds`, `ImplementsService`).
* A match in the past makes OSTimeDly return an error with the task in state
  DLY although it runs (os_time.c:125-133). `OSTimeDly_zero` models it; nothing
  that is checked breaks.

Seen in the code and not modelled: the tick interrupt is started before OSStart
(main.c:185, against os_cpu_c.c:379), and one that comes before the kernel runs
raises OSIntNestingCtr for good; the arithmetic of OSTimeDlyHMSM wraps for long
delays (os_time.c:301); OSTimeSet moves the tick counter under tasks that are
delayed (os_time.c:502); `main_os_lock` goes on after a timeout (main.c:221).

## 7. Faulty variants

Definitions whose names begin with `Faulty` are what a plausible mistake would
make of the definition after them: a return value not looked at, a flag or
offset not set back, a buffer read before it is filled. None is part of a
specification; each property has one that violates it.

## 8. What is not modelled

Most of the lines in `src/` are vendored and not compiled into the bootloader,
or compiled and not called: the NXP peripheral drivers, the host half and the
class drivers of nxpUSBLib, its other device controllers, the uC/LIB helpers,
and large parts of uC/OS-III. A model of them would be about other programs.
Of what the bootloader runs:

* In the kernel: message queues (`os_q.c`, `os_msg.c`), which no task uses;
  tasks created after the start; statistics; the conversion of OSTimeDlyHMSM;
  OSTimeSet; and what `os_cfg.h` leaves out.
* Descriptors, clock, USB controller and interrupt table set-up: constants and
  register settings that are written once, before anything runs concurrently.
* `utils_srv.c`: pure, and not used in an update.
* The semaphore wrappers of `main.c`, which only the missing debug module uses.
* `debug.c`, which the repository does not contain, and all logging.
* The contents an UPLOAD returns when the pointer is outside the flash.
* Transfers longer than the buffers. The functional descriptor announces 512
  bytes (Descriptors.c:66, dfu.h:11) and no line of usb_task.c compares wLength
  with it (91, 108, 180-203, 246; the check in Endpoint_LPC.h:217-221 is under
  `#if 0`): a longer download would run past `firmware_data`, a longer upload
  past `usb_data_buffer`, over whatever the linker put there. That hosts keep to
  the size is assumed (`HostKeepsTransferSize`, `UploadSizes` of `DfuDevice`).
* A semaphore that is created while tasks wait for it (`NobodyWaits`).

## 9. Plan

1. Done: the update from the boot decision to the flash (`FlashLayout`,
   `FlashDriver`, `IapDriver`, `DfuDevice`, `DfuSession`, `BootSystem`) with its
   abstract specifications and proofs; `ControlEndpoint`; `StandardRequests`;
   the kernel.
2. Done: every invariant, action property and refinement of the passing runs as
   a theorem.
3. Models: message queues over the kernel's pend lists; the start of the kernel
   with the first tick; the helper functions against reference definitions.
