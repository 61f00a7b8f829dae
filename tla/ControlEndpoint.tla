--------------------------- MODULE ControlEndpoint ---------------------------
(***************************************************************************)
(* Control transfers between a host and the DFU handler, packet by packet: *)
(* the USB task (USB_DeviceTask and EVENT_USB_Device_ControlRequest), the  *)
(* USB interrupt (SlaveEndpointISR), the endpoint 0 buffers of the USB     *)
(* controller, and a host.  The task and the interrupt share flags and the *)
(* controller's selected endpoint without a lock, so a step of the task is *)
(* one access to what they share; the interrupt runs between any two.      *)
(*                                                                         *)
(* Data is counted in units, PacketSize of them to a packet.  The unit     *)
(* <<t, j>> is the j-th of transfer t, in either direction.                *)
(***************************************************************************)
EXTENDS Integers, Sequences

CONSTANTS
    BufferSize,      \* USB_DATA_BUFFER_TEM_LENGTH and DFU_TRANSFER_SIZE
    PacketSize,      \* FIXED_CONTROL_ENDPOINT_SIZE
    DownloadSizes,   \* wLength of the DNLOAD requests (HostKeepsTransferSize)
    UploadSizes,     \* wLength of the UPLOAD requests
    StatusSize,      \* length of the answer to GETSTATUS, less than a packet
    MaxTransfers,    \* bound on transfers
    MaxAborts,       \* bound on transfers the host gives up
    MaxResets,       \* bound on bus resets
    Polls            \* the host polls GETSTATUS after a DNLOAD until it is answered

ASSUME EndpointAssumption ==
    /\ PacketSize \in Nat \ {0} /\ StatusSize \in 1 .. (PacketSize - 1)
    /\ BufferSize \in Nat /\ StatusSize <= BufferSize
    /\ DownloadSizes \subseteq Nat /\ UploadSizes \subseteq Nat
    /\ MaxTransfers \in Nat /\ MaxAborts \in Nat /\ MaxResets \in Nat /\ Polls \in BOOLEAN

\* What is asked of the host and enforced by nothing in the device.  The
\* functional descriptor names a transfer size of 512 (Descriptors.c:66,
\* dfu.h:11), and no line of usb_task.c compares wLength with it (the check in
\* Endpoint_Write_8, Endpoint_LPC.h:217-221, is under #if 0).  A longer
\* transfer would leave firmware_data or usb_data_buffer; it is not modelled.
ASSUME HostKeepsTransferSize ==
    DownloadSizes \subseteq 1 .. BufferSize /\ UploadSizes \subseteq 1 .. BufferSize

VARIABLES
    \* the host
    stage,         \* of its transfer: "idle", "out", "in", "status_in", "status_out"
    setup,         \* its last SETUP packet
    moved,         \* units of the data stage sent or received
    answer,        \* units received
    acked,         \* last transfer it saw complete
    aborts, resets,
    \* the controller (external)
    outBuf, inBuf, \* endpoint 0: packet received, packet to send
    inFifo,        \* what the driver wrote for the next packet to send
    sel,           \* endpoint selected in the serial interface engine
    outInt, inInt, \* interrupts pending
    stalled,       \* endpoint 0 answers STALL until the next SETUP packet
    \* the driver
    SETUPReceived, SetupPackage, isOutReceived, isInReady,
    usb_data_buffer, usb_data_buffer_index, usb_data_buffer_size,
    DataInRemainCount, DataInRemainOffset, shortpacket,
    \* the USB task
    pc, then, request, firmware_data, firmware_offset,
    served,        \* history: [transfer -> what the handler made of it]
    unread         \* history: a data packet is in the buffer, not yet read

host == <<stage, setup, moved, answer, acked, aborts, resets>>
controller == <<outBuf, inBuf, inFifo, sel, outInt, inInt, stalled>>
flags == <<SETUPReceived, SetupPackage, isOutReceived, isInReady>>
buffer == <<usb_data_buffer, usb_data_buffer_index, usb_data_buffer_size>>
remain == <<DataInRemainCount, DataInRemainOffset, shortpacket>>
task == <<pc, then, request, firmware_data, firmware_offset>>
epVars == <<host, controller, flags, buffer, remain, task, served, unread>>

RequestKinds == {"DNLOAD", "UPLOAD", "GETSTATUS", "CLRSTATUS"}
Setup(t, r, n) == [transfer |-> t, bRequest |-> r, wLength |-> n]
NoSetup == Setup(0, "CLRSTATUS", 0)

Free == [type |-> "free", data |-> <<>>]
SetupPacket == [type |-> "setup", data |-> <<>>]
DataPacket(data) == [type |-> "data", data |-> data]
NoPacket == [type |-> "none", data |-> <<>>]   \* nothing is valid for sending

Zero == <<0, 0>>
Beyond == <<0, 1>>   \* whatever lies behind the buffer
Units(t, first, last) == [i \in 1 .. (last - first + 1) |-> <<t, first + i - 1>>]
Least(a, b) == IF a < b THEN a ELSE b

\* Arrays from 0, as the code's buffers are.
Cleared == [i \in 0 .. (BufferSize - 1) |-> Zero]
Slice(array, at, n) ==
    [i \in 1 .. n |-> IF at + i - 1 \in DOMAIN array THEN array[at + i - 1] ELSE Beyond]
Overwrite(array, at, data) ==
    [i \in DOMAIN array |-> IF at <= i /\ i < at + Len(data) THEN data[i - at + 1] ELSE array[i]]

EpInit ==
    /\ stage = "idle" /\ setup = NoSetup /\ moved = 0 /\ answer = <<>>
    /\ acked = 0 /\ aborts = 0 /\ resets = 0
    /\ outBuf = Free /\ inBuf = NoPacket /\ inFifo = <<>>
    /\ sel = 0 /\ outInt = FALSE /\ inInt = FALSE /\ stalled = FALSE
    /\ SETUPReceived = FALSE /\ SetupPackage = NoSetup
    /\ isOutReceived = FALSE /\ isInReady = TRUE
    /\ usb_data_buffer = Cleared /\ usb_data_buffer_index = 0 /\ usb_data_buffer_size = 0
    /\ DataInRemainCount = 0 /\ DataInRemainOffset = 0 /\ shortpacket = FALSE
    /\ pc = "poll" /\ then = "poll" /\ request = NoSetup
    /\ firmware_data = Cleared /\ firmware_offset = 0
    /\ served = [t \in 1 .. MaxTransfers |-> "nothing"]
    /\ unread = FALSE

-----------------------------------------------------------------------------
(***************************************************************************)
(* The controller's answers to two commands of the driver.  CLR_BUF frees  *)
(* the buffer of the selected endpoint, but not over a SETUP packet the    *)
(* driver has not seen; VALID_BUF sends what was written, but not while a  *)
(* SETUP packet is in the other buffer.                                    *)
(***************************************************************************)
CMD_CLR_BUF ==
    outBuf' = IF sel = 0 /\ ~(outBuf = SetupPacket /\ outInt) THEN Free ELSE outBuf

CMD_VALID_BUF(selected, fifo) ==
    inBuf' = IF selected = 1 /\ outBuf # SetupPacket THEN DataPacket(fifo) ELSE inBuf

(***************************************************************************)
(* The host.  It sends a packet when the buffer is free (it is NAKed       *)
(* otherwise, and tries again), and takes one when there is one.           *)
(***************************************************************************)
FirstStage(r) == CASE r = "DNLOAD" -> "out"
                   [] r \in {"UPLOAD", "GETSTATUS"} -> "in"
                   [] OTHER -> "status_in"

PollDue == \/ setup.bRequest = "DNLOAD"
           \/ setup.bRequest = "GETSTATUS" /\ acked # setup.transfer

HostSetup(r, n) ==
    /\ stage = "idle" /\ setup.transfer < MaxTransfers
    /\ Polls /\ PollDue => r = "GETSTATUS"
    /\ setup' = Setup(setup.transfer + 1, r, n)
    /\ stage' = FirstStage(r)
    /\ moved' = 0 /\ answer' = <<>>
    /\ outBuf' = SetupPacket /\ outInt' = TRUE   \* whatever it held
    /\ inBuf' = NoPacket /\ stalled' = FALSE
    /\ UNCHANGED <<acked, aborts, resets, inFifo, sel, inInt, flags, buffer, remain, task, served, unread>>

HostOut ==
    /\ stage = "out" /\ outBuf = Free /\ ~stalled
    /\ moved' = Least(moved + PacketSize, setup.wLength)
    /\ outBuf' = DataPacket(Units(setup.transfer, moved + 1, moved'))
    /\ outInt' = TRUE
    /\ stage' = IF moved' = setup.wLength THEN "status_in" ELSE "out"
    /\ UNCHANGED <<setup, answer, acked, aborts, resets, inBuf, inFifo, sel, inInt, stalled, flags, buffer,
                   remain, task, served, unread>>

\* Data or, in the status stage, an empty packet.  Anything else there ends
\* the transfer without success.
HostIn ==
    /\ stage \in {"in", "status_in"} /\ inBuf # NoPacket /\ ~stalled
    /\ inBuf' = NoPacket /\ inInt' = TRUE
    /\ IF stage = "in"
       THEN /\ answer' = answer \o inBuf.data
            /\ moved' = moved + Len(inBuf.data)
            /\ stage' = IF Len(inBuf.data) < PacketSize \/ moved' >= setup.wLength
                        THEN "status_out" ELSE "in"
            /\ UNCHANGED acked
       ELSE /\ stage' = "idle"
            /\ acked' = IF inBuf.data = <<>> THEN setup.transfer ELSE acked
            /\ UNCHANGED <<answer, moved>>
    /\ UNCHANGED <<setup, aborts, resets, outBuf, inFifo, sel, outInt, stalled, flags, buffer, remain, task,
                   served, unread>>

HostStatusOut ==
    /\ stage = "status_out" /\ outBuf = Free /\ ~stalled
    /\ outBuf' = DataPacket(<<>>) /\ outInt' = TRUE
    /\ stage' = "idle" /\ acked' = setup.transfer
    /\ UNCHANGED <<setup, moved, answer, aborts, resets, inBuf, inFifo, sel, inInt, stalled, flags, buffer,
                   remain, task, served, unread>>

HostStalled ==
    /\ stage # "idle" /\ stalled
    /\ stage' = "idle"
    /\ UNCHANGED <<setup, moved, answer, acked, aborts, resets, controller, flags, buffer, remain, task,
                   served, unread>>

\* The host gives up waiting; its next SETUP packet tells the device.
HostAbort ==
    /\ stage # "idle" /\ aborts < MaxAborts
    /\ stage' = "idle" /\ aborts' = aborts + 1
    /\ UNCHANGED <<setup, moved, answer, acked, resets, controller, flags, buffer, remain, task,
                   served, unread>>

-----------------------------------------------------------------------------
(***************************************************************************)
(* The interrupt: SlaveEndpointISR, its two branches.  Acknowledging the   *)
(* interrupt of an endpoint selects that endpoint.                         *)
(***************************************************************************)

\* Faulty: the offset is never set back.
FaultyWritePacket(at, cnt) ==
    LET count == Least(cnt, PacketSize) IN
    /\ inFifo' = Slice(usb_data_buffer, at, count)
    /\ isInReady' = (cnt < PacketSize)
    /\ DataInRemainCount' = cnt - count
    /\ DataInRemainOffset' = DataInRemainOffset + count

\* Faulty: what remains is counted in whole packets.
FaultyRemainCount(at, cnt) ==
    /\ inFifo' = Slice(usb_data_buffer, at, Least(cnt, PacketSize))
    /\ isInReady' = (cnt < PacketSize)
    /\ DataInRemainCount' = cnt - PacketSize
    /\ DataInRemainOffset' = IF cnt >= PacketSize THEN DataInRemainOffset + PacketSize ELSE 0

\* WriteControlEndpoint up to the two commands: the counters, the flags, and
\* the packet.  `ready' is what is left in isInReady.
WritePacket(at, cnt) ==
    LET count == Least(cnt, PacketSize) IN
    /\ inFifo' = Slice(usb_data_buffer, at, count)
    /\ isInReady' = (cnt < PacketSize)
    /\ DataInRemainCount' = cnt - count
    /\ DataInRemainOffset' = IF cnt >= PacketSize THEN DataInRemainOffset + count ELSE 0

IsrSetup ==
    /\ outInt /\ outBuf = SetupPacket
    /\ outInt' = FALSE /\ sel' = 0
    /\ SETUPReceived' = TRUE /\ SetupPackage' = setup
    /\ usb_data_buffer_size' = 8
    /\ unread' = FALSE
    /\ UNCHANGED <<host, outBuf, inBuf, inFifo, inInt, stalled, isOutReceived, isInReady,
                   usb_data_buffer, usb_data_buffer_index, remain, task, served>>

IsrOut ==
    /\ outInt /\ outBuf # SetupPacket
    /\ outInt' = FALSE /\ sel' = 0
    /\ usb_data_buffer' = Overwrite(usb_data_buffer, 0, outBuf.data)
    /\ usb_data_buffer_size' = Len(outBuf.data)
    /\ isOutReceived' = (isOutReceived \/ (outBuf.data # <<>> /\ ~SETUPReceived))
    /\ unread' = (unread \/ outBuf.data # <<>>)
    /\ UNCHANGED <<host, outBuf, inBuf, inFifo, inInt, stalled, SETUPReceived, SetupPackage, isInReady,
                   usb_data_buffer_index, remain, task, served>>

\* The packet was sent: the rest of the answer, or the empty packet after a
\* full last one.
IsrIn ==
    /\ inInt /\ ~outInt
    /\ inInt' = FALSE /\ sel' = 1
    /\ IF DataInRemainCount > 0 \/ shortpacket
       THEN /\ WritePacket(DataInRemainOffset, DataInRemainCount)
            /\ CMD_VALID_BUF(1, inFifo')
            /\ shortpacket' = (DataInRemainCount = PacketSize
                                  \/ (DataInRemainCount > 0 /\ shortpacket))
       ELSE /\ isInReady' = TRUE
            /\ UNCHANGED <<inFifo, inBuf, DataInRemainCount, DataInRemainOffset, shortpacket>>
    /\ UNCHANGED <<host, outBuf, outInt, stalled, SETUPReceived, SetupPackage, isOutReceived, buffer,
                   task, served, unread>>

\* A bus reset, by a host that got no answer: HAL_Reset and the configuration
\* of endpoint 0, in the interrupt.
BusReset ==
    /\ stage = "idle" /\ resets < MaxResets /\ resets' = resets + 1
    /\ outBuf' = Free /\ inBuf' = NoPacket /\ outInt' = FALSE /\ inInt' = FALSE
    /\ stalled' = FALSE /\ isOutReceived' = FALSE /\ isInReady' = TRUE
    /\ usb_data_buffer_size' = 0 /\ usb_data_buffer_index' = 0
    /\ DataInRemainCount' = 0 /\ DataInRemainOffset' = 0
    /\ unread' = FALSE
    /\ UNCHANGED <<stage, setup, moved, answer, acked, aborts, inFifo, sel, SETUPReceived, SetupPackage,
                   usb_data_buffer, shortpacket, task, served>>

Host == \/ \E n \in DownloadSizes : HostSetup("DNLOAD", n)
        \/ \E n \in UploadSizes : HostSetup("UPLOAD", n)
        \/ HostSetup("GETSTATUS", StatusSize) \/ HostSetup("CLRSTATUS", 0)
        \/ HostOut \/ HostIn \/ HostStatusOut \/ HostStalled \/ HostAbort

Interrupt == IsrSetup \/ IsrOut \/ IsrIn

-----------------------------------------------------------------------------
(***************************************************************************)
(* The USB task.  A pending interrupt preempts it.                         *)
(***************************************************************************)
At(label) == pc = label /\ ~outInt /\ ~inInt

\* USB_DeviceTask finds the flag and USB_Device_ProcessControlRequest copies
\* the packet.
Poll ==
    /\ At("poll") /\ SETUPReceived
    /\ request' = SetupPackage
    /\ pc' = "setup" /\ then' = "handle"
    /\ UNCHANGED <<host, controller, flags, buffer, remain, firmware_data, firmware_offset,
                   served, unread>>

\* Endpoint_ClearSETUP: the flag and the selection, then the command.  The
\* handler's branch follows.  The second caller is Return.
ClearSETUP ==
    /\ At("setup")
    /\ SETUPReceived' = FALSE /\ sel' = 0
    /\ usb_data_buffer_index' = 0 /\ usb_data_buffer_size' = 0
    /\ pc' = "setup_clr"
    /\ served' = IF then = "stall"
                 THEN [served EXCEPT ![SetupPackage.transfer] = "stalled"] ELSE served
    /\ UNCHANGED <<host, outBuf, inBuf, inFifo, outInt, inInt, stalled, SetupPackage,
                   isOutReceived, isInReady, usb_data_buffer, remain, then, request,
                   firmware_data, firmware_offset, unread>>

FirstStep(r) == CASE r = "DNLOAD" -> "wait"
                  [] r = "UPLOAD" -> "in_wait"
                  [] r = "GETSTATUS" -> "in_load"
                  [] OTHER -> "in_write"

ClearSETUP_CLR_BUF ==
    /\ At("setup_clr")
    /\ CMD_CLR_BUF
    /\ served' = IF then = "handle" /\ request.bRequest = "CLRSTATUS"
                 THEN [served EXCEPT ![request.transfer] = "cleared"] ELSE served
    /\ IF then = "stall"
       THEN /\ pc' = "stall"
            /\ UNCHANGED <<firmware_data, firmware_offset>>
       ELSE /\ pc' = FirstStep(request.bRequest)
            /\ firmware_data' = IF request.bRequest = "DNLOAD" THEN Cleared ELSE firmware_data
            /\ firmware_offset' = 0
    /\ UNCHANGED <<host, inBuf, inFifo, sel, outInt, inInt, stalled, flags, buffer, remain,
                   then, request, unread>>

\* Endpoint_WaitUntilReady on the OUT side: the flag is looked at, then (in
\* Endpoint_IsStalled) the endpoint is selected, then the frames are counted.
WaitUntilReady ==
    /\ At("wait")
    /\ IF isOutReceived
       THEN pc' = "read" /\ UNCHANGED sel
       ELSE pc' = "waiting" /\ sel' = 0
    /\ UNCHANGED <<host, outBuf, inBuf, inFifo, outInt, inInt, stalled, flags, buffer, remain,
                   then, request, firmware_data, firmware_offset, served, unread>>

WaitAgain ==
    /\ At("waiting")
    /\ pc' = "wait"
    /\ UNCHANGED <<host, controller, flags, buffer, remain, then, request, firmware_data,
                   firmware_offset, served, unread>>

\* Faulty: the time that is up is not reported.
FaultyWaitTimeout ==
    /\ At("waiting")
    /\ pc' = "wait"
    /\ served' = [served EXCEPT ![request.transfer] = "missed"]
    /\ UNCHANGED <<host, controller, flags, buffer, remain, then, request, firmware_data,
                   firmware_offset, unread>>

WaitTimeout ==
    /\ At("waiting")
    /\ pc' = "out" /\ then' = "in_write"
    /\ served' = [served EXCEPT ![request.transfer] = "missed"]
    /\ UNCHANGED <<host, controller, flags, buffer, remain, request, firmware_data,
                   firmware_offset, unread>>

\* Endpoint_Read_Stream_LE: what the request still asks for, a packet at
\* most, whatever the packet in the buffer is, unless the buffer is empty.
Read ==
    LET toread == Least(PacketSize, request.wLength - firmware_offset) IN
    /\ At("read")
    /\ IF usb_data_buffer_size = 0
       THEN UNCHANGED <<firmware_data, usb_data_buffer_index, usb_data_buffer_size, unread>>
       ELSE /\ firmware_data' = Overwrite(firmware_data, firmware_offset,
                                     Slice(usb_data_buffer, usb_data_buffer_index, toread))
            /\ usb_data_buffer_index' = usb_data_buffer_index + toread
            /\ usb_data_buffer_size' = usb_data_buffer_size - toread
            /\ unread' = FALSE
    /\ firmware_offset' = firmware_offset + toread
    /\ pc' = "out"
    /\ then' = IF firmware_offset' < request.wLength THEN "wait" ELSE "write"
    /\ UNCHANGED <<host, controller, flags, usb_data_buffer, remain, request, served>>

\* Endpoint_ClearOUT, then what follows it.
ClearOUT ==
    /\ At("out")
    /\ usb_data_buffer_index' = 0 /\ sel' = 0
    /\ pc' = "out_clr"
    /\ UNCHANGED <<host, outBuf, inBuf, inFifo, outInt, inInt, stalled, flags, usb_data_buffer,
                   usb_data_buffer_size, remain, then, request, firmware_data,
                   firmware_offset, served, unread>>

ClearOUT_CLR_BUF ==
    /\ At("out_clr")
    /\ CMD_CLR_BUF
    /\ pc' = "out_flag"
    /\ UNCHANGED <<host, inBuf, inFifo, sel, outInt, inInt, stalled, flags, buffer, remain,
                   then, request, firmware_data, firmware_offset, served, unread>>

\* Faulty: the flag stays up.
FaultyClearOUT_flag ==
    /\ At("out_flag")
    /\ pc' = then
    /\ UNCHANGED <<host, controller, flags, buffer, remain, then, request, firmware_data,
                   firmware_offset, served, unread>>

ClearOUT_flag ==
    /\ At("out_flag")
    /\ isOutReceived' = FALSE
    /\ pc' = then
    /\ UNCHANGED <<host, controller, SETUPReceived, SetupPackage, isInReady, buffer, remain,
                   then, request, firmware_data, firmware_offset, served, unread>>

\* iap_write of the block, with interrupts off; then ClearOUT once more and
\* the status stage.
Write ==
    /\ At("write")
    /\ served' = [served EXCEPT ![request.transfer] = "written"]
    /\ pc' = "out" /\ then' = "in_write"
    /\ UNCHANGED <<host, controller, flags, buffer, remain, request, firmware_data,
                   firmware_offset, unread>>

\* UPLOAD waits for the IN side, without a timeout.
WaitINReady ==
    /\ At("in_wait") /\ isInReady
    /\ pc' = "in_load"
    /\ UNCHANGED <<host, controller, flags, buffer, remain, then, request, firmware_data,
                   firmware_offset, served, unread>>

\* The answer of UPLOAD or GETSTATUS into the buffer.
Load ==
    /\ At("in_load")
    /\ usb_data_buffer' = Overwrite(usb_data_buffer, usb_data_buffer_index,
                              Units(request.transfer, 1, request.wLength))
    /\ usb_data_buffer_index' = usb_data_buffer_index + request.wLength
    /\ served' = [served EXCEPT ![request.transfer] = "answered"]
    /\ pc' = "in_write"
    /\ UNCHANGED <<host, controller, flags, usb_data_buffer_size, remain, then, request,
                   firmware_data, firmware_offset, unread>>

\* Endpoint_ClearIN: for an answer, or as the status stage of a request
\* without one.  The status stage of an answer is a ClearOUT.
ClearIN ==
    /\ At("in_write")
    /\ WritePacket(0, usb_data_buffer_index)
    /\ shortpacket' = (shortpacket \/ usb_data_buffer_index = PacketSize)
    /\ pc' = "in_sel"
    /\ UNCHANGED <<host, outBuf, inBuf, sel, outInt, inInt, stalled, SETUPReceived,
                   SetupPackage, isOutReceived, buffer, then, request, firmware_data,
                   firmware_offset, served, unread>>

ClearIN_SEL_EP ==
    /\ At("in_sel")
    /\ sel' = 1
    /\ pc' = "in_valid"
    /\ UNCHANGED <<host, outBuf, inBuf, inFifo, outInt, inInt, stalled, flags, buffer, remain,
                   then, request, firmware_data, firmware_offset, served, unread>>

ClearIN_VALID_BUF ==
    /\ At("in_valid")
    /\ CMD_VALID_BUF(sel, inFifo)
    /\ usb_data_buffer_index' = 0 /\ usb_data_buffer_size' = 0
    /\ IF request.bRequest \in {"UPLOAD", "GETSTATUS"}
       THEN pc' = "out" /\ then' = "return"
       ELSE pc' = "return" /\ UNCHANGED then
    /\ UNCHANGED <<host, outBuf, inFifo, sel, outInt, inInt, stalled, flags, usb_data_buffer,
                   remain, request, firmware_data, firmware_offset, served, unread>>

\* Faulty: the handler is called again, for the packet it already has.
FaultyReturn ==
    /\ At("return")
    /\ IF SETUPReceived
       THEN pc' = "setup" /\ then' = "handle"
       ELSE pc' = "poll" /\ UNCHANGED then
    /\ UNCHANGED <<host, controller, flags, buffer, remain, request, firmware_data,
                   firmware_offset, served, unread>>

\* Back in USB_Device_ProcessControlRequest: a SETUP packet that has come in
\* the meantime is taken for one that nobody handled.
Return ==
    /\ At("return")
    /\ IF SETUPReceived
       THEN pc' = "setup" /\ then' = "stall"
       ELSE pc' = "poll" /\ UNCHANGED then
    /\ UNCHANGED <<host, controller, flags, buffer, remain, request, firmware_data,
                   firmware_offset, served, unread>>

\* A conditional stall: not over a SETUP packet.
Endpoint_StallTransaction ==
    /\ At("stall")
    /\ stalled' = (outBuf # SetupPacket)
    /\ pc' = "poll"
    /\ UNCHANGED <<host, outBuf, inBuf, inFifo, sel, outInt, inInt, flags, buffer, remain,
                   then, request, firmware_data, firmware_offset, served, unread>>

Task ==
    \/ Poll \/ ClearSETUP \/ ClearSETUP_CLR_BUF
    \/ WaitUntilReady \/ WaitAgain \/ WaitTimeout \/ Read \/ Write
    \/ ClearOUT \/ ClearOUT_CLR_BUF \/ ClearOUT_flag
    \/ WaitINReady \/ Load \/ ClearIN \/ ClearIN_SEL_EP \/ ClearIN_VALID_BUF
    \/ Return \/ Endpoint_StallTransaction

EpNext == Host \/ Interrupt \/ BusReset \/ Task
EpSpec == EpInit /\ [][EpNext]_epVars

\* The processor takes its interrupts, the USB task runs, and the frames of
\* the bus, which the timeout counts, go on, whatever the host does.
FairEp == EpSpec /\ WF_epVars(Interrupt) /\ WF_epVars(Task) /\ SF_epVars(WaitTimeout)

-----------------------------------------------------------------------------
Labels == {"poll", "setup", "setup_clr", "wait", "waiting", "read", "out", "out_clr",
           "out_flag", "write", "in_wait", "in_load", "in_write", "in_sel", "in_valid",
           "return", "stall"}

Fates == {"nothing", "written", "missed", "answered", "cleared", "stalled"}

EpTypeOK ==
    /\ stage \in {"idle", "out", "in", "status_in", "status_out"}
    /\ {setup, SetupPackage, request} \subseteq
          [transfer : 0 .. MaxTransfers, bRequest : RequestKinds, wLength : 0 .. BufferSize]
    /\ sel \in {0, 1} /\ pc \in Labels /\ then \in Labels \cup {"handle"}
    /\ served \in [1 .. MaxTransfers -> Fates]
    /\ usb_data_buffer_index \in 0 .. BufferSize
    /\ DataInRemainCount \in 0 .. BufferSize

(***************************************************************************)
(* With a host that keeps to the transfer size it is told (the assumption  *)
(* HostKeepsTransferSize, which the device does not check), neither array  *)
(* is left because of the packets, stale flags and resets that come in the *)
(* middle of a handler: the index into usb_data_buffer is back at 0 before *)
(* anything is read or written there, and a download asks for another      *)
(* packet only while less than wLength is in firmware_data                 *)
(* (Endpoint_Read_Stream_LE, Endpoint_Write_Control_Stream_LE).            *)
(***************************************************************************)
Downloading ==
    \/ pc \in {"wait", "waiting", "read"}
    \/ pc \in {"out", "out_clr", "out_flag"} /\ then = "wait"

BuffersKept ==
    /\ pc \notin {"out", "in_write", "in_sel", "in_valid"} => usb_data_buffer_index = 0
    /\ \A p \in {setup, SetupPackage, request} : p.bRequest = "DNLOAD" => p.wLength > 0
    /\ Downloading => firmware_offset \in Nat /\ firmware_offset < request.wLength
    /\ pc \in {"out", "out_clr", "out_flag"} => then \in {"wait", "write", "in_write", "return"}

EpInv == EpTypeOK /\ BuffersKept

(***************************************************************************)
(* A block goes to the flash whole and in order: the packets of one        *)
(* transfer, each at its place, although no packet says which one it is    *)
(* and the task and the interrupt share one buffer and one flag, and even  *)
(* if the host gives up and starts over.  A bus reset in the middle of a   *)
(* handler may leave it with a block it never received (HAL_Reset empties  *)
(* the buffer and the handler goes on), but not in a transfer the host is  *)
(* still in.                                                               *)
(***************************************************************************)
Wanted == stage # "idle" /\ request.transfer = setup.transfer

BlockIntact ==
    pc = "write" /\ (resets = 0 \/ Wanted) =>
       \A i \in 1 .. request.wLength : firmware_data[i - 1] = <<request.transfer, i>>

(***************************************************************************)
(* What the host has received of an answer is a prefix of that answer: no  *)
(* packet twice, from a wrong offset of the buffer, or left over from the  *)
(* transfer before.                                                        *)
(***************************************************************************)
AnswerIntact ==
    \A i \in 1 .. Len(answer) : answer[i] = <<setup.transfer, i>>

(***************************************************************************)
(* A transfer the host saw complete is one its own handler dealt with: the *)
(* empty packet of a status stage never comes from the handler before, or  *)
(* before the handler has got to the request.                              *)
(***************************************************************************)
AckMeansServed == acked > 0 => served[acked] \notin {"nothing", "stalled"}

(***************************************************************************)
(* Every handler ends: no combination of packets, timeouts and flags keeps *)
(* the USB task from polling again.                                        *)
(***************************************************************************)
HandlerReturns == pc # "poll" ~> pc = "poll"

(***************************************************************************)
(* Endpoint_LPC17xx.h:322-326 says that Endpoint_IsOUTReceived returns     *)
(* true if the endpoint has received an OUT packet, and false otherwise.   *)
(* Here, where the handler of a download asks: a packet in the buffer that *)
(* was not read yet is one the flag shows.                                 *)
(***************************************************************************)
PacketIsSeen == At("wait") /\ unread => isOutReceived

(***************************************************************************)
(* Events.h:234-235 says that requests that are unknown, to the            *)
(* application as to the library, are stalled.  The handler knows every    *)
(* request made here.                                                      *)
(***************************************************************************)
OnlyUnknownStalled == \A t \in 1 .. MaxTransfers : served[t] # "stalled"
=============================================================================
