------------------------ MODULE ControlEndpoint_proofs ------------------------
(***************************************************************************)
(* The control endpoint for every size of packet and buffer, any number of *)
(* transfers and of bus resets, and a host whose transfers fit the buffer  *)
(* (HostKeepsTransferSize: the device does not check it).  Whatever else   *)
(* such a host does, neither usb_data_buffer nor firmware_data is left     *)
(* (EpInvariant).  If it polls, as DFU asks, a block goes to the flash     *)
(* whole (EpBlockIntact); if it never gives a transfer up, an answer       *)
(* arrives as it was made (EpAnswerIntact) and nothing is acknowledged     *)
(* that was not dealt with (EpAckMeansServed).                             *)
(*                                                                         *)
(* The task and the interrupt share the index, the flags and the selected  *)
(* endpoint; each invariant says, label by label, what the one may rely on *)
(* although the other runs between any two of its steps.                   *)
(***************************************************************************)
EXTENDS ControlEndpoint, TLAPS

SetupPackets == [transfer : 0 .. MaxTransfers, bRequest : RequestKinds, wLength : 0 .. BufferSize]

LEMMA LeastOf ==
  ASSUME NEW a \in Nat, NEW b \in Nat
  PROVE  Least(a, b) \in Nat /\ Least(a, b) <= a /\ Least(a, b) <= b
BY DEF Least

LEMMA EpStart == EpInit => EpInv
<1> SUFFICES ASSUME EpInit PROVE EpInv
  OBVIOUS
<1>1. NoSetup \in SetupPackets /\ NoSetup.bRequest # "DNLOAD"
  BY EndpointAssumption DEF NoSetup, Setup, SetupPackets, RequestKinds
<1>2. EpTypeOK
  BY <1>1, EndpointAssumption DEF EpInit, EpTypeOK, SetupPackets, Labels, Fates
<1>3. BuffersKept
  BY <1>1 DEF EpInit, BuffersKept, Downloading
<1> QED BY <1>2, <1>3 DEF EpInv

-----------------------------------------------------------------------------
(* The host and the interrupt. *)

\* What the host does to the driver's variables: nothing.
LEMMA HostOnly ==
  ASSUME EpInv, UNCHANGED <<setup, sel, flags, buffer, remain, task, served>>,
         stage' \in {"idle", "out", "in", "status_in", "status_out"}
  PROVE  EpInv'
BY DEF EpInv, EpTypeOK, BuffersKept, Downloading, flags, buffer, remain, task

LEMMA HostSetupKeeps ==
  ASSUME EpInv, NEW r \in RequestKinds, NEW n \in 0 .. BufferSize, r = "DNLOAD" => n > 0, HostSetup(r, n)
  PROVE  EpInv'
<1>1. setup' \in SetupPackets /\ (setup'.bRequest = "DNLOAD" => setup'.wLength > 0)
  BY EndpointAssumption DEF HostSetup, Setup, SetupPackets, EpInv, EpTypeOK
<1>2. stage' \in {"idle", "out", "in", "status_in", "status_out"}
  BY DEF HostSetup, FirstStage
<1>3. EpTypeOK'
  BY <1>1, <1>2 DEF HostSetup, SetupPackets, EpInv, EpTypeOK, flags, buffer, remain, task
<1>4. BuffersKept'
  BY <1>1 DEF HostSetup, EpInv, BuffersKept, Downloading, flags, buffer, task
<1> QED BY <1>3, <1>4 DEF EpInv

LEMMA HostKeeps == ASSUME EpInv, Host PROVE EpInv'
<1>1. ASSUME NEW n \in DownloadSizes, HostSetup("DNLOAD", n) PROVE EpInv'
  BY <1>1, HostSetupKeeps, HostKeepsTransferSize, EndpointAssumption DEF RequestKinds
<1>2. ASSUME NEW n \in UploadSizes, HostSetup("UPLOAD", n) PROVE EpInv'
  BY <1>2, HostSetupKeeps, HostKeepsTransferSize, EndpointAssumption DEF RequestKinds
<1>3. CASE HostSetup("GETSTATUS", StatusSize)
  BY <1>3, HostSetupKeeps, EndpointAssumption DEF RequestKinds
<1>4. CASE HostSetup("CLRSTATUS", 0)
  BY <1>4, HostSetupKeeps, EndpointAssumption DEF RequestKinds
<1>5. CASE HostOut
  BY <1>5, HostOnly DEF HostOut
<1>6. CASE HostIn
  BY <1>6, HostOnly DEF HostIn
<1>7. CASE HostStatusOut
  BY <1>7, HostOnly DEF HostStatusOut
<1>8. CASE HostStalled \/ HostAbort
  BY <1>8, HostOnly DEF HostStalled, HostAbort, controller
<1> QED BY <1>1, <1>2, <1>3, <1>4, <1>5, <1>6, <1>7, <1>8 DEF Host

LEMMA WritePacketKeeps ==
  ASSUME NEW at, NEW cnt \in 0 .. BufferSize, WritePacket(at, cnt)
  PROVE  DataInRemainCount' \in 0 .. BufferSize
<1>1. Least(cnt, PacketSize) \in Nat /\ Least(cnt, PacketSize) <= cnt
  BY LeastOf, EndpointAssumption
<1> QED BY <1>1, EndpointAssumption DEF WritePacket

LEMMA InterruptKeeps == ASSUME EpInv, Interrupt \/ BusReset PROVE EpInv'
<1>1. CASE IsrSetup
  BY <1>1 DEF IsrSetup, EpInv, EpTypeOK, BuffersKept, Downloading, host, remain, task
<1>2. CASE IsrOut
  BY <1>2 DEF IsrOut, EpInv, EpTypeOK, BuffersKept, Downloading, host, remain, task
<1>3. CASE IsrIn
  <2>1. DataInRemainCount' \in 0 .. BufferSize
    BY <1>3, WritePacketKeeps DEF IsrIn, EpInv, EpTypeOK
  <2> QED
    BY <1>3, <2>1 DEF IsrIn, EpInv, EpTypeOK, BuffersKept, Downloading, host, buffer, task
<1>4. CASE BusReset
  BY <1>4, EndpointAssumption DEF BusReset, EpInv, EpTypeOK, BuffersKept, Downloading, task
<1> QED BY <1>1, <1>2, <1>3, <1>4 DEF Interrupt

-----------------------------------------------------------------------------
(* The task, by the part of a handler. *)

LEMMA FateKeeps ==
  ASSUME NEW f \in [1 .. MaxTransfers -> Fates], NEW t, NEW fate \in Fates
  PROVE  [f EXCEPT ![t] = fate] \in [1 .. MaxTransfers -> Fates]
OBVIOUS

LEMMA SetupPartKeeps ==
  ASSUME EpInv, Poll \/ ClearSETUP \/ ClearSETUP_CLR_BUF \/ Return \/ Endpoint_StallTransaction
  PROVE  EpInv'
<1> USE DEF EpInv, EpTypeOK, BuffersKept, Downloading, At, Labels, host, controller, flags, buffer, remain
<1>1. CASE Poll
  BY <1>1 DEF Poll
<1>2. CASE ClearSETUP
  BY <1>2, FateKeeps, EndpointAssumption DEF ClearSETUP, Fates
<1>3. CASE ClearSETUP_CLR_BUF
  <2>1. served' \in [1 .. MaxTransfers -> Fates]
    BY <1>3, FateKeeps DEF ClearSETUP_CLR_BUF, Fates
  <2>2. pc' \in {"stall", "wait", "in_wait", "in_load", "in_write"}
        /\ (pc' = "wait" => request.bRequest = "DNLOAD" /\ firmware_offset' = 0)
    BY <1>3 DEF ClearSETUP_CLR_BUF, FirstStep
  <2> QED BY <1>3, <2>1, <2>2 DEF ClearSETUP_CLR_BUF
<1>4. CASE Return
  BY <1>4 DEF Return
<1>5. CASE Endpoint_StallTransaction
  BY <1>5 DEF Endpoint_StallTransaction
<1> QED BY <1>1, <1>2, <1>3, <1>4, <1>5

LEMMA ReadKeeps == ASSUME EpInv, Read PROVE EpInv'
<1> DEFINE toread == Least(PacketSize, request.wLength - firmware_offset)
<1>1. pc = "read"
  BY DEF Read, At
<1>2. request.wLength \in 0 .. BufferSize
  BY DEF EpInv, EpTypeOK
<1>3. firmware_offset \in Nat /\ firmware_offset < request.wLength /\ usb_data_buffer_index = 0
  BY <1>1 DEF EpInv, BuffersKept, Downloading
<1>4. toread \in Nat /\ firmware_offset + toread <= request.wLength /\ toread <= BufferSize
  <2>1. PacketSize \in Nat /\ BufferSize \in Nat /\ request.wLength - firmware_offset \in Nat
    BY <1>2, <1>3, EndpointAssumption
  <2>2. toread \in Nat /\ toread <= request.wLength - firmware_offset
    BY <2>1, LeastOf
  <2> HIDE DEF toread
  <2> QED BY <1>2, <1>3, <2>1, <2>2
<1>5. usb_data_buffer_index' \in 0 .. BufferSize /\ firmware_offset' = firmware_offset + toread
  BY <1>3, <1>4, EndpointAssumption DEF Read
<1>6. request' = request /\ (then' = "wait" => firmware_offset' < request.wLength)
  BY DEF Read
<1> HIDE DEF toread
<1>7. EpTypeOK'
  BY <1>5 DEF Read, EpInv, EpTypeOK, Labels, host, controller, flags, remain
<1>8. BuffersKept'
  BY <1>3, <1>4, <1>5, <1>6 DEF Read, EpInv, BuffersKept, Downloading, host, flags
<1> QED BY <1>7, <1>8 DEF EpInv

LEMMA DownloadKeeps ==
  ASSUME EpInv,
         WaitUntilReady \/ WaitAgain \/ WaitTimeout \/ Write
         \/ ClearOUT \/ ClearOUT_CLR_BUF \/ ClearOUT_flag
  PROVE  EpInv'
<1> USE DEF EpInv, EpTypeOK, BuffersKept, Downloading, At, Labels, host, controller, flags, buffer, remain
<1>1. CASE WaitUntilReady
  BY <1>1 DEF WaitUntilReady
<1>2. CASE WaitAgain
  BY <1>2 DEF WaitAgain
<1>3. CASE WaitTimeout
  BY <1>3, FateKeeps DEF WaitTimeout, Fates
<1>4. CASE Write
  BY <1>4, FateKeeps DEF Write, Fates
<1>5. CASE ClearOUT
  BY <1>5, EndpointAssumption DEF ClearOUT
<1>6. CASE ClearOUT_CLR_BUF
  BY <1>6 DEF ClearOUT_CLR_BUF
<1>7. CASE ClearOUT_flag
  BY <1>7 DEF ClearOUT_flag
<1> QED BY <1>1, <1>2, <1>3, <1>4, <1>5, <1>6, <1>7

LEMMA AnswerKeeps ==
  ASSUME EpInv, WaitINReady \/ Load \/ ClearIN \/ ClearIN_SEL_EP \/ ClearIN_VALID_BUF
  PROVE  EpInv'
<1> USE DEF EpInv, EpTypeOK, BuffersKept, Downloading, At, Labels, host, controller, flags, buffer, remain
<1>1. CASE WaitINReady
  BY <1>1 DEF WaitINReady
<1>2. CASE Load
  <2>1. usb_data_buffer_index' \in 0 .. BufferSize
    BY <1>2, EndpointAssumption DEF Load
  <2> QED BY <1>2, <2>1, FateKeeps DEF Load, Fates
<1>3. CASE ClearIN
  <2>1. DataInRemainCount' \in 0 .. BufferSize
    BY <1>3, WritePacketKeeps DEF ClearIN
  <2> QED BY <1>3, <2>1 DEF ClearIN
<1>4. CASE ClearIN_SEL_EP
  BY <1>4 DEF ClearIN_SEL_EP
<1>5. CASE ClearIN_VALID_BUF
  BY <1>5, EndpointAssumption DEF ClearIN_VALID_BUF
<1> QED BY <1>1, <1>2, <1>3, <1>4, <1>5

-----------------------------------------------------------------------------
(***************************************************************************)
(* The invariant of the buffers (Endpoint_LPC17xx.c, Endpoint_LPC.c and    *)
(* EndpointStream_LPC.c, as the DFU handler calls them), for transfers no  *)
(* longer than the size the host is told: stale flags, late packets,       *)
(* aborts and resets then lead no index out of its array.                  *)
(***************************************************************************)
THEOREM EpInvariant == EpSpec => []EpInv
<1>1. EpInv /\ UNCHANGED epVars => EpInv'
  BY HostOnly DEF epVars, host, controller, EpInv, EpTypeOK
<1>2. EpInv /\ Task => EpInv'
  BY SetupPartKeeps, ReadKeeps, DownloadKeeps, AnswerKeeps DEF Task
<1>3. EpInv /\ [EpNext]_epVars => EpInv'
  BY <1>1, <1>2, HostKeeps, InterruptKeeps DEF EpNext
<1> QED BY <1>3, EpStart, PTL DEF EpSpec

-----------------------------------------------------------------------------
(* What the arrays and the packets hold: units, and data packets of them. *)

Unit == (0 .. MaxTransfers) \X Nat
Array == [0 .. (BufferSize - 1) -> Unit]
DataPackets == [type : {"data"}, data : Seq(Unit)]

DataTypes ==
    /\ usb_data_buffer \in Array /\ firmware_data \in Array
    /\ outBuf \in {Free, SetupPacket} \cup DataPackets
    /\ inBuf \in {NoPacket} \cup DataPackets
    /\ inFifo \in Seq(Unit) /\ answer \in Seq(Unit)
    /\ moved \in Nat /\ (stage = "out" => moved < setup.wLength)
    /\ aborts \in Nat /\ resets \in Nat
    /\ DataInRemainOffset \in Nat
    /\ firmware_offset \in Nat

LEMMA UnitsData ==
  ASSUME NEW t \in 0 .. MaxTransfers, NEW first \in Nat, NEW last \in Nat, first - 1 <= last
  PROVE  /\ Units(t, first, last) \in Seq(Unit)
         /\ Len(Units(t, first, last)) = last - first + 1
         /\ \A i \in 1 .. (last - first + 1) : Units(t, first, last)[i] = <<t, first + i - 1>>
BY DEF Units, Unit

LEMMA SliceData ==
  ASSUME NEW array \in Array, NEW at \in Nat, NEW n \in Nat
  PROVE  /\ Slice(array, at, n) \in Seq(Unit)
         /\ Len(Slice(array, at, n)) = n
         /\ \A i \in 1 .. n : at + i - 1 < BufferSize => Slice(array, at, n)[i] = array[at + i - 1]
<1>1. Beyond \in Unit
  BY EndpointAssumption DEF Beyond, Unit
<1>2. \A i \in 1 .. n : at + i - 1 \in DOMAIN array => array[at + i - 1] \in Unit
  BY DEF Array
<1>3. DOMAIN array = 0 .. (BufferSize - 1) /\ BufferSize \in Nat
  BY EndpointAssumption DEF Array
<1> HIDE DEF Unit
<1>4. Slice(array, at, n) \in [1 .. n -> Unit]
  BY <1>1, <1>2 DEF Slice
<1>5. Slice(array, at, n) \in Seq(Unit) /\ Len(Slice(array, at, n)) = n
  BY <1>4
<1>6. ASSUME NEW i \in 1 .. n, at + i - 1 < BufferSize
      PROVE  Slice(array, at, n)[i] = array[at + i - 1]
  BY <1>3, <1>6 DEF Slice
<1> QED BY <1>5, <1>6

LEMMA OverwriteData ==
  ASSUME NEW array \in Array, NEW at \in Nat, NEW data \in Seq(Unit)
  PROVE  /\ Overwrite(array, at, data) \in Array
         /\ \A i \in 1 .. Len(data) : at + i - 1 < BufferSize =>
               Overwrite(array, at, data)[at + i - 1] = data[i]
         /\ \A j \in 0 .. (BufferSize - 1) : j < at => Overwrite(array, at, data)[j] = array[j]
<1>1. DOMAIN array = 0 .. (BufferSize - 1) /\ BufferSize \in Nat /\ Len(data) \in Nat
  BY EndpointAssumption DEF Array
<1>2. \A i \in DOMAIN array : at <= i /\ i < at + Len(data) => data[i - at + 1] \in Unit
  BY <1>1
<1>3. Overwrite(array, at, data) \in Array
  BY <1>1, <1>2 DEF Overwrite, Array
<1>4. ASSUME NEW i \in 1 .. Len(data), at + i - 1 < BufferSize
      PROVE  Overwrite(array, at, data)[at + i - 1] = data[i]
  BY <1>1, <1>4 DEF Overwrite
<1>5. ASSUME NEW j \in 0 .. (BufferSize - 1), j < at
      PROVE  Overwrite(array, at, data)[j] = array[j]
  BY <1>1, <1>5 DEF Overwrite
<1> QED BY <1>3, <1>4, <1>5

LEMMA PacketData ==
  ASSUME NEW packet \in {Free, SetupPacket, NoPacket} \cup DataPackets
  PROVE  packet.data \in Seq(Unit)
<1>1. <<>> \in Seq(Unit)
  OBVIOUS
<1>2. CASE packet \in DataPackets
  BY <1>2 DEF DataPackets
<1>3. CASE packet \in {Free, SetupPacket, NoPacket}
  <2>1. packet.data = <<>>
    BY <1>3 DEF Free, SetupPacket, NoPacket
  <2> QED BY <1>1, <2>1
<1> QED BY <1>2, <1>3

LEMMA DataStart == EpInit => DataTypes
<1>1. Zero \in Unit
  BY EndpointAssumption DEF Zero, Unit
<1>2. Cleared \in Array
  BY <1>1 DEF Cleared, Array
<1> QED BY <1>2 DEF EpInit, DataTypes

LEMMA WritePacketData ==
  ASSUME DataTypes, NEW at \in Nat, NEW cnt \in 0 .. BufferSize, WritePacket(at, cnt)
  PROVE  inFifo' \in Seq(Unit) /\ DataInRemainOffset' \in Nat
<1>1. Least(cnt, PacketSize) \in Nat
  <2>1. cnt \in Nat /\ PacketSize \in Nat
    BY EndpointAssumption
  <2> QED BY <2>1, LeastOf
<1>2. Slice(usb_data_buffer, at, Least(cnt, PacketSize)) \in Seq(Unit)
  BY <1>1, SliceData DEF DataTypes
<1> QED BY <1>1, <1>2 DEF WritePacket, DataTypes

USE DEF Free, SetupPacket, NoPacket, DataPacket, At

AnySetup == \E r \in RequestKinds, n \in 0 .. BufferSize :
               /\ HostSetup(r, n)
               /\ r = "DNLOAD" => n > 0
               /\ r = "GETSTATUS" => n < PacketSize

LEMMA HostSteps ==
  ASSUME Host
  PROVE  AnySetup \/ HostOut \/ HostIn \/ HostStatusOut \/ HostStalled \/ HostAbort
<1>1. ASSUME NEW n \in DownloadSizes, HostSetup("DNLOAD", n) PROVE AnySetup
  BY <1>1, HostKeepsTransferSize, EndpointAssumption DEF AnySetup, RequestKinds
<1>2. ASSUME NEW n \in UploadSizes, HostSetup("UPLOAD", n) PROVE AnySetup
  BY <1>2, HostKeepsTransferSize, EndpointAssumption DEF AnySetup, RequestKinds
<1>3. CASE HostSetup("GETSTATUS", StatusSize)
  <2>1. StatusSize \in 0 .. BufferSize /\ StatusSize < PacketSize
    BY EndpointAssumption
  <2> QED BY <1>3, <2>1 DEF AnySetup, RequestKinds
<1>4. CASE HostSetup("CLRSTATUS", 0)
  BY <1>4, EndpointAssumption DEF AnySetup, RequestKinds
<1> QED BY <1>1, <1>2, <1>3, <1>4 DEF Host

LEMMA HostData == ASSUME EpInv, DataTypes, Host PROVE DataTypes'
<1> USE DEF DataTypes, controller, flags, buffer, remain, task
<1>1. CASE AnySetup
  BY <1>1 DEF AnySetup, HostSetup, Setup, FirstStage
<1>2. CASE HostOut
  <2>1. setup.wLength \in Nat /\ moved \in Nat /\ moved < setup.wLength
    BY <1>2, EndpointAssumption DEF HostOut, EpInv, EpTypeOK
  <2>2. moved' \in Nat /\ moved < moved' /\ moved' <= setup.wLength
    <3>1. moved' = Least(moved + PacketSize, setup.wLength)
      BY <1>2 DEF HostOut
    <3>2. PacketSize \in Nat /\ PacketSize > 0
      BY EndpointAssumption
    <3> QED BY <2>1, <3>1, <3>2 DEF Least
  <2>3. Units(setup.transfer, moved + 1, moved') \in Seq(Unit)
    <3>1. moved + 1 \in Nat /\ moved' \in Nat /\ moved + 1 <= moved'
      BY <2>1, <2>2
    <3>2. setup.transfer \in 0 .. MaxTransfers
      BY DEF EpInv, EpTypeOK
    <3> HIDE DEF DataTypes
    <3> QED BY <3>1, <3>2, UnitsData
  <2>4. stage' = "out" => moved' < setup'.wLength
    BY <1>2, <2>1, <2>2 DEF HostOut
  <2> QED BY <1>2, <2>2, <2>3, <2>4 DEF HostOut, DataPackets
<1>3. CASE HostIn
  <2>1. inBuf.data \in Seq(Unit) /\ Len(inBuf.data) \in Nat
    BY PacketData
  <2>2. answer \o inBuf.data \in Seq(Unit)
    BY <2>1
  <2>3. answer' \in Seq(Unit) /\ moved' \in Nat
    <3>1. moved + Len(inBuf.data) \in Nat
      BY <2>1
    <3> QED BY <1>3, <2>2, <3>1 DEF HostIn
  <2> QED BY <1>3, <2>3 DEF HostIn
<1>4. CASE HostStatusOut
  BY <1>4 DEF HostStatusOut, DataPackets
<1>5. CASE HostStalled \/ HostAbort
  BY <1>5 DEF HostStalled, HostAbort
<1> QED BY <1>1, <1>2, <1>3, <1>4, <1>5, HostSteps

LEMMA ValidData ==
  ASSUME NEW selected, NEW fifo \in Seq(Unit), inBuf \in {NoPacket} \cup DataPackets,
         CMD_VALID_BUF(selected, fifo)
  PROVE  inBuf' \in {NoPacket} \cup DataPackets
BY DEF CMD_VALID_BUF, DataPackets

LEMMA InterruptData == ASSUME EpInv, DataTypes, Interrupt \/ BusReset PROVE DataTypes'
<1> USE DEF DataTypes, host, buffer, remain, task
<1>1. CASE IsrSetup
  BY <1>1 DEF IsrSetup
<1>2. CASE IsrOut
  <2>1. outBuf.data \in Seq(Unit)
    BY PacketData
  <2>2. usb_data_buffer' \in Array
    BY <1>2, <2>1, OverwriteData DEF IsrOut
  <2> QED BY <1>2, <2>2 DEF IsrOut
<1>3. CASE IsrIn
  <2>1. CASE DataInRemainCount > 0 \/ shortpacket
    <3>1. WritePacket(DataInRemainOffset, DataInRemainCount) /\ CMD_VALID_BUF(1, inFifo')
      BY <1>3, <2>1 DEF IsrIn
    <3>2. inFifo' \in Seq(Unit) /\ DataInRemainOffset' \in Nat
      BY <3>1, WritePacketData DEF EpInv, EpTypeOK
    <3>3. inBuf' \in {NoPacket} \cup DataPackets
      BY <3>1, <3>2, ValidData
    <3> QED BY <1>3, <3>2, <3>3 DEF IsrIn
  <2>2. CASE ~(DataInRemainCount > 0 \/ shortpacket)
    BY <1>3, <2>2 DEF IsrIn
  <2> QED BY <2>1, <2>2
<1>4. CASE BusReset
  BY <1>4 DEF BusReset, task
<1> QED BY <1>1, <1>2, <1>3, <1>4 DEF Interrupt

LEMMA TaskData == ASSUME EpInv, DataTypes, Task PROVE DataTypes'
<1> USE DEF DataTypes, host, controller, flags, buffer, remain
<1>1. CASE Poll \/ Return \/ Endpoint_StallTransaction
  BY <1>1 DEF Poll, Return, Endpoint_StallTransaction
<1>2. CASE ClearSETUP
  BY <1>2 DEF ClearSETUP
<1>3. CASE ClearSETUP_CLR_BUF
  <2>1. Cleared \in Array
    BY EndpointAssumption DEF Cleared, Array, Unit, Zero
  <2>2. outBuf' \in {Free, outBuf}
    BY <1>3 DEF ClearSETUP_CLR_BUF, CMD_CLR_BUF
  <2>3. firmware_data' \in {Cleared, firmware_data} /\ firmware_offset' \in {0, firmware_offset}
    BY <1>3 DEF ClearSETUP_CLR_BUF
  <2> QED BY <1>3, <2>1, <2>2, <2>3 DEF ClearSETUP_CLR_BUF
<1>4. CASE WaitUntilReady \/ WaitAgain \/ WaitTimeout \/ Write \/ WaitINReady
  BY <1>4 DEF WaitUntilReady, WaitAgain, WaitTimeout, Write, WaitINReady
<1>5. CASE Read
  <2> DEFINE toread == Least(PacketSize, request.wLength - firmware_offset)
  <2>1. firmware_offset \in Nat /\ firmware_offset < request.wLength /\ request.wLength \in Nat
    BY <1>5 DEF Read, EpInv, EpTypeOK, BuffersKept, Downloading
  <2>2. toread \in Nat
    BY <2>1, EndpointAssumption DEF Least
  <2>3. Slice(usb_data_buffer, usb_data_buffer_index, toread) \in Seq(Unit)
    <3>1. usb_data_buffer_index \in Nat
      BY EndpointAssumption DEF EpInv, EpTypeOK
    <3> QED BY <2>2, <3>1, SliceData
  <2>4. Overwrite(firmware_data, firmware_offset, Slice(usb_data_buffer, usb_data_buffer_index, toread))
           \in Array
    BY <2>3, OverwriteData
  <2>5. firmware_data' \in Array
    BY <1>5, <2>4 DEF Read
  <2>6. firmware_offset' \in Nat
    BY <1>5, <2>2 DEF Read
  <2> QED BY <1>5, <2>5, <2>6 DEF Read
<1>6. CASE ClearOUT \/ ClearOUT_flag
  BY <1>6 DEF ClearOUT, ClearOUT_flag
<1>7. CASE ClearOUT_CLR_BUF
  BY <1>7 DEF ClearOUT_CLR_BUF, CMD_CLR_BUF
<1>8. CASE Load
  <2>1. request.wLength \in Nat /\ request.transfer \in 0 .. MaxTransfers /\ usb_data_buffer_index \in Nat
    BY EndpointAssumption DEF EpInv, EpTypeOK
  <2>2. Units(request.transfer, 1, request.wLength) \in Seq(Unit)
    <3> HIDE DEF DataTypes
    <3>1. 1 \in Nat /\ 1 - 1 <= request.wLength
      BY <2>1
    <3> QED BY <2>1, <3>1, UnitsData
  <2>3. usb_data_buffer' \in Array
    BY <1>8, <2>1, <2>2, OverwriteData DEF Load
  <2> QED BY <1>8, <2>3 DEF Load
<1>9. CASE ClearIN
  <2>1. inFifo' \in Seq(Unit) /\ DataInRemainOffset' \in Nat
    BY <1>9, WritePacketData DEF ClearIN, EpInv, EpTypeOK
  <2> QED BY <1>9, <2>1 DEF ClearIN
<1>10. CASE ClearIN_SEL_EP
  BY <1>10 DEF ClearIN_SEL_EP
<1>11. CASE ClearIN_VALID_BUF
  <2>1. inBuf' \in {NoPacket} \cup DataPackets
    BY <1>11, ValidData DEF ClearIN_VALID_BUF
  <2> QED BY <1>11, <2>1 DEF ClearIN_VALID_BUF
<1> QED BY <1>1, <1>2, <1>3, <1>4, <1>5, <1>6, <1>7, <1>8, <1>9, <1>10, <1>11 DEF Task

LEMMA DataKeeps == ASSUME EpInv, DataTypes, [EpNext]_epVars PROVE DataTypes'
<1>1. CASE UNCHANGED epVars
  BY <1>1 DEF DataTypes, epVars, host, controller, flags, buffer, remain, task
<1> QED BY <1>1, HostData, InterruptData, TaskData DEF EpNext

-----------------------------------------------------------------------------
(***************************************************************************)
(* What holds between a SETUP packet and the handler that answers it,      *)
(* whatever the host gives up and wherever bus resets fall.  A handler has *)
(* Begun when it has the request but has not freed the packet; its Body is *)
(* what it does until nothing is left but the ClearOUT of a status stage.  *)
(* Quiet: nothing of an answer is on its way to the host, nor can the      *)
(* interrupt send any, and the host has not seen its transfer complete.    *)
(***************************************************************************)
Answered == {"UPLOAD", "GETSTATUS"}
Clearing == {"out", "out_clr", "out_flag"}

Begun == pc \in {"setup", "setup_clr"} /\ then = "handle"
Body == \/ pc \in {"wait", "waiting", "read", "write"}
        \/ pc \in {"in_wait", "in_load", "in_write", "in_sel", "in_valid"}
        \/ pc \in Clearing /\ then # "return"

Unseen == outBuf = SetupPacket /\ outInt

Quiet == /\ inBuf = NoPacket /\ stage # "status_out" /\ acked # setup.transfer
         /\ inInt => outBuf = SetupPacket

\* A SETUP packet found while a request is refused is handled next.
BeforeAnswer == Begun \/ Body \/ (pc \in {"poll", "setup_clr", "stall"} /\ SETUPReceived)

HostFacts ==
    /\ acked \in 0 .. setup.transfer
    /\ outBuf = SetupPacket => Quiet /\ moved = 0
    /\ outInt => outBuf # Free
    /\ outBuf.type = "data" /\ outBuf.data # <<>> /\ outInt => setup.bRequest = "DNLOAD"
    /\ stage = "out" => setup.bRequest = "DNLOAD"
    /\ stage \in {"in", "status_out"} => setup.bRequest \in Answered
    /\ stage = "status_in" => setup.bRequest \notin Answered

\* The SETUP packet the driver has is the host's last, unless a newer one is
\* about to be seen, or was dropped by a bus reset.
LastSetup ==
    SETUPReceived => \/ SetupPackage = setup \/ Unseen
                     \/ stage = "idle" /\ ~isOutReceived /\ outBuf = Free /\ ~outInt

Ordered == SetupPackage.transfer <= setup.transfer /\ request.transfer <= setup.transfer

\* No data comes before the handler frees the SETUP packet.  One freed by an
\* earlier handler was refused, and the host sees the stall.
NoneEarly ==
    /\ Begun \/ (pc = "poll" /\ SETUPReceived) => (stage = "out" => outBuf = SetupPacket \/ stalled)
    /\ Begun => (outInt => outBuf = SetupPacket)

Kinds ==
    /\ Downloading \/ pc = "write" \/ (pc \in Clearing /\ then \in {"write", "in_write"}) =>
          request.bRequest = "DNLOAD"
    /\ pc \in {"in_wait", "in_load"} => request.bRequest \in Answered
    /\ pc \in {"setup", "setup_clr"} => then \in {"handle", "stall"}

QuietBefore == BeforeAnswer => Quiet

TransferInv == HostFacts /\ QuietBefore /\ LastSetup /\ Ordered /\ NoneEarly /\ Kinds

Known == EpInv /\ DataTypes /\ TransferInv

LEMMA KnownStart == EpInit => Known
<1> SUFFICES ASSUME EpInit PROVE Known
  OBVIOUS
<1>1. EpInv /\ DataTypes
  BY EpStart, DataStart
<1>2. Downloading = FALSE /\ Begun = FALSE /\ Body = FALSE
  BY DEF EpInit, Downloading, Begun, Body, Clearing
<1>3. TransferInv
  BY <1>2 DEF EpInit, TransferInv, HostFacts, QuietBefore, BeforeAnswer, LastSetup, Ordered,
              NoneEarly, Kinds, Clearing, NoSetup, Setup,
              Free, SetupPacket, NoPacket
<1> QED BY <1>1, <1>3 DEF Known

\* The task and the interrupt leave what the host and the buffers have alone,
\* but for two commands.
LEMMA HostFactsStay ==
  ASSUME HostFacts, UNCHANGED <<acked, setup, stage, moved, outBuf, inBuf, outInt, inInt>>
  PROVE  HostFacts'
BY DEF HostFacts, Quiet

LEMMA HostFactsKept == ASSUME EpTypeOK, BuffersKept, DataTypes, TransferInv, EpNext PROVE HostFacts'
<1> USE DEF EpTypeOK, BuffersKept, DataTypes, DataPackets, TransferInv, HostFacts,
            QuietBefore, BeforeAnswer, Begun, Body, LastSetup, Ordered, NoneEarly, Kinds,
            Quiet, Unseen, Downloading, Clearing, Answered, At, Free, SetupPacket,
            NoPacket, DataPacket, host, controller, flags, buffer, remain, task
<1>1. CASE AnySetup
  <2>1. PICK r \in RequestKinds, n \in 0 .. BufferSize : HostSetup(r, n)
    BY <1>1 DEF AnySetup
  <2>2. setup'.transfer = setup.transfer + 1 /\ setup'.bRequest = r /\ setup.transfer \in Nat
    BY <2>1, EndpointAssumption DEF HostSetup, Setup
  <2>3. acked \in 0 .. setup'.transfer /\ acked # setup'.transfer
    BY <2>2
  <2> QED BY <2>1, <2>2, <2>3 DEF HostSetup, FirstStage, RequestKinds
<1>2. CASE HostOut
  BY <1>2 DEF HostOut
<1>3. CASE HostIn
  <2>1. ~Quiet /\ outBuf # SetupPacket
    BY <1>3 DEF HostIn
  <2>2. acked' \in 0 .. setup.transfer
    <3>1. setup.transfer \in Nat
      BY EndpointAssumption
    <3>2. setup.transfer \in 0 .. setup.transfer
      BY <3>1
    <3> QED BY <1>3, <3>2 DEF HostIn
  <2>3. stage' \in {"idle", "status_out"} \/ (stage' = "in" /\ stage = "in")
    BY <1>3 DEF HostIn
  <2>4. stage' = "status_out" => stage = "in"
    BY <1>3 DEF HostIn
  <2>5. UNCHANGED <<setup, outBuf, outInt>>
    BY <1>3 DEF HostIn
  <2> QED BY <2>1, <2>2, <2>3, <2>4, <2>5
<1>4. CASE HostStatusOut
  BY <1>4 DEF HostStatusOut
<1>5. CASE HostStalled
  BY <1>5 DEF HostStalled
<1>6. CASE HostAbort
  BY <1>6 DEF HostAbort
<1>7. CASE IsrSetup
  BY <1>7 DEF IsrSetup
<1>8. CASE IsrOut
  BY <1>8 DEF IsrOut
<1>9. CASE IsrIn
  BY <1>9 DEF IsrIn, CMD_VALID_BUF
<1>10. CASE BusReset
  BY <1>10 DEF BusReset
<1>11. CASE Poll \/ ClearSETUP \/ Return \/ Endpoint_StallTransaction
  BY <1>11, HostFactsStay DEF Poll, ClearSETUP, Return, Endpoint_StallTransaction
<1>12. CASE ClearSETUP_CLR_BUF
  BY <1>12 DEF ClearSETUP_CLR_BUF, CMD_CLR_BUF, FirstStep
<1>13. CASE WaitUntilReady \/ WaitAgain \/ WaitTimeout \/ Write \/ WaitINReady
  BY <1>13, HostFactsStay DEF WaitUntilReady, WaitAgain, WaitTimeout, Write, WaitINReady
<1>14. CASE Read
  BY <1>14, HostFactsStay DEF Read
<1>15. CASE ClearOUT \/ ClearOUT_flag
  BY <1>15, HostFactsStay DEF ClearOUT, ClearOUT_flag
<1>16. CASE ClearOUT_CLR_BUF
  BY <1>16 DEF ClearOUT_CLR_BUF, CMD_CLR_BUF
<1>17. CASE Load \/ ClearIN \/ ClearIN_SEL_EP
  BY <1>17, HostFactsStay DEF Load, ClearIN, ClearIN_SEL_EP
<1>18. CASE ClearIN_VALID_BUF
  BY <1>18 DEF ClearIN_VALID_BUF, CMD_VALID_BUF
<1> QED BY <1>1, <1>2, <1>3, <1>4, <1>5, <1>6, <1>7, <1>8, <1>9, <1>10, <1>11, <1>12,
           <1>13, <1>14, <1>15, <1>16, <1>17, <1>18, HostSteps DEF EpNext, Interrupt, Task

LEMMA QuietKept == ASSUME EpTypeOK, BuffersKept, DataTypes, TransferInv, EpNext PROVE QuietBefore'
<1> USE DEF EpTypeOK, BuffersKept, DataTypes, DataPackets, TransferInv, HostFacts,
            QuietBefore, BeforeAnswer, Begun, Body, LastSetup, Ordered, NoneEarly, Kinds,
            Quiet, Unseen, Downloading, Clearing, Answered, At, Free, SetupPacket,
            NoPacket, DataPacket, host, controller, flags, buffer, remain, task
<1>1. CASE AnySetup
  BY <1>1 DEF AnySetup, HostSetup, Setup, FirstStage, RequestKinds, PollDue
<1>2. CASE HostOut
  BY <1>2 DEF HostOut
<1>3. CASE HostIn
  BY <1>3 DEF HostIn
<1>4. CASE HostStatusOut
  BY <1>4 DEF HostStatusOut
<1>5. CASE HostStalled \/ HostAbort
  BY <1>5 DEF HostStalled, HostAbort
<1>6. CASE IsrSetup
  BY <1>6 DEF IsrSetup
<1>7. CASE IsrOut
  BY <1>7 DEF IsrOut
<1>8. CASE IsrIn
  BY <1>8 DEF IsrIn, CMD_VALID_BUF
<1>9. CASE BusReset
  BY <1>9 DEF BusReset
<1>10. CASE Poll \/ ClearSETUP \/ Return \/ Endpoint_StallTransaction
  BY <1>10 DEF Poll, ClearSETUP, Return, Endpoint_StallTransaction
<1>11. CASE ClearSETUP_CLR_BUF
  <2>1. CASE then = "handle"
    BY <1>11, <2>1 DEF ClearSETUP_CLR_BUF, CMD_CLR_BUF
  <2>2. CASE then # "handle"
    BY <1>11, <2>2 DEF ClearSETUP_CLR_BUF, CMD_CLR_BUF, FirstStep
  <2> QED BY <2>1, <2>2
<1>12. CASE WaitUntilReady \/ WaitAgain \/ WaitTimeout \/ Write \/ WaitINReady
  BY <1>12 DEF WaitUntilReady, WaitAgain, WaitTimeout, Write, WaitINReady
<1>13. CASE Read
  BY <1>13 DEF Read
<1>14. CASE ClearOUT \/ ClearOUT_CLR_BUF \/ ClearOUT_flag
  BY <1>14 DEF ClearOUT, ClearOUT_CLR_BUF, CMD_CLR_BUF, ClearOUT_flag
<1>15. CASE Load \/ ClearIN \/ ClearIN_SEL_EP
  BY <1>15 DEF Load, ClearIN, ClearIN_SEL_EP
<1>16. CASE ClearIN_VALID_BUF
  BY <1>16 DEF ClearIN_VALID_BUF, CMD_VALID_BUF
<1> QED BY <1>1, <1>2, <1>3, <1>4, <1>5, <1>6, <1>7, <1>8, <1>9, <1>10, <1>11, <1>12,
           <1>13, <1>14, <1>15, <1>16, HostSteps DEF EpNext, Interrupt, Task

LEMMA LastSetupKept == ASSUME EpTypeOK, BuffersKept, DataTypes, TransferInv, EpNext PROVE LastSetup'
<1> USE DEF EpTypeOK, BuffersKept, DataTypes, DataPackets, TransferInv, HostFacts,
            QuietBefore, BeforeAnswer, Begun, Body, LastSetup, Ordered, NoneEarly, Kinds,
            Quiet, Unseen, Downloading, Clearing, Answered, At, Free, SetupPacket,
            NoPacket, DataPacket, host, controller, flags, buffer, remain, task
<1>1. CASE AnySetup
  BY <1>1 DEF AnySetup, HostSetup, Setup, FirstStage, RequestKinds, PollDue
<1>2. CASE HostOut
  BY <1>2 DEF HostOut
<1>3. CASE HostIn
  BY <1>3 DEF HostIn
<1>4. CASE HostStatusOut
  BY <1>4 DEF HostStatusOut
<1>5. CASE HostStalled \/ HostAbort
  BY <1>5 DEF HostStalled, HostAbort
<1>6. CASE IsrSetup
  BY <1>6 DEF IsrSetup
<1>7. CASE IsrOut
  BY <1>7 DEF IsrOut
<1>8. CASE IsrIn
  BY <1>8 DEF IsrIn, CMD_VALID_BUF
<1>9. CASE BusReset
  BY <1>9 DEF BusReset
<1>10. CASE Poll \/ ClearSETUP \/ Return \/ Endpoint_StallTransaction
  BY <1>10 DEF Poll, ClearSETUP, Return, Endpoint_StallTransaction
<1>11. CASE ClearSETUP_CLR_BUF
  BY <1>11 DEF ClearSETUP_CLR_BUF, CMD_CLR_BUF, FirstStep
<1>12. CASE WaitUntilReady \/ WaitAgain \/ WaitTimeout \/ Write \/ WaitINReady
  BY <1>12 DEF WaitUntilReady, WaitAgain, WaitTimeout, Write, WaitINReady
<1>13. CASE Read
  BY <1>13 DEF Read
<1>14. CASE ClearOUT \/ ClearOUT_CLR_BUF \/ ClearOUT_flag
  BY <1>14 DEF ClearOUT, ClearOUT_CLR_BUF, CMD_CLR_BUF, ClearOUT_flag
<1>15. CASE Load \/ ClearIN \/ ClearIN_SEL_EP
  BY <1>15 DEF Load, ClearIN, ClearIN_SEL_EP
<1>16. CASE ClearIN_VALID_BUF
  BY <1>16 DEF ClearIN_VALID_BUF, CMD_VALID_BUF
<1> QED BY <1>1, <1>2, <1>3, <1>4, <1>5, <1>6, <1>7, <1>8, <1>9, <1>10, <1>11, <1>12,
           <1>13, <1>14, <1>15, <1>16, HostSteps DEF EpNext, Interrupt, Task

LEMMA OrderedKept == ASSUME EpTypeOK, Ordered, EpNext PROVE Ordered'
<1> USE DEF Ordered, host, controller, flags, buffer, remain, task
<1>1. /\ setup.transfer \in Nat /\ SetupPackage.transfer \in Nat /\ request.transfer \in Nat
      /\ setup.transfer <= setup.transfer
  BY EndpointAssumption DEF EpTypeOK
<1>2. CASE AnySetup
  <2>1. setup'.transfer = setup.transfer + 1 /\ UNCHANGED <<SetupPackage, request>>
    BY <1>2 DEF AnySetup, HostSetup, Setup
  <2> QED BY <1>1, <2>1
<1>3. CASE HostOut \/ HostIn \/ HostStatusOut \/ HostStalled \/ HostAbort
  BY <1>3 DEF HostOut, HostIn, HostStatusOut, HostStalled, HostAbort
<1>4. CASE Interrupt \/ BusReset
  BY <1>1, <1>4 DEF Interrupt, IsrSetup, IsrOut, IsrIn, BusReset
<1>5. CASE Poll
  BY <1>5 DEF Poll
<1>6. ASSUME Task, ~Poll PROVE UNCHANGED <<setup, SetupPackage, request>>
  BY <1>6 DEF Task, ClearSETUP, ClearSETUP_CLR_BUF, WaitUntilReady, WaitAgain, WaitTimeout, Read,
              Write, ClearOUT, ClearOUT_CLR_BUF, ClearOUT_flag, WaitINReady, Load, ClearIN,
              ClearIN_SEL_EP, ClearIN_VALID_BUF, Return, Endpoint_StallTransaction
<1> QED BY <1>2, <1>3, <1>4, <1>5, <1>6, HostSteps DEF EpNext

LEMMA NoneEarlyKept == ASSUME EpTypeOK, BuffersKept, DataTypes, TransferInv, EpNext PROVE NoneEarly'
<1> USE DEF EpTypeOK, BuffersKept, DataTypes, DataPackets, TransferInv, HostFacts,
            QuietBefore, BeforeAnswer, Begun, Body, LastSetup, Ordered, NoneEarly, Kinds,
            Quiet, Unseen, Downloading, Clearing, Answered, At, Free, SetupPacket,
            NoPacket, DataPacket, host, controller, flags, buffer, remain, task
<1>1. CASE AnySetup
  BY <1>1 DEF AnySetup, HostSetup, Setup, FirstStage, RequestKinds, PollDue
<1>2. CASE HostOut
  BY <1>2 DEF HostOut
<1>3. CASE HostIn
  BY <1>3 DEF HostIn
<1>4. CASE HostStatusOut
  BY <1>4 DEF HostStatusOut
<1>5. CASE HostStalled \/ HostAbort
  BY <1>5 DEF HostStalled, HostAbort
<1>6. CASE IsrSetup
  BY <1>6 DEF IsrSetup
<1>7. CASE IsrOut
  BY <1>7 DEF IsrOut
<1>8. CASE IsrIn
  BY <1>8 DEF IsrIn, CMD_VALID_BUF
<1>9. CASE BusReset
  BY <1>9 DEF BusReset
<1>10. CASE Poll \/ ClearSETUP
  BY <1>10 DEF Poll, ClearSETUP
<1>11. CASE Return
  BY <1>11 DEF Return
<1>12. CASE Endpoint_StallTransaction
  BY <1>12 DEF Endpoint_StallTransaction
<1>13. CASE ClearSETUP_CLR_BUF
  BY <1>13 DEF ClearSETUP_CLR_BUF, CMD_CLR_BUF, FirstStep
<1>14. CASE WaitUntilReady \/ WaitAgain \/ WaitTimeout \/ Write \/ WaitINReady
  BY <1>14 DEF WaitUntilReady, WaitAgain, WaitTimeout, Write, WaitINReady
<1>15. CASE Read
  BY <1>15 DEF Read
<1>16. CASE ClearOUT \/ ClearOUT_CLR_BUF \/ ClearOUT_flag
  BY <1>16 DEF ClearOUT, ClearOUT_CLR_BUF, CMD_CLR_BUF, ClearOUT_flag
<1>17. CASE Load \/ ClearIN \/ ClearIN_SEL_EP
  BY <1>17 DEF Load, ClearIN, ClearIN_SEL_EP
<1>18. CASE ClearIN_VALID_BUF
  BY <1>18 DEF ClearIN_VALID_BUF, CMD_VALID_BUF
<1> QED BY <1>1, <1>2, <1>3, <1>4, <1>5, <1>6, <1>7, <1>8, <1>9, <1>10, <1>11, <1>12,
           <1>13, <1>14, <1>15, <1>16, <1>17, <1>18, HostSteps DEF EpNext, Interrupt, Task

LEMMA KindsKept == ASSUME EpTypeOK, BuffersKept, DataTypes, TransferInv, EpNext PROVE Kinds'
<1> USE DEF EpTypeOK, BuffersKept, DataTypes, DataPackets, TransferInv, HostFacts,
            QuietBefore, BeforeAnswer, Begun, Body, LastSetup, Ordered, NoneEarly, Kinds,
            Quiet, Unseen, Downloading, Clearing, Answered, At, Free, SetupPacket,
            NoPacket, DataPacket, host, controller, flags, buffer, remain, task
<1>1. CASE AnySetup
  BY <1>1 DEF AnySetup, HostSetup, Setup, FirstStage, RequestKinds, PollDue
<1>2. CASE HostOut
  BY <1>2 DEF HostOut
<1>3. CASE HostIn
  BY <1>3 DEF HostIn
<1>4. CASE HostStatusOut
  BY <1>4 DEF HostStatusOut
<1>5. CASE HostStalled \/ HostAbort
  BY <1>5 DEF HostStalled, HostAbort
<1>6. CASE IsrSetup
  BY <1>6 DEF IsrSetup
<1>7. CASE IsrOut
  BY <1>7 DEF IsrOut
<1>8. CASE IsrIn
  BY <1>8 DEF IsrIn, CMD_VALID_BUF
<1>9. CASE BusReset
  BY <1>9 DEF BusReset
<1>10. CASE Poll \/ ClearSETUP \/ Return \/ Endpoint_StallTransaction
  BY <1>10 DEF Poll, ClearSETUP, Return, Endpoint_StallTransaction
<1>11. CASE ClearSETUP_CLR_BUF
  BY <1>11 DEF ClearSETUP_CLR_BUF, CMD_CLR_BUF, FirstStep
<1>12. CASE WaitUntilReady \/ WaitAgain \/ WaitTimeout \/ Write \/ WaitINReady
  BY <1>12 DEF WaitUntilReady, WaitAgain, WaitTimeout, Write, WaitINReady
<1>13. CASE Read
  BY <1>13 DEF Read
<1>14. CASE ClearOUT \/ ClearOUT_CLR_BUF \/ ClearOUT_flag
  BY <1>14 DEF ClearOUT, ClearOUT_CLR_BUF, CMD_CLR_BUF, ClearOUT_flag
<1>15. CASE Load \/ ClearIN \/ ClearIN_SEL_EP
  BY <1>15 DEF Load, ClearIN, ClearIN_SEL_EP
<1>16. CASE ClearIN_VALID_BUF
  BY <1>16 DEF ClearIN_VALID_BUF, CMD_VALID_BUF
<1> QED BY <1>1, <1>2, <1>3, <1>4, <1>5, <1>6, <1>7, <1>8, <1>9, <1>10, <1>11, <1>12,
           <1>13, <1>14, <1>15, <1>16, HostSteps DEF EpNext, Interrupt, Task

LEMMA KnownKept == Known /\ [EpNext]_epVars => Known'
<1>1. ASSUME Known, UNCHANGED epVars PROVE Known'
  <2>1. EpInv' /\ DataTypes'
    BY <1>1, HostOnly, DataKeeps DEF Known, EpInv, EpTypeOK, epVars, host, controller
  <2>2. TransferInv'
    BY <1>1 DEF Known, TransferInv, HostFacts, QuietBefore, BeforeAnswer, Begun, Body, LastSetup,
                Ordered, NoneEarly, Kinds, Quiet, Unseen, Downloading, Clearing, epVars, host, controller,
                flags, buffer, remain, task
  <2> QED BY <2>1, <2>2 DEF Known
<1>2. ASSUME Known, EpNext PROVE Known'
  <2>1. EpInv' /\ DataTypes'
    BY <1>2, HostKeeps, InterruptKeeps, SetupPartKeeps, ReadKeeps, DownloadKeeps, AnswerKeeps, DataKeeps
       DEF Known, EpNext, Task
  <2>2. TransferInv'
    BY <1>2, HostFactsKept, QuietKept, LastSetupKept, OrderedKept,
          NoneEarlyKept, KindsKept
       DEF Known, EpInv, TransferInv
  <2> QED BY <2>1, <2>2 DEF Known
<1> QED BY <1>1, <1>2

LEMMA EpKnown == EpSpec => []Known
BY KnownStart, KnownKept, PTL DEF EpSpec

-----------------------------------------------------------------------------
(***************************************************************************)
(* The block.  isOutReceived may be left over from an earlier download.    *)
(* A host that polls makes a GETSTATUS handler run to its ClearOUT before  *)
(* the next download begins (StaleFlag), and has not begun another while   *)
(* the handler of one is still reading (Behind).  With a flag that is not  *)
(* stale, the handler and the host take turns: the four parts of BlockInv  *)
(* follow a packet from the free buffer (Awaited) to usb_data_buffer       *)
(* (Received), from there to firmware_data (Copied) and to the freed       *)
(* buffer (Taken).  They are about a handler the host has not reset.       *)
(***************************************************************************)
StaleFlag ==
    /\ isOutReceived /\ setup.bRequest = "GETSTATUS" /\ ~Quiet => pc \in Clearing
    /\ isOutReceived /\ setup.bRequest \in {"UPLOAD", "CLRSTATUS"} => pc \in Clearing
    /\ isOutReceived /\ setup.bRequest = "DNLOAD" /\ (SETUPReceived \/ Unseen) => pc \in Clearing
    /\ Begun /\ request.bRequest # "GETSTATUS" => ~isOutReceived
    /\ pc \in {"in_write", "in_sel", "in_valid"} /\ request.bRequest \notin Answered
          /\ setup.bRequest = "GETSTATUS" /\ outBuf # SetupPacket => ~isOutReceived

Behind(p) == p = setup \/ (p.transfer < setup.transfer /\ setup.bRequest = "GETSTATUS")

HostBehind ==
    /\ pc \in {"poll", "setup_clr", "stall"} /\ SETUPReceived /\ SetupPackage.bRequest = "DNLOAD" =>
          Behind(SetupPackage)
    /\ (Begun \/ Downloading) /\ request.bRequest = "DNLOAD" => Behind(request)

Ok == resets = 0 \/ Wanted
Whole(n) == \A i \in 1 .. n : firmware_data[i - 1] = <<request.transfer, i>>
ToRead == Least(PacketSize, request.wLength - firmware_offset)
NextUnits == Units(request.transfer, firmware_offset + 1, firmware_offset + ToRead)
Sending == setup = request /\ stage = "out" /\ ~stalled
Held == outBuf # Free /\ (outInt => outBuf = SetupPacket)

Awaited ==
    Ok /\ (pc \in {"wait", "waiting"} \/ (pc = "out_flag" /\ then = "wait")) =>
       /\ Sending /\ outBuf = Free => moved = firmware_offset
       /\ outInt /\ outBuf # SetupPacket =>
             outBuf.data = NextUnits /\ setup = request /\ (Sending => moved = firmware_offset + ToRead)

Received ==
    Ok /\ ((pc \in {"wait", "waiting"} /\ isOutReceived) \/ pc = "read") =>
       /\ Held /\ usb_data_buffer_size # 0
       /\ Sending => moved = firmware_offset + ToRead
       /\ \A i \in 1 .. ToRead : usb_data_buffer[i - 1] = <<request.transfer, firmware_offset + i>>

Copied ==
    Ok => /\ Downloading => Whole(firmware_offset)
          /\ pc = "write" \/ (pc \in Clearing /\ then = "write") => Whole(request.wLength)

Taken ==
    Ok /\ pc \in {"out", "out_clr"} /\ then = "wait" => Held /\ (Sending => moved = firmware_offset)

BlockInv == Awaited /\ Received /\ Copied /\ Taken

LEMMA StaleFlagKept ==
  ASSUME Polls, EpTypeOK, BuffersKept, DataTypes, TransferInv, EpNext, StaleFlag
  PROVE  StaleFlag'
<1> USE DEF EpTypeOK, BuffersKept, DataTypes, DataPackets, TransferInv, HostFacts,
            QuietBefore, BeforeAnswer, Begun, Body, LastSetup, Ordered, NoneEarly, Kinds,
            Quiet, Unseen, Downloading, Clearing, Answered, host, controller, flags,
            buffer, remain, task, At, Free, SetupPacket, NoPacket, DataPacket, StaleFlag
<1>1. CASE AnySetup
  <2>1. PICK r \in RequestKinds, n \in 0 .. BufferSize : HostSetup(r, n)
    BY <1>1 DEF AnySetup
  <2>2. setup'.transfer = setup.transfer + 1 /\ setup'.bRequest = r /\ setup.transfer \in Nat
    BY <2>1, EndpointAssumption DEF HostSetup, Setup
  <2>3. r \in {"DNLOAD", "UPLOAD", "CLRSTATUS"} => ~PollDue
    BY <2>1 DEF HostSetup
  <2>4. acked' = acked /\ acked # setup'.transfer
    BY <2>1, <2>2 DEF HostSetup
  <2>5. Quiet'
    BY <2>1, <2>4 DEF HostSetup, FirstStage, RequestKinds
  <2> QED BY <2>1, <2>2, <2>3, <2>5 DEF HostSetup, PollDue, RequestKinds
<1>2. CASE HostOut
  BY <1>2 DEF HostOut
<1>3. CASE HostIn
  BY <1>3 DEF HostIn
<1>4. CASE HostStatusOut
  BY <1>4 DEF HostStatusOut
<1>5. CASE HostStalled \/ HostAbort
  BY <1>5 DEF HostStalled, HostAbort
<1>6. CASE IsrSetup
  BY <1>6 DEF IsrSetup
<1>7. CASE IsrOut
  BY <1>7 DEF IsrOut
<1>8. CASE IsrIn
  BY <1>8 DEF IsrIn, CMD_VALID_BUF
<1>9. CASE BusReset
  BY <1>9 DEF BusReset
<1>10. CASE Poll
  BY <1>10 DEF Poll, RequestKinds
<1>11. CASE ClearSETUP
  BY <1>11 DEF ClearSETUP
<1>12. CASE Return
  BY <1>12 DEF Return
<1>13. CASE Endpoint_StallTransaction
  BY <1>13 DEF Endpoint_StallTransaction
<1>14. CASE ClearSETUP_CLR_BUF
  <2>1. CASE then = "stall"
    BY <1>14, <2>1 DEF ClearSETUP_CLR_BUF, CMD_CLR_BUF
  <2>2. CASE then = "handle"
    BY <1>14, <2>2 DEF ClearSETUP_CLR_BUF, CMD_CLR_BUF, FirstStep, RequestKinds
  <2> QED BY <1>14, <2>1, <2>2 DEF ClearSETUP_CLR_BUF
<1>15. CASE WaitUntilReady
  BY <1>15 DEF WaitUntilReady
<1>16. CASE WaitAgain
  BY <1>16 DEF WaitAgain
<1>17. CASE WaitINReady
  BY <1>17 DEF WaitINReady
<1>18. CASE WaitTimeout \/ Write
  BY <1>18 DEF WaitTimeout, Write
<1>19. CASE Read
  BY <1>19 DEF Read
<1>20. CASE ClearOUT \/ ClearOUT_CLR_BUF \/ ClearOUT_flag
  BY <1>20 DEF ClearOUT, ClearOUT_CLR_BUF, CMD_CLR_BUF, ClearOUT_flag
<1>21. CASE Load
  BY <1>21 DEF Load
<1>22. CASE ClearIN
  BY <1>22 DEF ClearIN
<1>23. CASE ClearIN_SEL_EP
  BY <1>23 DEF ClearIN_SEL_EP
<1>24. CASE ClearIN_VALID_BUF
  BY <1>24 DEF ClearIN_VALID_BUF, CMD_VALID_BUF
<1> QED BY <1>1, <1>2, <1>3, <1>4, <1>5, <1>6, <1>7, <1>8, <1>9, <1>10, <1>11, <1>12,
           <1>13, <1>14, <1>15, <1>16, <1>17, <1>18, <1>19, <1>20, <1>21, <1>22, <1>23,
           <1>24, HostSteps DEF EpNext, Interrupt, Task

LEMMA HostBehindKept ==
  ASSUME Polls, EpTypeOK, BuffersKept, DataTypes, TransferInv, EpNext, HostBehind
  PROVE  HostBehind'
<1> USE DEF EpTypeOK, BuffersKept, DataTypes, DataPackets, TransferInv, HostFacts,
            QuietBefore, BeforeAnswer, Begun, Body, LastSetup, Ordered, NoneEarly, Kinds,
            Quiet, Unseen, Downloading, Clearing, Answered, host, controller, flags,
            buffer, remain, task, At, Free, SetupPacket, NoPacket, DataPacket, HostBehind,
            Behind
<1>1. CASE AnySetup
  <2>1. PICK r \in RequestKinds, n \in 0 .. BufferSize : HostSetup(r, n)
    BY <1>1 DEF AnySetup
  <2>2. setup'.transfer = setup.transfer + 1 /\ setup'.bRequest = r /\ setup.transfer \in Nat
    BY <2>1, EndpointAssumption DEF HostSetup, Setup
  <2>3. r \in {"DNLOAD", "UPLOAD", "CLRSTATUS"} => ~PollDue
    BY <2>1 DEF HostSetup
  <2>4. acked' = acked /\ acked # setup'.transfer
    BY <2>1, <2>2 DEF HostSetup
  <2>5. Quiet'
    BY <2>1, <2>4 DEF HostSetup, FirstStage, RequestKinds
  <2> QED BY <2>1, <2>2, <2>3, <2>5 DEF HostSetup, PollDue, RequestKinds
<1>2. CASE HostOut
  BY <1>2 DEF HostOut
<1>3. CASE HostIn
  BY <1>3 DEF HostIn
<1>4. CASE HostStatusOut
  BY <1>4 DEF HostStatusOut
<1>5. CASE HostStalled \/ HostAbort
  BY <1>5 DEF HostStalled, HostAbort
<1>6. CASE IsrSetup
  BY <1>6 DEF IsrSetup
<1>7. CASE IsrOut
  BY <1>7 DEF IsrOut
<1>8. CASE IsrIn
  BY <1>8 DEF IsrIn, CMD_VALID_BUF
<1>9. CASE BusReset
  BY <1>9 DEF BusReset
<1>10. CASE Poll
  BY <1>10 DEF Poll
<1>11. CASE ClearSETUP
  BY <1>11 DEF ClearSETUP
<1>12. CASE Return
  BY <1>12 DEF Return
<1>13. CASE Endpoint_StallTransaction
  BY <1>13 DEF Endpoint_StallTransaction
<1>14. CASE ClearSETUP_CLR_BUF
  <2>1. CASE then = "stall"
    BY <1>14, <2>1 DEF ClearSETUP_CLR_BUF, CMD_CLR_BUF
  <2>2. CASE then = "handle"
    BY <1>14, <2>2 DEF ClearSETUP_CLR_BUF, CMD_CLR_BUF, FirstStep, RequestKinds
  <2> QED BY <1>14, <2>1, <2>2 DEF ClearSETUP_CLR_BUF
<1>15. CASE WaitUntilReady
  BY <1>15 DEF WaitUntilReady
<1>16. CASE WaitAgain
  BY <1>16 DEF WaitAgain
<1>17. CASE WaitINReady
  BY <1>17 DEF WaitINReady
<1>18. CASE WaitTimeout \/ Write
  BY <1>18 DEF WaitTimeout, Write
<1>19. CASE Read
  BY <1>19 DEF Read
<1>20. CASE ClearOUT \/ ClearOUT_CLR_BUF \/ ClearOUT_flag
  BY <1>20 DEF ClearOUT, ClearOUT_CLR_BUF, CMD_CLR_BUF, ClearOUT_flag
<1>21. CASE Load
  BY <1>21 DEF Load
<1>22. CASE ClearIN
  BY <1>22 DEF ClearIN
<1>23. CASE ClearIN_SEL_EP
  BY <1>23 DEF ClearIN_SEL_EP
<1>24. CASE ClearIN_VALID_BUF
  BY <1>24 DEF ClearIN_VALID_BUF, CMD_VALID_BUF
<1> QED BY <1>1, <1>2, <1>3, <1>4, <1>5, <1>6, <1>7, <1>8, <1>9, <1>10, <1>11, <1>12,
           <1>13, <1>14, <1>15, <1>16, <1>17, <1>18, <1>19, <1>20, <1>21, <1>22, <1>23,
           <1>24, HostSteps DEF EpNext, Interrupt, Task

LEMMA ReadSize ==
  ASSUME EpTypeOK, BuffersKept, DataTypes, Downloading
  PROVE  /\ ToRead \in Nat /\ 0 < ToRead /\ ToRead <= PacketSize
         /\ firmware_offset \in Nat /\ request.wLength \in Nat /\ request.wLength <= BufferSize
         /\ firmware_offset < request.wLength
         /\ firmware_offset + ToRead = Least(firmware_offset + PacketSize, request.wLength)
         /\ firmware_offset + ToRead <= request.wLength
<1>1. PacketSize \in Nat /\ 0 < PacketSize /\ BufferSize \in Nat
  BY EndpointAssumption
<1>2. firmware_offset \in Nat /\ firmware_offset < request.wLength
  BY DEF BuffersKept
<1>3. request.wLength \in Nat /\ request.wLength <= BufferSize
  BY <1>1 DEF EpTypeOK
<1> QED BY <1>1, <1>2, <1>3 DEF ToRead, Least

LEMMA NextData ==
  ASSUME EpTypeOK, BuffersKept, DataTypes, Downloading
  PROVE  /\ NextUnits \in Seq(Unit) /\ Len(NextUnits) = ToRead
         /\ \A i \in 1 .. ToRead : NextUnits[i] = <<request.transfer, firmware_offset + i>>
<1> DEFINE first == firmware_offset + 1
           last == firmware_offset + ToRead
<1>1. ToRead \in Nat /\ firmware_offset \in Nat
  BY ReadSize
<1>2. first \in Nat /\ last \in Nat /\ first - 1 <= last /\ last - first + 1 = ToRead
      /\ \A i \in Nat : first + i - 1 = firmware_offset + i
  BY <1>1
<1>3. request.transfer \in 0 .. MaxTransfers
  BY DEF EpTypeOK
<1>4. NextUnits = Units(request.transfer, first, last)
  BY DEF NextUnits
<1> HIDE DEF first, last
<1>5. /\ Units(request.transfer, first, last) \in Seq(Unit)
      /\ Len(Units(request.transfer, first, last)) = last - first + 1
      /\ \A i \in 1 .. (last - first + 1) :
            Units(request.transfer, first, last)[i] = <<request.transfer, first + i - 1>>
  BY <1>2, <1>3, UnitsData
<1>6. ASSUME NEW i \in 1 .. ToRead
      PROVE  NextUnits[i] = <<request.transfer, firmware_offset + i>>
  <2>1. i \in Nat /\ i \in 1 .. (last - first + 1)
    BY <1>1, <1>2
  <2> QED BY <1>2, <1>4, <1>5, <2>1
<1> QED BY <1>2, <1>4, <1>5, <1>6

\* A new SETUP packet: the handler's request is no longer the host's.
LEMMA NewSetup ==
  ASSUME EpTypeOK, Ordered, AnySetup
  PROVE  /\ Ok' => Ok
         /\ setup' # request /\ outBuf' = SetupPacket
         /\ UNCHANGED <<flags, buffer, remain, task>>
<1>1. PICK r \in RequestKinds, n \in 0 .. BufferSize : HostSetup(r, n)
  BY DEF AnySetup
<1>2. setup'.transfer = setup.transfer + 1 /\ setup.transfer \in Nat /\ request.transfer \in Nat
  BY <1>1, EndpointAssumption DEF HostSetup, Setup, EpTypeOK
<1>3. request.transfer <= setup.transfer
  BY DEF Ordered
<1>4. request' = request /\ resets' = resets
  BY <1>1 DEF HostSetup, task
<1>5. request.transfer # setup'.transfer
  BY <1>2, <1>3
<1> QED BY <1>1, <1>4, <1>5 DEF HostSetup, Ok, Wanted

LEMMA AwaitedKept ==
  ASSUME EpTypeOK, BuffersKept, DataTypes, TransferInv, StaleFlag, HostBehind, BlockInv, EpNext
  PROVE  Awaited'
<1> USE DEF EpTypeOK, BuffersKept, DataTypes, DataPackets, TransferInv, HostFacts,
            QuietBefore, BeforeAnswer, Begun, Body, LastSetup, Ordered, NoneEarly, Kinds,
            Quiet, Unseen, Downloading, Clearing, Answered, host, controller, flags,
            buffer, remain, task, At, Free, SetupPacket, NoPacket, DataPacket, StaleFlag,
            HostBehind, Behind, BlockInv, Awaited, Received, Copied, Taken, Wanted, Ok,
            Sending, Held, Whole, ToRead, NextUnits
<1>1. CASE AnySetup
  BY <1>1 DEF AnySetup, HostSetup, Setup, FirstStage, RequestKinds, PollDue
<1>2. CASE HostOut
  <2> SUFFICES ASSUME Ok, pc \in {"wait", "waiting"} \/ (pc = "out_flag" /\ then = "wait")
               PROVE  /\ outBuf'.data = NextUnits /\ setup = request /\ outBuf' # Free
                      /\ moved' = firmware_offset + ToRead
    BY <1>2 DEF HostOut
  <2>1. Downloading /\ stage = "out" /\ outBuf = Free /\ ~stalled
    BY <1>2 DEF HostOut
  <2>2. setup = request
    BY <2>1
  <2>3. moved = firmware_offset
    BY <2>1, <2>2
  <2>4. moved' = firmware_offset + ToRead
    <3> HIDE DEF ToRead
    <3> QED BY <1>2, <2>1, <2>2, <2>3, ReadSize DEF HostOut
  <2>5. outBuf' = DataPacket(Units(setup.transfer, moved + 1, moved'))
    BY <1>2 DEF HostOut
  <2> QED BY <2>2, <2>3, <2>4, <2>5
<1>3. CASE HostIn
  BY <1>3 DEF HostIn
<1>4. CASE HostStatusOut
  BY <1>4 DEF HostStatusOut
<1>5. CASE HostStalled \/ HostAbort
  BY <1>5 DEF HostStalled, HostAbort
<1>6. CASE IsrSetup
  BY <1>6 DEF IsrSetup
<1>7. CASE IsrOut
  BY <1>7 DEF IsrOut
<1>8. CASE IsrIn
  BY <1>8 DEF IsrIn, CMD_VALID_BUF
<1>9. CASE BusReset
  BY <1>9 DEF BusReset
<1>10. CASE Poll
  BY <1>10 DEF Poll
<1>11. CASE ClearSETUP
  BY <1>11 DEF ClearSETUP
<1>12. CASE Return
  BY <1>12 DEF Return
<1>13. CASE Endpoint_StallTransaction
  BY <1>13 DEF Endpoint_StallTransaction
<1>14. CASE ClearSETUP_CLR_BUF
  BY <1>14 DEF ClearSETUP_CLR_BUF, CMD_CLR_BUF, FirstStep
<1>15. CASE WaitUntilReady
  BY <1>15 DEF WaitUntilReady
<1>16. CASE WaitAgain
  BY <1>16 DEF WaitAgain
<1>17. CASE WaitINReady
  BY <1>17 DEF WaitINReady
<1>18. CASE WaitTimeout \/ Write
  BY <1>18 DEF WaitTimeout, Write
<1>19. CASE Read
  BY <1>19 DEF Read
<1>20. CASE ClearOUT
  BY <1>20 DEF ClearOUT
<1>21. CASE ClearOUT_CLR_BUF
  BY <1>21 DEF ClearOUT_CLR_BUF, CMD_CLR_BUF
<1>22. CASE ClearOUT_flag
  BY <1>22 DEF ClearOUT_flag
<1>23. CASE Load
  BY <1>23 DEF Load
<1>24. CASE ClearIN
  BY <1>24 DEF ClearIN
<1>25. CASE ClearIN_SEL_EP
  BY <1>25 DEF ClearIN_SEL_EP
<1>26. CASE ClearIN_VALID_BUF
  BY <1>26 DEF ClearIN_VALID_BUF, CMD_VALID_BUF
<1> QED BY <1>1, <1>2, <1>3, <1>4, <1>5, <1>6, <1>7, <1>8, <1>9, <1>10, <1>11, <1>12,
           <1>13, <1>14, <1>15, <1>16, <1>17, <1>18, <1>19, <1>20, <1>21, <1>22, <1>23,
           <1>24, <1>25, <1>26, HostSteps DEF EpNext, Interrupt, Task

LEMMA ReceivedKept ==
  ASSUME EpTypeOK, BuffersKept, DataTypes, TransferInv, StaleFlag, HostBehind, BlockInv, EpNext
  PROVE  Received'
<1> USE DEF EpTypeOK, BuffersKept, DataTypes, DataPackets, TransferInv, HostFacts,
            QuietBefore, BeforeAnswer, Begun, Body, LastSetup, Ordered, NoneEarly, Kinds,
            Quiet, Unseen, Downloading, Clearing, Answered, host, controller, flags,
            buffer, remain, task, At, Free, SetupPacket, NoPacket, DataPacket, StaleFlag,
            HostBehind, Behind, BlockInv, Awaited, Received, Copied, Taken, Wanted, Ok,
            Sending, Held, Whole, ToRead, NextUnits
<1>1. CASE AnySetup
  <2>1. Held'
    BY <1>1, NewSetup
  <2> QED BY <1>1, <2>1, NewSetup
<1>2. CASE HostOut
  BY <1>2 DEF HostOut
<1>3. CASE HostIn
  BY <1>3 DEF HostIn
<1>4. CASE HostStatusOut
  BY <1>4 DEF HostStatusOut
<1>5. CASE HostStalled \/ HostAbort
  BY <1>5 DEF HostStalled, HostAbort
<1>6. CASE IsrSetup
  <2>1. usb_data_buffer_size' # 0 /\ UNCHANGED <<usb_data_buffer, outBuf, host, task, isOutReceived, stalled>>
    BY <1>6 DEF IsrSetup
  <2>2. outInt' = FALSE
    BY <1>6 DEF IsrSetup
  <2>3. CASE Ok /\ ((pc \in {"wait", "waiting"} /\ isOutReceived) \/ pc = "read")
    BY <2>1, <2>2, <2>3
  <2> QED BY <2>1, <2>3
<1>7. CASE IsrOut
  <2> SUFFICES ASSUME Ok, (pc \in {"wait", "waiting"} /\ isOutReceived') \/ pc = "read"
               PROVE  /\ Held' /\ usb_data_buffer_size' # 0
                      /\ Sending => moved = firmware_offset + ToRead
                      /\ \A i \in 1 .. ToRead :
                            usb_data_buffer'[i - 1] = <<request.transfer, firmware_offset + i>>
    BY <1>7 DEF IsrOut
  <2>1. outInt /\ outBuf # SetupPacket /\ outBuf' = outBuf /\ outInt' = FALSE
        /\ usb_data_buffer_size' = Len(outBuf.data)
        /\ usb_data_buffer' = Overwrite(usb_data_buffer, 0, outBuf.data)
    BY <1>7 DEF IsrOut
  <2>2. pc \in {"wait", "waiting"} /\ Downloading
    BY <2>1
  <2>3. outBuf.data = NextUnits /\ (Sending => moved = firmware_offset + ToRead)
    BY <2>1, <2>2
  <2>4. outBuf # Free
    BY <2>1
  <2> HIDE DEF NextUnits, ToRead
  <2>5. usb_data_buffer \in Array /\ 0 \in Nat
    OBVIOUS
  <2>6. /\ NextUnits \in Seq(Unit) /\ Len(NextUnits) = ToRead
        /\ ToRead \in Nat /\ 0 < ToRead /\ ToRead <= BufferSize
        /\ \A i \in 1 .. ToRead : NextUnits[i] = <<request.transfer, firmware_offset + i>>
    <3>1. firmware_offset + ToRead <= request.wLength /\ request.wLength <= BufferSize
          /\ firmware_offset \in Nat /\ ToRead \in Nat /\ request.wLength \in Nat /\ BufferSize \in Nat
      BY <2>2, ReadSize, EndpointAssumption
    <3>2. ToRead <= BufferSize
      BY <3>1
    <3> QED BY <2>2, <3>1, <3>2, NextData, ReadSize
  <2>7. ASSUME NEW i \in 1 .. ToRead
        PROVE  usb_data_buffer'[i - 1] = <<request.transfer, firmware_offset + i>>
    <3> HIDE DEF EpTypeOK, BuffersKept, DataTypes, TransferInv, BlockInv, HostBehind, StaleFlag
    <3>1. BufferSize \in Nat
      BY EndpointAssumption
    <3>2. 0 + i - 1 < BufferSize /\ 0 + i - 1 = i - 1 /\ i \in 1 .. Len(NextUnits)
      BY <2>6, <3>1
    <3>3. Overwrite(usb_data_buffer, 0, NextUnits)[0 + i - 1] = NextUnits[i]
      BY <2>5, <2>6, <3>2, OverwriteData
    <3>4. usb_data_buffer' = Overwrite(usb_data_buffer, 0, NextUnits)
      BY <2>1, <2>3
    <3>5. 0 + i - 1 = i - 1
      BY <3>2
    <3>6. usb_data_buffer'[i - 1] = NextUnits[i]
      BY <3>3, <3>4, <3>5, Zenon
    <3>7. NextUnits[i] = <<request.transfer, firmware_offset + i>>
      BY <2>6, Zenon
    <3> QED BY <3>6, <3>7, Zenon
  <2>8. Held'
    BY <2>1, <2>4
  <2>9. usb_data_buffer_size' # 0
    BY <2>1, <2>3, <2>6
  <2> QED BY <2>3, <2>7, <2>8, <2>9
<1>8. CASE IsrIn
  BY <1>8 DEF IsrIn, CMD_VALID_BUF
<1>9. CASE BusReset
  BY <1>9 DEF BusReset
<1>10. CASE Poll
  BY <1>10 DEF Poll
<1>11. CASE ClearSETUP
  BY <1>11 DEF ClearSETUP
<1>12. CASE Return
  BY <1>12 DEF Return
<1>13. CASE Endpoint_StallTransaction
  BY <1>13 DEF Endpoint_StallTransaction
<1>14. CASE ClearSETUP_CLR_BUF
  BY <1>14 DEF ClearSETUP_CLR_BUF, CMD_CLR_BUF, FirstStep
<1>15. CASE WaitUntilReady
  BY <1>15 DEF WaitUntilReady
<1>16. CASE WaitAgain
  BY <1>16 DEF WaitAgain
<1>17. CASE WaitINReady
  BY <1>17 DEF WaitINReady
<1>18. CASE WaitTimeout \/ Write
  BY <1>18 DEF WaitTimeout, Write
<1>19. CASE Read
  BY <1>19 DEF Read
<1>20. CASE ClearOUT
  BY <1>20 DEF ClearOUT
<1>21. CASE ClearOUT_CLR_BUF
  BY <1>21 DEF ClearOUT_CLR_BUF, CMD_CLR_BUF
<1>22. CASE ClearOUT_flag
  BY <1>22 DEF ClearOUT_flag
<1>23. CASE Load
  BY <1>23 DEF Load
<1>24. CASE ClearIN
  BY <1>24 DEF ClearIN
<1>25. CASE ClearIN_SEL_EP
  BY <1>25 DEF ClearIN_SEL_EP
<1>26. CASE ClearIN_VALID_BUF
  BY <1>26 DEF ClearIN_VALID_BUF, CMD_VALID_BUF
<1> QED BY <1>1, <1>2, <1>3, <1>4, <1>5, <1>6, <1>7, <1>8, <1>9, <1>10, <1>11, <1>12,
           <1>13, <1>14, <1>15, <1>16, <1>17, <1>18, <1>19, <1>20, <1>21, <1>22, <1>23,
           <1>24, <1>25, <1>26, HostSteps DEF EpNext, Interrupt, Task

LEMMA CopiedKept ==
  ASSUME EpTypeOK, BuffersKept, DataTypes, TransferInv, StaleFlag, HostBehind, BlockInv, EpNext
  PROVE  Copied'
<1> USE DEF EpTypeOK, BuffersKept, DataTypes, DataPackets, TransferInv, HostFacts,
            QuietBefore, BeforeAnswer, Begun, Body, LastSetup, Ordered, NoneEarly, Kinds,
            Quiet, Unseen, Downloading, Clearing, Answered, host, controller, flags,
            buffer, remain, task, At, Free, SetupPacket, NoPacket, DataPacket, StaleFlag,
            HostBehind, Behind, BlockInv, Awaited, Received, Copied, Taken, Wanted, Ok,
            Sending, Held, Whole, ToRead, NextUnits
<1>1. CASE AnySetup
  BY <1>1, NewSetup
<1>2. CASE HostOut
  BY <1>2 DEF HostOut
<1>3. CASE HostIn
  BY <1>3 DEF HostIn
<1>4. CASE HostStatusOut
  BY <1>4 DEF HostStatusOut
<1>5. CASE HostStalled \/ HostAbort
  BY <1>5 DEF HostStalled, HostAbort
<1>6. CASE IsrSetup
  BY <1>6 DEF IsrSetup
<1>7. CASE IsrOut
  BY <1>7 DEF IsrOut
<1>8. CASE IsrIn
  BY <1>8 DEF IsrIn, CMD_VALID_BUF
<1>9. CASE BusReset
  BY <1>9 DEF BusReset
<1>10. CASE Poll
  BY <1>10 DEF Poll
<1>11. CASE ClearSETUP
  BY <1>11 DEF ClearSETUP
<1>12. CASE Return
  BY <1>12 DEF Return
<1>13. CASE Endpoint_StallTransaction
  BY <1>13 DEF Endpoint_StallTransaction
<1>14. CASE ClearSETUP_CLR_BUF
  <2>1. CASE pc' = "wait"
    <3>1. firmware_offset' = 0 /\ ~\E i \in 1 .. 0 : TRUE
      BY <1>14, <2>1 DEF ClearSETUP_CLR_BUF
    <3> QED BY <2>1, <3>1
  <2>2. CASE pc' # "wait"
    BY <1>14, <2>2 DEF ClearSETUP_CLR_BUF, FirstStep
  <2> QED BY <2>1, <2>2
<1>15. CASE WaitUntilReady
  BY <1>15 DEF WaitUntilReady
<1>16. CASE WaitAgain
  BY <1>16 DEF WaitAgain
<1>17. CASE WaitINReady
  BY <1>17 DEF WaitINReady
<1>18. CASE WaitTimeout \/ Write
  BY <1>18 DEF WaitTimeout, Write
<1>19. CASE Read
  <2> SUFFICES ASSUME Ok
               PROVE  /\ \A i \in 1 .. (firmware_offset + ToRead) :
                            firmware_data'[i - 1] = <<request.transfer, i>>
                      /\ then' = "write" => firmware_offset + ToRead = request.wLength
    <3>1. Ok' => Ok
      BY <1>19 DEF Read
    <3>2. request' = request /\ firmware_offset' = firmware_offset + ToRead /\ pc' = "out"
      BY <1>19 DEF Read
    <3> HIDE DEF ToRead, Ok
    <3> QED BY <3>1, <3>2
  <2>1. Downloading /\ Received /\ Whole(firmware_offset)
    BY <1>19 DEF Read
  <2> HIDE DEF Downloading, ToRead
  <2>2. /\ ToRead \in Nat /\ 0 < ToRead /\ firmware_offset \in Nat /\ request.wLength \in Nat
        /\ firmware_offset + ToRead <= request.wLength /\ request.wLength <= BufferSize /\ BufferSize \in Nat
    BY <2>1, ReadSize, EndpointAssumption
  <2>3. then' = "write" => firmware_offset + ToRead = request.wLength
    BY <1>19, <2>2 DEF Read, ToRead
  <2>4. usb_data_buffer_index = 0 /\ usb_data_buffer_size # 0
    BY <1>19, <2>1 DEF Read
  <2> DEFINE packet == Slice(usb_data_buffer, 0, ToRead)
  <2>5. firmware_data' = Overwrite(firmware_data, firmware_offset, packet)
    BY <1>19, <2>4 DEF Read, ToRead
  <2>6. \A i \in 1 .. ToRead : usb_data_buffer[i - 1] = <<request.transfer, firmware_offset + i>>
    BY <1>19, <2>1 DEF Read
  <2>7. \A i \in 1 .. firmware_offset : firmware_data[i - 1] = <<request.transfer, i>>
    BY <2>1
  <2>8. usb_data_buffer \in Array /\ firmware_data \in Array /\ 0 \in Nat
    OBVIOUS
  <2> HIDE DEF EpTypeOK, BuffersKept, DataTypes, TransferInv, BlockInv, HostBehind, StaleFlag
  <2>9. packet \in Seq(Unit) /\ Len(packet) = ToRead
        /\ \A i \in 1 .. ToRead : 0 + i - 1 < BufferSize => packet[i] = usb_data_buffer[0 + i - 1]
    BY <2>2, <2>8, SliceData
  <2> HIDE DEF packet
  <2>10. ASSUME NEW i \in 1 .. (firmware_offset + ToRead)
         PROVE  firmware_data'[i - 1] = <<request.transfer, i>>
    <3>1. CASE i <= firmware_offset
      <4>1. i \in 1 .. firmware_offset /\ i - 1 \in 0 .. (BufferSize - 1) /\ i - 1 < firmware_offset
        BY <2>2, <3>1
      <4>2. Overwrite(firmware_data, firmware_offset, packet)[i - 1] = firmware_data[i - 1]
        BY <2>2, <2>8, <2>9, <4>1, OverwriteData
      <4> QED BY <2>5, <2>7, <4>1, <4>2
    <3>2. CASE i > firmware_offset
      <4> DEFINE k == i - firmware_offset
      <4>1. k \in 1 .. ToRead /\ firmware_offset + k - 1 = i - 1 /\ firmware_offset + k - 1 < BufferSize
            /\ 0 + k - 1 < BufferSize /\ 0 + k - 1 = k - 1 /\ firmware_offset + k = i
        BY <2>2, <3>2
      <4> HIDE DEF k
      <4>2. Overwrite(firmware_data, firmware_offset, packet)[firmware_offset + k - 1] = packet[k]
        BY <2>2, <2>8, <2>9, <4>1, OverwriteData
      <4>3. packet[k] = usb_data_buffer[k - 1]
        BY <2>9, <4>1
      <4> QED BY <2>5, <2>6, <4>1, <4>2, <4>3
    <3> QED BY <2>2, <3>1, <3>2
  <2> QED BY <2>3, <2>10
<1>20. CASE ClearOUT
  BY <1>20 DEF ClearOUT
<1>21. CASE ClearOUT_CLR_BUF
  BY <1>21 DEF ClearOUT_CLR_BUF, CMD_CLR_BUF
<1>22. CASE ClearOUT_flag
  BY <1>22 DEF ClearOUT_flag
<1>23. CASE Load
  BY <1>23 DEF Load
<1>24. CASE ClearIN
  BY <1>24 DEF ClearIN
<1>25. CASE ClearIN_SEL_EP
  BY <1>25 DEF ClearIN_SEL_EP
<1>26. CASE ClearIN_VALID_BUF
  BY <1>26 DEF ClearIN_VALID_BUF, CMD_VALID_BUF
<1> QED BY <1>1, <1>2, <1>3, <1>4, <1>5, <1>6, <1>7, <1>8, <1>9, <1>10, <1>11, <1>12,
           <1>13, <1>14, <1>15, <1>16, <1>17, <1>18, <1>19, <1>20, <1>21, <1>22, <1>23,
           <1>24, <1>25, <1>26, HostSteps DEF EpNext, Interrupt, Task

LEMMA TakenKept ==
  ASSUME EpTypeOK, BuffersKept, DataTypes, TransferInv, StaleFlag, HostBehind, BlockInv, EpNext
  PROVE  Taken'
<1> USE DEF EpTypeOK, BuffersKept, DataTypes, DataPackets, TransferInv, HostFacts,
            QuietBefore, BeforeAnswer, Begun, Body, LastSetup, Ordered, NoneEarly, Kinds,
            Quiet, Unseen, Downloading, Clearing, Answered, host, controller, flags,
            buffer, remain, task, At, Free, SetupPacket, NoPacket, DataPacket, StaleFlag,
            HostBehind, Behind, BlockInv, Awaited, Received, Copied, Taken, Wanted, Ok,
            Sending, Held, Whole, ToRead, NextUnits
<1>1. CASE AnySetup
  <2>1. Held'
    BY <1>1, NewSetup
  <2> QED BY <1>1, <2>1, NewSetup
<1>2. CASE HostOut
  BY <1>2 DEF HostOut
<1>3. CASE HostIn
  BY <1>3 DEF HostIn
<1>4. CASE HostStatusOut
  BY <1>4 DEF HostStatusOut
<1>5. CASE HostStalled \/ HostAbort
  BY <1>5 DEF HostStalled, HostAbort
<1>6. CASE IsrSetup
  BY <1>6 DEF IsrSetup
<1>7. CASE IsrOut
  BY <1>7 DEF IsrOut
<1>8. CASE IsrIn
  BY <1>8 DEF IsrIn, CMD_VALID_BUF
<1>9. CASE BusReset
  BY <1>9 DEF BusReset
<1>10. CASE Poll
  BY <1>10 DEF Poll
<1>11. CASE ClearSETUP
  BY <1>11 DEF ClearSETUP
<1>12. CASE Return
  BY <1>12 DEF Return
<1>13. CASE Endpoint_StallTransaction
  BY <1>13 DEF Endpoint_StallTransaction
<1>14. CASE ClearSETUP_CLR_BUF
  BY <1>14 DEF ClearSETUP_CLR_BUF, CMD_CLR_BUF, FirstStep
<1>15. CASE WaitUntilReady
  BY <1>15 DEF WaitUntilReady
<1>16. CASE WaitAgain
  BY <1>16 DEF WaitAgain
<1>17. CASE WaitINReady
  BY <1>17 DEF WaitINReady
<1>18. CASE WaitTimeout \/ Write
  BY <1>18 DEF WaitTimeout, Write
<1>19. CASE Read
  BY <1>19 DEF Read
<1>20. CASE ClearOUT
  BY <1>20 DEF ClearOUT
<1>21. CASE ClearOUT_CLR_BUF
  BY <1>21 DEF ClearOUT_CLR_BUF, CMD_CLR_BUF
<1>22. CASE ClearOUT_flag
  BY <1>22 DEF ClearOUT_flag
<1>23. CASE Load
  BY <1>23 DEF Load
<1>24. CASE ClearIN
  BY <1>24 DEF ClearIN
<1>25. CASE ClearIN_SEL_EP
  BY <1>25 DEF ClearIN_SEL_EP
<1>26. CASE ClearIN_VALID_BUF
  BY <1>26 DEF ClearIN_VALID_BUF, CMD_VALID_BUF
<1> QED BY <1>1, <1>2, <1>3, <1>4, <1>5, <1>6, <1>7, <1>8, <1>9, <1>10, <1>11, <1>12,
           <1>13, <1>14, <1>15, <1>16, <1>17, <1>18, <1>19, <1>20, <1>21, <1>22, <1>23,
           <1>24, <1>25, <1>26, HostSteps DEF EpNext, Interrupt, Task

LEMMA BlockStart == EpInit => StaleFlag /\ HostBehind /\ BlockInv
<1> SUFFICES ASSUME EpInit PROVE StaleFlag /\ HostBehind /\ BlockInv
  OBVIOUS
<1>1. Downloading = FALSE /\ Begun = FALSE
  BY DEF EpInit, Downloading, Begun
<1> QED BY <1>1 DEF EpInit, StaleFlag, HostBehind, BlockInv, Awaited, Received, Copied, Taken,
                    Clearing, Unseen, Free, SetupPacket

BlockKnown == Known /\ StaleFlag /\ HostBehind /\ BlockInv

LEMMA BlockKnownKept == ASSUME Polls PROVE BlockKnown /\ [EpNext]_epVars => BlockKnown'
<1>1. ASSUME BlockKnown, UNCHANGED epVars PROVE BlockKnown'
  <2>1. Known'
    BY <1>1, KnownKept DEF BlockKnown
  <2>2. StaleFlag' /\ HostBehind'
    BY <1>1 DEF BlockKnown, StaleFlag, HostBehind, Behind, Begun, Downloading, Quiet, Unseen, Clearing,
                epVars, host, controller, flags, buffer, remain, task
  <2>3. BlockInv'
    BY <1>1 DEF BlockKnown, BlockInv, Awaited, Received, Copied, Taken, Ok, Wanted, Whole, ToRead,
                NextUnits, Sending, Held, Downloading, Clearing, epVars, host, controller, flags, buffer,
                remain, task
  <2> QED BY <2>1, <2>2, <2>3 DEF BlockKnown
<1>2. ASSUME BlockKnown, EpNext PROVE BlockKnown'
  <2>1. Known' /\ EpTypeOK /\ BuffersKept /\ DataTypes /\ TransferInv
    BY <1>2, KnownKept DEF BlockKnown, Known, EpInv
  <2>2. StaleFlag' /\ HostBehind'
    BY <1>2, <2>1, StaleFlagKept, HostBehindKept DEF BlockKnown
  <2>3. BlockInv'
    BY <1>2, <2>1, AwaitedKept, ReceivedKept, CopiedKept, TakenKept DEF BlockKnown, BlockInv
  <2> QED BY <2>1, <2>2, <2>3 DEF BlockKnown
<1> QED BY <1>1, <1>2

(***************************************************************************)
(* A block goes to the flash whole and in order (EVENT_USB_Device_-        *)
(* ControlRequest, DFU_DNLOAD, with Endpoint_ClearOUT and SlaveEndpoint-   *)
(* ISR), for every host that polls GETSTATUS after a download, whatever    *)
(* transfers it gives up and wherever bus resets fall.                     *)
(***************************************************************************)
THEOREM EpBlockIntact == ASSUME Polls PROVE EpSpec => []BlockIntact
<1>1. EpInit => BlockKnown
  BY KnownStart, BlockStart DEF BlockKnown
<1>2. BlockKnown /\ [EpNext]_epVars => BlockKnown'
  BY BlockKnownKept
<1>3. BlockKnown => BlockIntact
  BY DEF BlockKnown, BlockInv, Copied, Ok, Whole, BlockIntact
<1> QED BY <1>1, <1>2, <1>3, PTL DEF EpSpec

-----------------------------------------------------------------------------
(***************************************************************************)
(* The answer, for a host that does not give up.  From its SETUP packet to *)
(* the end of the handler's body (Busy) such a host waits in its transfer, *)
(* so the handler's request is the host's (Turns), and it sees a transfer  *)
(* complete only when the handler has dealt with it (Deals).  What the     *)
(* interrupt sends next is counted in DataInRemainCount and -Offset, which *)
(* are back at 0 when the IN side is ready (RemainInv).  The other four    *)
(* follow an answer from usb_data_buffer to the host.                      *)
(***************************************************************************)
Fresh == SETUPReceived \/ outBuf = SetupPacket
Refusing == pc = "stall" \/ (pc \in {"setup", "setup_clr"} /\ then = "stall")
Busy == Begun \/ Body \/ Refusing \/ Fresh

Turns ==
    /\ Busy => stage # "idle" /\ ~stalled /\ Quiet
    /\ Body \/ pc = "stall" => ~Fresh
    /\ SETUPReceived => SetupPackage = setup /\ ~Unseen
    /\ outBuf = SetupPacket => outInt \/ SETUPReceived \/ pc = "setup_clr"
    /\ pc = "setup" => SETUPReceived
    /\ pc = "setup_clr" => ~SETUPReceived /\ sel = 0 /\ ~inInt /\ ~Unseen
    /\ Begun \/ Body => request = setup

Dealt(t) == served[t] \notin {"nothing", "stalled"}

Deals ==
    /\ pc \in {"in_write", "in_sel", "in_valid"} \/ (pc \in Clearing /\ then = "in_write") =>
          Dealt(request.transfer)
    /\ ~Quiet /\ setup.transfer # 0 => Dealt(setup.transfer)
    /\ Body \/ Begun => request.transfer # 0

RemainInv ==
   /\ isInReady => DataInRemainCount = 0 /\ DataInRemainOffset = 0
   /\ DataInRemainCount = 0 /\ ~shortpacket => DataInRemainOffset = 0
   /\ inInt => inBuf = NoPacket
   /\ \A p \in {setup, SetupPackage, request} : p.bRequest = "GETSTATUS" => p.wLength < PacketSize

Holds(p) == \A i \in 1 .. p.wLength : usb_data_buffer[i - 1] = <<p.transfer, i>>
First(p) == Least(p.wLength, PacketSize)

Unanswered == stage = "in" => (outInt => outBuf = SetupPacket) /\ (Busy => answer = <<>>)

Loaded ==
    /\ pc \in {"in_load", "in_write"} /\ request.bRequest \in Answered /\ request.wLength >= PacketSize =>
          DataInRemainOffset = 0
    /\ pc \in {"in_write", "in_sel", "in_valid"} /\ request.bRequest \in Answered => Holds(request)
    /\ pc = "in_write" /\ request.bRequest \in Answered => usb_data_buffer_index = request.wLength

Written ==
    pc \in {"in_sel", "in_valid"} /\ request.bRequest \in Answered =>
       /\ inFifo = Slice(usb_data_buffer, 0, First(request))
       /\ DataInRemainCount = request.wLength - First(request)
       /\ DataInRemainCount > 0 => DataInRemainOffset = First(request)
       /\ pc = "in_valid" => sel = 1

Sent ==
    stage = "in" /\ ~Busy /\ ~stalled =>
       /\ Holds(setup)
       /\ \A i \in 1 .. Len(inBuf.data) : inBuf.data[i] = <<setup.transfer, Len(answer) + i>>
       /\ DataInRemainCount > 0 =>
             /\ DataInRemainOffset = Len(answer) + Len(inBuf.data)
             /\ DataInRemainOffset + DataInRemainCount <= setup.wLength

AnswerInv == Unanswered /\ Loaded /\ Written /\ Sent

\* A new SETUP packet, of a host that is in no transfer.
LEMMA SetupSent ==
  ASSUME EpTypeOK, HostFacts, AnySetup
  PROVE  /\ stage = "idle" /\ stage' \in {"out", "in", "status_in"}
         /\ setup'.transfer # 0 /\ setup'.transfer # setup.transfer
         /\ setup'.bRequest = "GETSTATUS" => setup'.wLength < PacketSize
         /\ outBuf' = SetupPacket /\ outInt' /\ ~stalled' /\ answer' = <<>> /\ Quiet'
         /\ UNCHANGED <<acked, sel, inInt, flags, buffer, remain, task, served>>
<1>1. PICK r \in RequestKinds, n \in 0 .. BufferSize : HostSetup(r, n) /\ (r = "GETSTATUS" => n < PacketSize)
  BY DEF AnySetup
<1>2. setup'.transfer = setup.transfer + 1 /\ setup'.bRequest = r /\ setup'.wLength = n
  BY <1>1 DEF HostSetup, Setup
<1>3. setup.transfer \in Nat /\ acked \in 0 .. setup.transfer
  BY EndpointAssumption DEF EpTypeOK, HostFacts
<1>4. acked' = acked /\ acked # setup'.transfer /\ setup'.transfer # 0 /\ setup'.transfer # setup.transfer
  BY <1>1, <1>2, <1>3 DEF HostSetup
<1>5. stage' \in {"out", "in", "status_in"} /\ outBuf' = SetupPacket /\ inBuf' = NoPacket
  BY <1>1 DEF HostSetup, FirstStage, RequestKinds
<1> QED BY <1>1, <1>2, <1>4, <1>5 DEF HostSetup, Quiet

LEMMA TurnsKept ==
  ASSUME MaxAborts = 0, EpTypeOK, BuffersKept, DataTypes, TransferInv, Turns, EpNext
  PROVE  Turns'
<1> USE DEF EpTypeOK, BuffersKept, DataTypes, DataPackets, TransferInv, HostFacts,
            QuietBefore, BeforeAnswer, Begun, Body, LastSetup, Ordered, NoneEarly, Kinds,
            Quiet, Unseen, Downloading, Clearing, Answered, host, controller, flags,
            buffer, remain, task, At, Free, SetupPacket, NoPacket, DataPacket, Turns,
            Fresh, Refusing, Busy
<1>1. CASE AnySetup
  BY <1>1, SetupSent
<1>2. CASE HostOut
  BY <1>2 DEF HostOut
<1>3. CASE HostIn
  BY <1>3 DEF HostIn
<1>4. CASE HostStatusOut
  BY <1>4 DEF HostStatusOut
<1>5. CASE HostStalled
  BY <1>5 DEF HostStalled
<1>6. CASE HostAbort
  BY <1>6 DEF HostAbort
<1>7. CASE IsrSetup
  BY <1>7 DEF IsrSetup
<1>8. CASE IsrOut
  BY <1>8 DEF IsrOut
<1>9. CASE IsrIn
  BY <1>9 DEF IsrIn, CMD_VALID_BUF
<1>10. CASE BusReset
  BY <1>10 DEF BusReset
<1>11. CASE Poll
  BY <1>11 DEF Poll
<1>12. CASE ClearSETUP
  BY <1>12 DEF ClearSETUP
<1>13. CASE Return
  BY <1>13 DEF Return
<1>14. CASE Endpoint_StallTransaction
  BY <1>14 DEF Endpoint_StallTransaction
<1>15. CASE ClearSETUP_CLR_BUF
  BY <1>15 DEF ClearSETUP_CLR_BUF, CMD_CLR_BUF, FirstStep
<1>16. CASE WaitUntilReady
  BY <1>16 DEF WaitUntilReady
<1>17. CASE WaitAgain
  BY <1>17 DEF WaitAgain
<1>18. CASE WaitINReady
  BY <1>18 DEF WaitINReady
<1>19. CASE WaitTimeout
  BY <1>19 DEF WaitTimeout
<1>20. CASE Write
  BY <1>20 DEF Write
<1>21. CASE Read
  BY <1>21 DEF Read
<1>22. CASE ClearOUT
  BY <1>22 DEF ClearOUT
<1>23. CASE ClearOUT_CLR_BUF
  BY <1>23 DEF ClearOUT_CLR_BUF, CMD_CLR_BUF
<1>24. CASE ClearOUT_flag
  BY <1>24 DEF ClearOUT_flag
<1>25. CASE Load
  BY <1>25 DEF Load
<1>26. CASE ClearIN
  BY <1>26 DEF ClearIN
<1>27. CASE ClearIN_SEL_EP
  BY <1>27 DEF ClearIN_SEL_EP
<1>28. CASE ClearIN_VALID_BUF
  BY <1>28 DEF ClearIN_VALID_BUF, CMD_VALID_BUF
<1> QED BY <1>1, <1>2, <1>3, <1>4, <1>5, <1>6, <1>7, <1>8, <1>9, <1>10, <1>11, <1>12,
           <1>13, <1>14, <1>15, <1>16, <1>17, <1>18, <1>19, <1>20, <1>21, <1>22, <1>23,
           <1>24, <1>25, <1>26, <1>27, <1>28, HostSteps DEF EpNext, Interrupt, Task

LEMMA DealsKept ==
  ASSUME MaxAborts = 0, EpTypeOK, BuffersKept, DataTypes, TransferInv, Turns, Deals, EpNext
  PROVE  Deals'
<1> USE DEF EpTypeOK, BuffersKept, DataTypes, DataPackets, TransferInv, HostFacts,
            QuietBefore, BeforeAnswer, Begun, Body, LastSetup, Ordered, NoneEarly, Kinds,
            Quiet, Unseen, Downloading, Clearing, Answered, host, controller, flags,
            buffer, remain, task, At, Free, SetupPacket, NoPacket, DataPacket, Turns,
            Fresh, Refusing, Busy, Deals, Dealt
<1>1. CASE AnySetup
  BY <1>1, SetupSent
<1>2. CASE HostOut
  BY <1>2 DEF HostOut
<1>3. CASE HostIn
  BY <1>3 DEF HostIn
<1>4. CASE HostStatusOut
  BY <1>4 DEF HostStatusOut
<1>5. CASE HostStalled
  BY <1>5 DEF HostStalled
<1>6. CASE HostAbort
  BY <1>6 DEF HostAbort
<1>7. CASE IsrSetup
  BY <1>7 DEF IsrSetup
<1>8. CASE IsrOut
  BY <1>8 DEF IsrOut
<1>9. CASE IsrIn
  BY <1>9 DEF IsrIn, CMD_VALID_BUF
<1>10. CASE BusReset
  BY <1>10 DEF BusReset
<1>11. CASE Poll
  BY <1>11 DEF Poll
<1>12. CASE ClearSETUP
  BY <1>12 DEF ClearSETUP
<1>13. CASE Return
  BY <1>13 DEF Return
<1>14. CASE Endpoint_StallTransaction
  BY <1>14 DEF Endpoint_StallTransaction
<1>15. CASE ClearSETUP_CLR_BUF
  <2>1. CASE then = "handle" /\ request.bRequest = "CLRSTATUS"
    <3>1. request.transfer \in 1 .. MaxTransfers
      BY <1>15, <2>1 DEF ClearSETUP_CLR_BUF
    <3>2. served'[request.transfer] = "cleared" /\ request = setup
      BY <1>15, <2>1, <3>1 DEF ClearSETUP_CLR_BUF
    <3> QED BY <1>15, <2>1, <3>2 DEF ClearSETUP_CLR_BUF, CMD_CLR_BUF, FirstStep
  <2>2. CASE ~(then = "handle" /\ request.bRequest = "CLRSTATUS")
    BY <1>15, <2>2 DEF ClearSETUP_CLR_BUF, CMD_CLR_BUF, FirstStep, RequestKinds
  <2> QED BY <2>1, <2>2
<1>16. CASE WaitUntilReady
  BY <1>16 DEF WaitUntilReady
<1>17. CASE WaitAgain
  BY <1>17 DEF WaitAgain
<1>18. CASE WaitINReady
  BY <1>18 DEF WaitINReady
<1>19. CASE WaitTimeout
  BY <1>19 DEF WaitTimeout
<1>20. CASE Write
  BY <1>20 DEF Write
<1>21. CASE Read
  BY <1>21 DEF Read
<1>22. CASE ClearOUT
  BY <1>22 DEF ClearOUT
<1>23. CASE ClearOUT_CLR_BUF
  BY <1>23 DEF ClearOUT_CLR_BUF, CMD_CLR_BUF
<1>24. CASE ClearOUT_flag
  BY <1>24 DEF ClearOUT_flag
<1>25. CASE Load
  BY <1>25 DEF Load
<1>26. CASE ClearIN
  BY <1>26 DEF ClearIN
<1>27. CASE ClearIN_SEL_EP
  BY <1>27 DEF ClearIN_SEL_EP
<1>28. CASE ClearIN_VALID_BUF
  BY <1>28 DEF ClearIN_VALID_BUF, CMD_VALID_BUF
<1> QED BY <1>1, <1>2, <1>3, <1>4, <1>5, <1>6, <1>7, <1>8, <1>9, <1>10, <1>11, <1>12,
           <1>13, <1>14, <1>15, <1>16, <1>17, <1>18, <1>19, <1>20, <1>21, <1>22, <1>23,
           <1>24, <1>25, <1>26, <1>27, <1>28, HostSteps DEF EpNext, Interrupt, Task

LEMMA WritePacketRemain ==
  ASSUME NEW at \in Nat, NEW cnt \in 0 .. BufferSize, WritePacket(at, cnt)
  PROVE  /\ isInReady' => DataInRemainCount' = 0 /\ DataInRemainOffset' = 0
         /\ DataInRemainCount' = 0 /\ cnt # PacketSize => DataInRemainOffset' = 0
         /\ cnt < PacketSize => DataInRemainOffset' = 0
<1>1. cnt \in Nat /\ PacketSize \in Nat /\ PacketSize > 0
  BY EndpointAssumption
<1>2. /\ DataInRemainCount' = cnt - Least(cnt, PacketSize)
      /\ isInReady' = (cnt < PacketSize)
      /\ DataInRemainOffset' = IF cnt >= PacketSize THEN DataInRemainOffset + Least(cnt, PacketSize) ELSE 0
  BY DEF WritePacket
<1>3. cnt >= PacketSize => Least(cnt, PacketSize) = PacketSize
  BY <1>1 DEF Least
<1>4. cnt < PacketSize => Least(cnt, PacketSize) = cnt
  BY <1>1 DEF Least
<1>5. CASE cnt < PacketSize
  BY <1>1, <1>2, <1>4, <1>5
<1>6. CASE cnt >= PacketSize
  <2>1. ~isInReady'
    <3>1. (cnt < PacketSize) = FALSE
      BY <1>1, <1>6
    <3> QED BY <1>2, <3>1, Zenon
  <2>2. DataInRemainCount' = cnt - PacketSize
    BY <1>2, <1>3, <1>6
  <2>3. cnt # PacketSize => DataInRemainCount' # 0
    BY <1>1, <1>6, <2>2
  <2> QED BY <1>1, <1>6, <2>1, <2>3
<1> QED BY <1>1, <1>5, <1>6

LEMMA RemainKept ==
  ASSUME MaxAborts = 0, EpTypeOK, BuffersKept, DataTypes, TransferInv, Turns, RemainInv, EpNext
  PROVE  RemainInv'
<1> USE DEF EpTypeOK, BuffersKept, DataTypes, DataPackets, TransferInv, HostFacts,
            QuietBefore, BeforeAnswer, Begun, Body, LastSetup, Ordered, NoneEarly, Kinds,
            Quiet, Unseen, Downloading, Clearing, Answered, host, controller, flags,
            buffer, remain, task, At, Free, SetupPacket, NoPacket, DataPacket, Turns,
            Fresh, Refusing, Busy, RemainInv
<1>1. CASE AnySetup
  BY <1>1, SetupSent
<1>2. CASE HostOut
  BY <1>2 DEF HostOut
<1>3. CASE HostIn
  BY <1>3 DEF HostIn
<1>4. CASE HostStatusOut
  BY <1>4 DEF HostStatusOut
<1>5. CASE HostStalled
  BY <1>5 DEF HostStalled
<1>6. CASE HostAbort
  BY <1>6 DEF HostAbort
<1>7. CASE IsrSetup
  BY <1>7 DEF IsrSetup
<1>8. CASE IsrOut
  BY <1>8 DEF IsrOut
<1>9. CASE IsrIn
  <2>1. CASE DataInRemainCount > 0 \/ shortpacket
    BY <1>9, <2>1, WritePacketRemain DEF IsrIn, CMD_VALID_BUF
  <2>2. CASE ~(DataInRemainCount > 0 \/ shortpacket)
    BY <1>9, <2>2, EndpointAssumption DEF IsrIn, CMD_VALID_BUF
  <2> QED BY <2>1, <2>2
<1>10. CASE BusReset
  BY <1>10 DEF BusReset
<1>11. CASE Poll
  BY <1>11 DEF Poll
<1>12. CASE ClearSETUP
  BY <1>12 DEF ClearSETUP
<1>13. CASE Return
  BY <1>13 DEF Return
<1>14. CASE Endpoint_StallTransaction
  BY <1>14 DEF Endpoint_StallTransaction
<1>15. CASE ClearSETUP_CLR_BUF
  BY <1>15 DEF ClearSETUP_CLR_BUF, CMD_CLR_BUF, FirstStep
<1>16. CASE WaitUntilReady
  BY <1>16 DEF WaitUntilReady
<1>17. CASE WaitAgain
  BY <1>17 DEF WaitAgain
<1>18. CASE WaitINReady
  BY <1>18 DEF WaitINReady
<1>19. CASE WaitTimeout
  BY <1>19 DEF WaitTimeout
<1>20. CASE Write
  BY <1>20 DEF Write
<1>21. CASE Read
  BY <1>21 DEF Read
<1>22. CASE ClearOUT
  BY <1>22 DEF ClearOUT
<1>23. CASE ClearOUT_CLR_BUF
  BY <1>23 DEF ClearOUT_CLR_BUF, CMD_CLR_BUF
<1>24. CASE ClearOUT_flag
  BY <1>24 DEF ClearOUT_flag
<1>25. CASE Load
  BY <1>25 DEF Load
<1>26. CASE ClearIN
  <2>1. WritePacket(0, usb_data_buffer_index) /\ usb_data_buffer_index \in 0 .. BufferSize /\ 0 \in Nat
    BY <1>26 DEF ClearIN
  <2>2. shortpacket' = (shortpacket \/ usb_data_buffer_index = PacketSize)
        /\ UNCHANGED <<setup, SetupPackage, request, inInt, inBuf>>
    BY <1>26 DEF ClearIN
  <2> QED BY <2>1, <2>2, WritePacketRemain
<1>27. CASE ClearIN_SEL_EP
  BY <1>27 DEF ClearIN_SEL_EP
<1>28. CASE ClearIN_VALID_BUF
  BY <1>28 DEF ClearIN_VALID_BUF, CMD_VALID_BUF
<1> QED BY <1>1, <1>2, <1>3, <1>4, <1>5, <1>6, <1>7, <1>8, <1>9, <1>10, <1>11, <1>12,
           <1>13, <1>14, <1>15, <1>16, <1>17, <1>18, <1>19, <1>20, <1>21, <1>22, <1>23,
           <1>24, <1>25, <1>26, <1>27, <1>28, HostSteps DEF EpNext, Interrupt, Task

LEMMA UnansweredKept ==
  ASSUME MaxAborts = 0, EpTypeOK, BuffersKept, DataTypes, TransferInv, Turns, Unanswered, EpNext
  PROVE  Unanswered'
<1> USE DEF EpTypeOK, BuffersKept, DataTypes, DataPackets, TransferInv, HostFacts,
            QuietBefore, BeforeAnswer, Begun, Body, LastSetup, Ordered, NoneEarly, Kinds,
            Quiet, Unseen, Downloading, Clearing, Answered, host, controller, flags,
            buffer, remain, task, At, Free, SetupPacket, NoPacket, DataPacket, Turns,
            Fresh, Refusing, Busy, Unanswered
<1>1. CASE AnySetup
  BY <1>1, SetupSent
<1>2. CASE HostOut
  BY <1>2 DEF HostOut
<1>3. CASE HostIn
  BY <1>3 DEF HostIn
<1>4. CASE HostStatusOut
  BY <1>4 DEF HostStatusOut
<1>5. CASE HostStalled
  BY <1>5 DEF HostStalled
<1>6. CASE HostAbort
  BY <1>6 DEF HostAbort
<1>7. CASE IsrSetup
  BY <1>7 DEF IsrSetup
<1>8. CASE IsrOut
  BY <1>8 DEF IsrOut
<1>9. CASE IsrIn
  BY <1>9 DEF IsrIn, CMD_VALID_BUF
<1>10. CASE BusReset
  BY <1>10 DEF BusReset
<1>11. CASE Poll
  BY <1>11 DEF Poll
<1>12. CASE ClearSETUP
  BY <1>12 DEF ClearSETUP
<1>13. CASE Return
  BY <1>13 DEF Return
<1>14. CASE Endpoint_StallTransaction
  BY <1>14 DEF Endpoint_StallTransaction
<1>15. CASE ClearSETUP_CLR_BUF
  BY <1>15 DEF ClearSETUP_CLR_BUF, CMD_CLR_BUF, FirstStep
<1>16. CASE WaitUntilReady
  BY <1>16 DEF WaitUntilReady
<1>17. CASE WaitAgain
  BY <1>17 DEF WaitAgain
<1>18. CASE WaitINReady
  BY <1>18 DEF WaitINReady
<1>19. CASE WaitTimeout
  BY <1>19 DEF WaitTimeout
<1>20. CASE Write
  BY <1>20 DEF Write
<1>21. CASE Read
  BY <1>21 DEF Read
<1>22. CASE ClearOUT
  BY <1>22 DEF ClearOUT
<1>23. CASE ClearOUT_CLR_BUF
  BY <1>23 DEF ClearOUT_CLR_BUF, CMD_CLR_BUF
<1>24. CASE ClearOUT_flag
  BY <1>24 DEF ClearOUT_flag
<1>25. CASE Load
  BY <1>25 DEF Load
<1>26. CASE ClearIN
  BY <1>26 DEF ClearIN
<1>27. CASE ClearIN_SEL_EP
  BY <1>27 DEF ClearIN_SEL_EP
<1>28. CASE ClearIN_VALID_BUF
  BY <1>28 DEF ClearIN_VALID_BUF, CMD_VALID_BUF
<1> QED BY <1>1, <1>2, <1>3, <1>4, <1>5, <1>6, <1>7, <1>8, <1>9, <1>10, <1>11, <1>12,
           <1>13, <1>14, <1>15, <1>16, <1>17, <1>18, <1>19, <1>20, <1>21, <1>22, <1>23,
           <1>24, <1>25, <1>26, <1>27, <1>28, HostSteps DEF EpNext, Interrupt, Task

LEMMA AnswerUnits ==
  ASSUME NEW t \in 0 .. MaxTransfers, NEW n \in Nat
  PROVE  /\ Units(t, 1, n) \in Seq(Unit) /\ Len(Units(t, 1, n)) = n
         /\ \A i \in 1 .. n : Units(t, 1, n)[i] = <<t, i>>
BY DEF Units, Unit

LEMMA LoadedKept ==
  ASSUME MaxAborts = 0, EpTypeOK, BuffersKept, DataTypes, TransferInv, Turns, RemainInv,
         Unanswered, Loaded, EpNext
  PROVE  Loaded'
<1> USE DEF EpTypeOK, BuffersKept, DataTypes, DataPackets, TransferInv, HostFacts,
            QuietBefore, BeforeAnswer, Begun, Body, LastSetup, Ordered, NoneEarly, Kinds,
            Quiet, Unseen, Downloading, Clearing, Answered, host, controller, flags,
            buffer, remain, task, At, Free, SetupPacket, NoPacket, DataPacket, Turns,
            Fresh, Refusing, Busy, RemainInv, Unanswered, Loaded, Holds
<1>1. CASE AnySetup
  BY <1>1, SetupSent
<1>2. CASE HostOut
  BY <1>2 DEF HostOut
<1>3. CASE HostIn
  BY <1>3 DEF HostIn
<1>4. CASE HostStatusOut
  BY <1>4 DEF HostStatusOut
<1>5. CASE HostStalled
  BY <1>5 DEF HostStalled
<1>6. CASE HostAbort
  BY <1>6 DEF HostAbort
<1>7. CASE IsrSetup
  BY <1>7 DEF IsrSetup
<1>8. CASE IsrOut
  BY <1>8 DEF IsrOut
<1>9. CASE IsrIn
  BY <1>9 DEF IsrIn, CMD_VALID_BUF
<1>10. CASE BusReset
  BY <1>10 DEF BusReset
<1>11. CASE Poll
  BY <1>11 DEF Poll
<1>12. CASE ClearSETUP
  BY <1>12 DEF ClearSETUP
<1>13. CASE Return
  BY <1>13 DEF Return
<1>14. CASE Endpoint_StallTransaction
  BY <1>14 DEF Endpoint_StallTransaction
<1>15. CASE ClearSETUP_CLR_BUF
  <2>1. CASE then = "stall"
    BY <1>15, <2>1 DEF ClearSETUP_CLR_BUF, CMD_CLR_BUF
  <2>2. CASE then = "handle"
    <3>1. pc' \in {"wait", "in_wait", "in_load", "in_write"}
      BY <1>15, <2>2 DEF ClearSETUP_CLR_BUF, FirstStep
    <3>2. pc' = "in_load" => request.bRequest = "GETSTATUS"
      BY <1>15, <2>2 DEF ClearSETUP_CLR_BUF, FirstStep
    <3>3. pc' = "in_write" => request.bRequest \notin Answered
      BY <1>15, <2>2 DEF ClearSETUP_CLR_BUF, FirstStep
    <3>4. UNCHANGED <<request, usb_data_buffer, DataInRemainOffset>>
      BY <1>15 DEF ClearSETUP_CLR_BUF
    <3>5. ASSUME pc' = "in_load" PROVE ~(request'.wLength >= PacketSize)
      <4>1. request' = request /\ request.wLength < PacketSize
        BY <3>2, <3>4, <3>5
      <4>2. request.wLength \in Nat /\ PacketSize \in Nat
        BY EndpointAssumption
      <4> HIDE DEF EpTypeOK, BuffersKept, DataTypes, TransferInv, RemainInv, Unanswered, Loaded,
                   Turns
      <4> QED BY <4>1, <4>2
    <3> HIDE DEF EpTypeOK, BuffersKept, DataTypes, TransferInv, RemainInv, Unanswered, Turns
    <3>6. (pc \in {"in_load", "in_write"} /\ request.bRequest \in Answered /\ request.wLength >= PacketSize =>
             DataInRemainOffset = 0)'
      BY <3>1, <3>3, <3>4, <3>5
    <3>7. (pc \in {"in_write", "in_sel", "in_valid"} => request.bRequest \notin Answered)'
      BY <3>1, <3>3, <3>4
    <3>8. (pc = "in_write" => request.bRequest \notin Answered)'
      BY <3>7
    <3> HIDE DEF Holds, Answered, Loaded
    <3> QED BY <3>6, <3>7, <3>8 DEF Loaded
  <2> QED BY <1>15, <2>1, <2>2 DEF ClearSETUP_CLR_BUF
<1>16. CASE WaitUntilReady
  BY <1>16 DEF WaitUntilReady
<1>17. CASE WaitAgain
  BY <1>17 DEF WaitAgain
<1>18. CASE WaitINReady
  BY <1>18 DEF WaitINReady
<1>19. CASE WaitTimeout
  BY <1>19 DEF WaitTimeout
<1>20. CASE Write
  BY <1>20 DEF Write
<1>21. CASE Read
  BY <1>21 DEF Read
<1>22. CASE ClearOUT
  BY <1>22 DEF ClearOUT
<1>23. CASE ClearOUT_CLR_BUF
  BY <1>23 DEF ClearOUT_CLR_BUF, CMD_CLR_BUF
<1>24. CASE ClearOUT_flag
  BY <1>24 DEF ClearOUT_flag
<1>25. CASE Load
  <2> DEFINE units == Units(request.transfer, 1, request.wLength)
  <2>1. request.wLength \in Nat /\ request.wLength <= BufferSize /\ BufferSize \in Nat
        /\ request.transfer \in 0 .. MaxTransfers /\ 0 \in Nat
    BY EndpointAssumption
  <2>2. usb_data_buffer' = Overwrite(usb_data_buffer, 0, units)
        /\ usb_data_buffer_index' = request.wLength
    BY <1>25, <2>1 DEF Load
  <2>3. usb_data_buffer \in Array /\ pc = "in_load" /\ pc' = "in_write"
        /\ UNCHANGED <<request, DataInRemainOffset>>
    BY <1>25 DEF Load
  <2>4. Holds(request)'
    <3> HIDE DEF EpTypeOK, BuffersKept, DataTypes, TransferInv, RemainInv, Unanswered, Loaded, Turns
    <3>1. /\ units \in Seq(Unit) /\ Len(units) = request.wLength
          /\ \A i \in 1 .. request.wLength : units[i] = <<request.transfer, i>>
      BY <2>1, AnswerUnits
    <3> HIDE DEF units
    <3> SUFFICES ASSUME NEW i \in 1 .. request.wLength
                 PROVE  usb_data_buffer'[i - 1] = <<request.transfer, i>>
      BY <2>3
    <3>2. 0 + i - 1 < BufferSize /\ 0 + i - 1 = i - 1 /\ i \in 1 .. Len(units)
      BY <2>1, <3>1
    <3>3. Overwrite(usb_data_buffer, 0, units)[0 + i - 1] = units[i]
      BY <2>1, <2>3, <3>1, <3>2, OverwriteData
    <3> QED BY <2>2, <3>1, <3>2, <3>3
  <2> QED BY <2>2, <2>3, <2>4
<1>26. CASE ClearIN
  BY <1>26 DEF ClearIN
<1>27. CASE ClearIN_SEL_EP
  BY <1>27 DEF ClearIN_SEL_EP
<1>28. CASE ClearIN_VALID_BUF
  BY <1>28 DEF ClearIN_VALID_BUF, CMD_VALID_BUF
<1> QED BY <1>1, <1>2, <1>3, <1>4, <1>5, <1>6, <1>7, <1>8, <1>9, <1>10, <1>11, <1>12,
           <1>13, <1>14, <1>15, <1>16, <1>17, <1>18, <1>19, <1>20, <1>21, <1>22, <1>23,
           <1>24, <1>25, <1>26, <1>27, <1>28, HostSteps DEF EpNext, Interrupt, Task

LEMMA WrittenKept ==
  ASSUME MaxAborts = 0, EpTypeOK, BuffersKept, DataTypes, TransferInv, Turns, RemainInv,
         Unanswered, Loaded, Written, EpNext
  PROVE  Written'
<1> USE DEF EpTypeOK, BuffersKept, DataTypes, DataPackets, TransferInv, HostFacts,
            QuietBefore, BeforeAnswer, Begun, Body, LastSetup, Ordered, NoneEarly, Kinds,
            Quiet, Unseen, Downloading, Clearing, Answered, host, controller, flags,
            buffer, remain, task, At, Free, SetupPacket, NoPacket, DataPacket, Turns,
            Fresh, Refusing, Busy, RemainInv, Unanswered, Loaded, Holds, Written, First
<1>1. CASE AnySetup
  BY <1>1, SetupSent
<1>2. CASE HostOut
  BY <1>2 DEF HostOut
<1>3. CASE HostIn
  BY <1>3 DEF HostIn
<1>4. CASE HostStatusOut
  BY <1>4 DEF HostStatusOut
<1>5. CASE HostStalled
  BY <1>5 DEF HostStalled
<1>6. CASE HostAbort
  BY <1>6 DEF HostAbort
<1>7. CASE IsrSetup
  BY <1>7 DEF IsrSetup
<1>8. CASE IsrOut
  BY <1>8 DEF IsrOut
<1>9. CASE IsrIn
  BY <1>9 DEF IsrIn, CMD_VALID_BUF
<1>10. CASE BusReset
  BY <1>10 DEF BusReset
<1>11. CASE Poll
  BY <1>11 DEF Poll
<1>12. CASE ClearSETUP
  BY <1>12 DEF ClearSETUP
<1>13. CASE Return
  BY <1>13 DEF Return
<1>14. CASE Endpoint_StallTransaction
  BY <1>14 DEF Endpoint_StallTransaction
<1>15. CASE ClearSETUP_CLR_BUF
  BY <1>15 DEF ClearSETUP_CLR_BUF, CMD_CLR_BUF, FirstStep
<1>16. CASE WaitUntilReady
  BY <1>16 DEF WaitUntilReady
<1>17. CASE WaitAgain
  BY <1>17 DEF WaitAgain
<1>18. CASE WaitINReady
  BY <1>18 DEF WaitINReady
<1>19. CASE WaitTimeout
  BY <1>19 DEF WaitTimeout
<1>20. CASE Write
  BY <1>20 DEF Write
<1>21. CASE Read
  BY <1>21 DEF Read
<1>22. CASE ClearOUT
  BY <1>22 DEF ClearOUT
<1>23. CASE ClearOUT_CLR_BUF
  BY <1>23 DEF ClearOUT_CLR_BUF, CMD_CLR_BUF
<1>24. CASE ClearOUT_flag
  BY <1>24 DEF ClearOUT_flag
<1>25. CASE Load
  BY <1>25 DEF Load
<1>26. CASE ClearIN
  <2> SUFFICES ASSUME request.bRequest \in Answered
               PROVE  /\ inFifo' = Slice(usb_data_buffer, 0, First(request))
                      /\ DataInRemainCount' = request.wLength - First(request)
                      /\ DataInRemainCount' > 0 => DataInRemainOffset' = First(request)
    BY <1>26 DEF ClearIN
  <2>1. request.wLength \in Nat /\ PacketSize \in Nat /\ PacketSize > 0 /\ BufferSize \in Nat
    BY EndpointAssumption
  <2>2. usb_data_buffer_index = request.wLength /\ (request.wLength >= PacketSize => DataInRemainOffset = 0)
    BY <1>26 DEF ClearIN
  <2>3. WritePacket(0, request.wLength)
    BY <1>26, <2>2 DEF ClearIN
  <2>4. inFifo' = Slice(usb_data_buffer, 0, First(request))
        /\ DataInRemainCount' = request.wLength - First(request)
    BY <2>3 DEF WritePacket
  <2>5. ASSUME DataInRemainCount' > 0 PROVE DataInRemainOffset' = First(request)
    <3>1. request.wLength >= PacketSize /\ First(request) \in Nat
      BY <2>1, <2>4, <2>5 DEF Least
    <3>2. DataInRemainOffset' = 0 + First(request)
      BY <2>2, <2>3, <3>1 DEF WritePacket
    <3> QED BY <3>1, <3>2
  <2> QED BY <2>4, <2>5
<1>27. CASE ClearIN_SEL_EP
  BY <1>27 DEF ClearIN_SEL_EP
<1>28. CASE ClearIN_VALID_BUF
  BY <1>28 DEF ClearIN_VALID_BUF, CMD_VALID_BUF
<1> QED BY <1>1, <1>2, <1>3, <1>4, <1>5, <1>6, <1>7, <1>8, <1>9, <1>10, <1>11, <1>12,
           <1>13, <1>14, <1>15, <1>16, <1>17, <1>18, <1>19, <1>20, <1>21, <1>22, <1>23,
           <1>24, <1>25, <1>26, <1>27, <1>28, HostSteps DEF EpNext, Interrupt, Task

LEMMA SentKept ==
  ASSUME MaxAborts = 0, EpTypeOK, BuffersKept, DataTypes, TransferInv, Turns, RemainInv,
         Unanswered, Loaded, Written, Sent, EpNext
  PROVE  Sent'
<1> USE DEF EpTypeOK, BuffersKept, DataTypes, DataPackets, TransferInv, HostFacts,
            QuietBefore, BeforeAnswer, Begun, Body, LastSetup, Ordered, NoneEarly, Kinds,
            Quiet, Unseen, Downloading, Clearing, Answered, host, controller, flags,
            buffer, remain, task, At, Free, SetupPacket, NoPacket, DataPacket, Turns,
            Fresh, Refusing, Busy, RemainInv, Unanswered, Loaded, Holds, Written, First,
            Sent
<1>1. CASE AnySetup
  BY <1>1, SetupSent
<1>2. CASE HostOut
  BY <1>2 DEF HostOut
<1>3. CASE HostIn
  <2> SUFFICES ASSUME stage = "in", stage' = "in"
               PROVE  Sent'
    BY <1>3 DEF HostIn
  <2>1. ~stalled /\ ~Busy /\ inBuf' = NoPacket /\ answer' = answer \o inBuf.data
        /\ UNCHANGED <<setup, usb_data_buffer, DataInRemainCount, DataInRemainOffset>>
    BY <1>3 DEF HostIn
  <2>2. answer \in Seq(Unit) /\ inBuf.data \in Seq(Unit)
    BY PacketData
  <2>3. Len(answer') = Len(answer) + Len(inBuf.data) /\ Len(inBuf'.data) = 0 /\ Len(answer') \in Nat
    <3> HIDE DEF EpTypeOK, BuffersKept, DataTypes, TransferInv, RemainInv, Unanswered, Loaded,
                 Written, Sent, Turns
    <3> QED BY <2>1, <2>2
  <2>4. /\ Holds(setup)
        /\ DataInRemainCount > 0 => /\ DataInRemainOffset = Len(answer) + Len(inBuf.data)
                                    /\ DataInRemainOffset + DataInRemainCount <= setup.wLength
    BY <2>1
  <2>5. Holds(setup)'
    BY <2>1, <2>4
  <2>6. DataInRemainCount' > 0 => /\ DataInRemainOffset' = Len(answer') + Len(inBuf'.data)
                                  /\ DataInRemainOffset' + DataInRemainCount' <= setup'.wLength
    <3> HIDE DEF EpTypeOK, BuffersKept, DataTypes, TransferInv, RemainInv, Unanswered, Loaded,
                 Written, Sent, Turns, Holds
    <3> QED BY <2>1, <2>3, <2>4
  <2>7. 1 .. Len(inBuf'.data) = {}
    BY <2>3
  <2> HIDE DEF EpTypeOK, BuffersKept, DataTypes, TransferInv, RemainInv, Unanswered, Loaded,
               Written, Turns, Holds
  <2> QED BY <2>5, <2>6, <2>7
<1>4. CASE HostStatusOut
  BY <1>4 DEF HostStatusOut
<1>5. CASE HostStalled
  BY <1>5 DEF HostStalled
<1>6. CASE HostAbort
  BY <1>6 DEF HostAbort
<1>7. CASE IsrSetup
  BY <1>7 DEF IsrSetup
<1>8. CASE IsrOut
  BY <1>8 DEF IsrOut
<1>9. CASE IsrIn
  <2> SUFFICES ASSUME stage = "in", ~Busy, ~stalled
               PROVE  Sent'
    BY <1>9 DEF IsrIn, CMD_VALID_BUF
  <2> DEFINE count == Least(DataInRemainCount, PacketSize)
  <2>1. /\ inBuf = NoPacket /\ outBuf # SetupPacket /\ Holds(setup) /\ Len(inBuf.data) = 0
        /\ UNCHANGED <<setup, usb_data_buffer, answer>>
    BY <1>9 DEF IsrIn
  <2>2. Len(answer) \in Nat /\ DataInRemainCount \in Nat /\ DataInRemainOffset \in Nat
        /\ PacketSize \in Nat /\ PacketSize > 0 /\ BufferSize \in Nat /\ setup.wLength \in Nat
        /\ setup.wLength <= BufferSize /\ usb_data_buffer \in Array
    BY EndpointAssumption
  <2>3. DataInRemainCount > 0 => /\ DataInRemainOffset = Len(answer)
                                 /\ DataInRemainOffset + DataInRemainCount <= setup.wLength
    BY <2>1, <2>2
  <2>4. Holds(setup)'
    BY <2>1
  <2>5. CASE ~(DataInRemainCount > 0 \/ shortpacket)
    <3>1. inBuf' = NoPacket /\ UNCHANGED DataInRemainCount
      BY <1>9, <2>1, <2>5 DEF IsrIn
    <3>2. ~(DataInRemainCount' > 0) /\ Len(inBuf'.data) = 0
      BY <2>5, <3>1
    <3>3. 1 .. Len(inBuf'.data) = {}
      BY <3>2
    <3> HIDE DEF EpTypeOK, BuffersKept, DataTypes, TransferInv, RemainInv, Unanswered, Loaded,
                 Written, Turns, Holds
    <3> QED BY <2>4, <3>2, <3>3
  <2>6. CASE DataInRemainCount > 0 \/ shortpacket
    <3>1. WritePacket(DataInRemainOffset, DataInRemainCount) /\ inBuf'.data = inFifo'
      BY <1>9, <2>1, <2>6 DEF IsrIn, CMD_VALID_BUF
    <3> HIDE DEF EpTypeOK, BuffersKept, DataTypes, TransferInv, RemainInv, Unanswered, Loaded,
                 Written, Turns
    <3>2. count \in Nat /\ count <= DataInRemainCount
          /\ (DataInRemainCount >= PacketSize => count = PacketSize)
          /\ (DataInRemainCount < PacketSize => count = DataInRemainCount)
      BY <2>2 DEF Least
    <3>3. /\ inFifo' = Slice(usb_data_buffer, DataInRemainOffset, count)
          /\ DataInRemainCount' = DataInRemainCount - count
          /\ DataInRemainOffset' = IF DataInRemainCount >= PacketSize THEN DataInRemainOffset + count ELSE 0
      BY <3>1 DEF WritePacket
    <3> HIDE DEF count
    <3>4. Len(inFifo') = count
          /\ \A i \in 1 .. count : DataInRemainOffset + i - 1 < BufferSize =>
                inFifo'[i] = usb_data_buffer[DataInRemainOffset + i - 1]
      <4>1. usb_data_buffer \in Array /\ DataInRemainOffset \in Nat /\ count \in Nat
        BY <2>2, <3>2
      <4>2. /\ Len(Slice(usb_data_buffer, DataInRemainOffset, count)) = count
            /\ \A i \in 1 .. count : DataInRemainOffset + i - 1 < BufferSize =>
                  Slice(usb_data_buffer, DataInRemainOffset, count)[i] =
                     usb_data_buffer[DataInRemainOffset + i - 1]
        BY <4>1, SliceData
      <4>3. inFifo' = Slice(usb_data_buffer, DataInRemainOffset, count)
        BY <3>3
      <4> QED BY <4>2, <4>3, Zenon
    <3>5. ASSUME DataInRemainCount' > 0
          PROVE  /\ DataInRemainOffset' = Len(answer') + Len(inBuf'.data)
                 /\ DataInRemainOffset' + DataInRemainCount' <= setup'.wLength
      <4>1. DataInRemainCount >= PacketSize /\ DataInRemainOffset' = DataInRemainOffset + count
        BY <2>2, <3>2, <3>3, <3>5
      <4>2. DataInRemainOffset = Len(answer) /\ DataInRemainOffset + DataInRemainCount <= setup.wLength
        BY <2>2, <2>3, <4>1
      <4> QED BY <2>1, <2>2, <3>1, <3>2, <3>3, <3>4, <4>1, <4>2
    <3>6. ASSUME NEW i \in 1 .. count
          PROVE  inFifo'[i] = <<setup.transfer, Len(answer) + i>>
      <4>1. DataInRemainOffset = Len(answer) /\ DataInRemainOffset + DataInRemainCount <= setup.wLength
        BY <2>2, <2>3, <3>2
      <4> DEFINE j == DataInRemainOffset + i
      <4>2. /\ j \in 1 .. setup.wLength
            /\ DataInRemainOffset + i - 1 < BufferSize /\ DataInRemainOffset + i - 1 = j - 1
        BY <2>2, <3>2, <4>1
      <4>3. j = Len(answer) + i
        BY <4>1
      <4> HIDE DEF j
      <4>4. usb_data_buffer[j - 1] = <<setup.transfer, j>>
        BY <2>1, <4>2
      <4>5. inFifo'[i] = usb_data_buffer[DataInRemainOffset + i - 1]
        BY <3>4, <4>2
      <4>6. inFifo'[i] = usb_data_buffer[j - 1]
        BY <4>2, <4>5, Zenon
      <4> QED BY <4>3, <4>4, <4>6, Zenon
    <3>7. \A i \in 1 .. Len(inBuf'.data) : inBuf'.data[i] = <<setup'.transfer, Len(answer') + i>>
      BY <2>1, <3>1, <3>4, <3>6
    <3> HIDE DEF Holds, Busy
    <3> QED BY <2>4, <3>5, <3>7
  <2> QED BY <2>5, <2>6
<1>10. CASE BusReset
  BY <1>10 DEF BusReset
<1>11. CASE Poll
  BY <1>11 DEF Poll
<1>12. CASE ClearSETUP
  BY <1>12 DEF ClearSETUP
<1>13. CASE Return
  BY <1>13 DEF Return
<1>14. CASE Endpoint_StallTransaction
  BY <1>14 DEF Endpoint_StallTransaction
<1>15. CASE ClearSETUP_CLR_BUF
  BY <1>15 DEF ClearSETUP_CLR_BUF, CMD_CLR_BUF, FirstStep
<1>16. CASE WaitUntilReady
  BY <1>16 DEF WaitUntilReady
<1>17. CASE WaitAgain
  BY <1>17 DEF WaitAgain
<1>18. CASE WaitINReady
  BY <1>18 DEF WaitINReady
<1>19. CASE WaitTimeout
  BY <1>19 DEF WaitTimeout
<1>20. CASE Write
  BY <1>20 DEF Write
<1>21. CASE Read
  BY <1>21 DEF Read
<1>22. CASE ClearOUT
  BY <1>22 DEF ClearOUT
<1>23. CASE ClearOUT_CLR_BUF
  BY <1>23 DEF ClearOUT_CLR_BUF, CMD_CLR_BUF
<1>24. CASE ClearOUT_flag
  BY <1>24 DEF ClearOUT_flag
<1>25. CASE Load
  BY <1>25 DEF Load
<1>26. CASE ClearIN
  BY <1>26 DEF ClearIN
<1>27. CASE ClearIN_SEL_EP
  BY <1>27 DEF ClearIN_SEL_EP
<1>28. CASE ClearIN_VALID_BUF
  <2> SUFFICES ASSUME stage = "in"
               PROVE  Sent'
    BY <1>28 DEF ClearIN_VALID_BUF
  <2>1. /\ request = setup /\ request.bRequest \in Answered /\ outBuf # SetupPacket /\ answer = <<>>
    BY <1>28 DEF ClearIN_VALID_BUF
  <2>2. /\ sel = 1 /\ inFifo = Slice(usb_data_buffer, 0, First(request)) /\ Holds(request)
        /\ DataInRemainCount = request.wLength - First(request)
        /\ DataInRemainCount > 0 => DataInRemainOffset = First(request)
    BY <1>28, <2>1 DEF ClearIN_VALID_BUF
  <2>3. /\ inBuf'.data = inFifo
        /\ UNCHANGED <<setup, usb_data_buffer, answer, DataInRemainCount, DataInRemainOffset>>
    BY <1>28, <2>1, <2>2 DEF ClearIN_VALID_BUF, CMD_VALID_BUF
  <2>4. request.wLength \in Nat /\ request.wLength <= BufferSize /\ BufferSize \in Nat /\ PacketSize \in Nat
        /\ usb_data_buffer \in Array /\ 0 \in Nat
    BY EndpointAssumption
  <2> HIDE DEF EpTypeOK, BuffersKept, DataTypes, TransferInv, RemainInv, Unanswered, Loaded,
               Written, Turns
  <2>5. First(request) \in Nat /\ First(request) <= request.wLength
    BY <2>4 DEF Least
  <2> HIDE DEF First
  <2>6. Len(inFifo) = First(request)
        /\ \A i \in 1 .. First(request) : 0 + i - 1 < BufferSize => inFifo[i] = usb_data_buffer[0 + i - 1]
    BY <2>2, <2>4, <2>5, SliceData
  <2>7. Len(answer) = 0
    BY <2>1
  <2>8. ASSUME NEW i \in 1 .. First(request)
        PROVE  inFifo[i] = <<setup.transfer, Len(answer) + i>>
    <3>1. i \in 1 .. request.wLength /\ 0 + i - 1 < BufferSize /\ 0 + i - 1 = i - 1 /\ Len(answer) + i = i
      BY <2>4, <2>5, <2>7
    <3>2. usb_data_buffer[i - 1] = <<request.transfer, i>>
      BY <2>2, <3>1
    <3>3. inFifo[i] = usb_data_buffer[0 + i - 1]
      BY <2>6, <3>1
    <3>4. inFifo[i] = usb_data_buffer[i - 1]
      BY <3>1, <3>3, Zenon
    <3> QED BY <2>1, <3>1, <3>2, <3>4, Zenon
  <2>9. \A i \in 1 .. Len(inBuf'.data) : inBuf'.data[i] = <<setup'.transfer, Len(answer') + i>>
    BY <2>3, <2>6, <2>8
  <2>10. DataInRemainCount' > 0 => /\ DataInRemainOffset' = Len(answer') + Len(inBuf'.data)
                                   /\ DataInRemainOffset' + DataInRemainCount' <= setup'.wLength
    BY <2>1, <2>2, <2>3, <2>4, <2>5, <2>6, <2>7
  <2>11. Holds(setup)'
    BY <2>1, <2>2, <2>3
  <2> HIDE DEF Holds, Busy
  <2> QED BY <2>9, <2>10, <2>11
<1> QED BY <1>1, <1>2, <1>3, <1>4, <1>5, <1>6, <1>7, <1>8, <1>9, <1>10, <1>11, <1>12,
           <1>13, <1>14, <1>15, <1>16, <1>17, <1>18, <1>19, <1>20, <1>21, <1>22, <1>23,
           <1>24, <1>25, <1>26, <1>27, <1>28, HostSteps DEF EpNext, Interrupt, Task

LEMMA AnswerIntactKept ==
  ASSUME MaxAborts = 0, EpTypeOK, BuffersKept, DataTypes, TransferInv, Turns, RemainInv,
         Unanswered, Loaded, Written, Sent, AnswerIntact, EpNext
  PROVE  AnswerIntact'
<1> USE DEF EpTypeOK, BuffersKept, DataTypes, DataPackets, TransferInv, HostFacts,
            QuietBefore, BeforeAnswer, Begun, Body, LastSetup, Ordered, NoneEarly, Kinds,
            Quiet, Unseen, Downloading, Clearing, Answered, host, controller, flags,
            buffer, remain, task, At, Free, SetupPacket, NoPacket, DataPacket, Turns,
            Fresh, Refusing, Busy, RemainInv, Unanswered, Loaded, Holds, Written, First,
            Sent, AnswerIntact
<1>1. CASE AnySetup
  BY <1>1, SetupSent
<1>2. CASE HostOut
  BY <1>2 DEF HostOut
<1>3. CASE HostIn
  <2> SUFFICES ASSUME stage = "in"
               PROVE  AnswerIntact'
    BY <1>3 DEF HostIn
  <2>1. ~stalled /\ ~Busy /\ answer' = answer \o inBuf.data /\ setup' = setup
    BY <1>3 DEF HostIn
  <2>2. answer \in Seq(Unit) /\ inBuf.data \in Seq(Unit)
    BY PacketData
  <2>3. /\ \A i \in 1 .. Len(inBuf.data) : inBuf.data[i] = <<setup.transfer, Len(answer) + i>>
        /\ \A i \in 1 .. Len(answer) : answer[i] = <<setup.transfer, i>>
    BY <2>1
  <2> HIDE DEF EpTypeOK, BuffersKept, DataTypes, TransferInv, RemainInv, Unanswered, Loaded,
               Written, Sent, Turns
  <2>4. Len(answer') = Len(answer) + Len(inBuf.data) /\ Len(answer) \in Nat /\ Len(inBuf.data) \in Nat
    BY <2>1, <2>2
  <2>5. ASSUME NEW i \in 1 .. Len(answer')
        PROVE  answer'[i] = <<setup.transfer, i>>
    <3>1. CASE i <= Len(answer)
      BY <2>1, <2>2, <2>3, <2>4, <3>1
    <3>2. CASE i > Len(answer)
      <4> DEFINE k == i - Len(answer)
      <4>1. k \in 1 .. Len(inBuf.data) /\ Len(answer) + k = i
        BY <2>4, <3>2
      <4>2. answer'[i] = inBuf.data[k]
        BY <2>1, <2>2, <2>4, <3>2
      <4> HIDE DEF k
      <4> QED BY <2>3, <4>1, <4>2
    <3> QED BY <2>4, <3>1, <3>2
  <2> QED BY <2>1, <2>5
<1>4. CASE HostStatusOut
  BY <1>4 DEF HostStatusOut
<1>5. CASE HostStalled
  BY <1>5 DEF HostStalled
<1>6. CASE HostAbort
  BY <1>6 DEF HostAbort
<1>7. CASE IsrSetup
  BY <1>7 DEF IsrSetup
<1>8. CASE IsrOut
  BY <1>8 DEF IsrOut
<1>9. CASE IsrIn
  BY <1>9 DEF IsrIn, CMD_VALID_BUF
<1>10. CASE BusReset
  BY <1>10 DEF BusReset
<1>11. CASE Poll
  BY <1>11 DEF Poll
<1>12. CASE ClearSETUP
  BY <1>12 DEF ClearSETUP
<1>13. CASE Return
  BY <1>13 DEF Return
<1>14. CASE Endpoint_StallTransaction
  BY <1>14 DEF Endpoint_StallTransaction
<1>15. CASE ClearSETUP_CLR_BUF
  BY <1>15 DEF ClearSETUP_CLR_BUF, CMD_CLR_BUF, FirstStep
<1>16. CASE WaitUntilReady
  BY <1>16 DEF WaitUntilReady
<1>17. CASE WaitAgain
  BY <1>17 DEF WaitAgain
<1>18. CASE WaitINReady
  BY <1>18 DEF WaitINReady
<1>19. CASE WaitTimeout
  BY <1>19 DEF WaitTimeout
<1>20. CASE Write
  BY <1>20 DEF Write
<1>21. CASE Read
  BY <1>21 DEF Read
<1>22. CASE ClearOUT
  BY <1>22 DEF ClearOUT
<1>23. CASE ClearOUT_CLR_BUF
  BY <1>23 DEF ClearOUT_CLR_BUF, CMD_CLR_BUF
<1>24. CASE ClearOUT_flag
  BY <1>24 DEF ClearOUT_flag
<1>25. CASE Load
  BY <1>25 DEF Load
<1>26. CASE ClearIN
  BY <1>26 DEF ClearIN
<1>27. CASE ClearIN_SEL_EP
  BY <1>27 DEF ClearIN_SEL_EP
<1>28. CASE ClearIN_VALID_BUF
  BY <1>28 DEF ClearIN_VALID_BUF, CMD_VALID_BUF
<1> QED BY <1>1, <1>2, <1>3, <1>4, <1>5, <1>6, <1>7, <1>8, <1>9, <1>10, <1>11, <1>12,
           <1>13, <1>14, <1>15, <1>16, <1>17, <1>18, <1>19, <1>20, <1>21, <1>22, <1>23,
           <1>24, <1>25, <1>26, <1>27, <1>28, HostSteps DEF EpNext, Interrupt, Task

LEMMA AckKept ==
  ASSUME MaxAborts = 0, EpTypeOK, BuffersKept, DataTypes, TransferInv, Turns, Deals,
         AckMeansServed, EpNext
  PROVE  AckMeansServed'
<1> USE DEF EpTypeOK, BuffersKept, DataTypes, DataPackets, TransferInv, HostFacts,
            QuietBefore, BeforeAnswer, Begun, Body, LastSetup, Ordered, NoneEarly, Kinds,
            Quiet, Unseen, Downloading, Clearing, Answered, host, controller, flags,
            buffer, remain, task, At, Free, SetupPacket, NoPacket, DataPacket, Turns,
            Fresh, Refusing, Busy, Deals, Dealt, AckMeansServed
<1>1. CASE AnySetup
  BY <1>1, SetupSent
<1>2. CASE HostOut
  BY <1>2 DEF HostOut
<1>3. CASE HostIn
  <2>1. ~Quiet /\ served' = served /\ acked' \in {acked, setup.transfer} /\ setup.transfer \in Nat
    BY <1>3, EndpointAssumption DEF HostIn
  <2>2. CASE acked' = acked
    BY <2>1, <2>2
  <2>3. CASE acked' = setup.transfer
    <3>1. setup.transfer # 0 => served[setup.transfer] \notin {"nothing", "stalled"}
      BY <2>1
    <3> HIDE DEF EpTypeOK, BuffersKept, DataTypes, TransferInv, Turns, Deals
    <3> QED BY <2>1, <2>3, <3>1
  <2> QED BY <2>1, <2>2, <2>3
<1>4. CASE HostStatusOut
  BY <1>4 DEF HostStatusOut
<1>5. CASE HostStalled
  BY <1>5 DEF HostStalled
<1>6. CASE HostAbort
  BY <1>6 DEF HostAbort
<1>7. CASE IsrSetup
  BY <1>7 DEF IsrSetup
<1>8. CASE IsrOut
  BY <1>8 DEF IsrOut
<1>9. CASE IsrIn
  BY <1>9 DEF IsrIn, CMD_VALID_BUF
<1>10. CASE BusReset
  BY <1>10 DEF BusReset
<1>11. CASE Poll
  BY <1>11 DEF Poll
<1>12. CASE ClearSETUP
  BY <1>12 DEF ClearSETUP
<1>13. CASE Return
  BY <1>13 DEF Return
<1>14. CASE Endpoint_StallTransaction
  BY <1>14 DEF Endpoint_StallTransaction
<1>15. CASE ClearSETUP_CLR_BUF
  BY <1>15 DEF ClearSETUP_CLR_BUF, CMD_CLR_BUF, FirstStep
<1>16. CASE WaitUntilReady
  BY <1>16 DEF WaitUntilReady
<1>17. CASE WaitAgain
  BY <1>17 DEF WaitAgain
<1>18. CASE WaitINReady
  BY <1>18 DEF WaitINReady
<1>19. CASE WaitTimeout
  BY <1>19 DEF WaitTimeout
<1>20. CASE Write
  BY <1>20 DEF Write
<1>21. CASE Read
  BY <1>21 DEF Read
<1>22. CASE ClearOUT
  BY <1>22 DEF ClearOUT
<1>23. CASE ClearOUT_CLR_BUF
  BY <1>23 DEF ClearOUT_CLR_BUF, CMD_CLR_BUF
<1>24. CASE ClearOUT_flag
  BY <1>24 DEF ClearOUT_flag
<1>25. CASE Load
  BY <1>25 DEF Load
<1>26. CASE ClearIN
  BY <1>26 DEF ClearIN
<1>27. CASE ClearIN_SEL_EP
  BY <1>27 DEF ClearIN_SEL_EP
<1>28. CASE ClearIN_VALID_BUF
  BY <1>28 DEF ClearIN_VALID_BUF, CMD_VALID_BUF
<1> QED BY <1>1, <1>2, <1>3, <1>4, <1>5, <1>6, <1>7, <1>8, <1>9, <1>10, <1>11, <1>12,
           <1>13, <1>14, <1>15, <1>16, <1>17, <1>18, <1>19, <1>20, <1>21, <1>22, <1>23,
           <1>24, <1>25, <1>26, <1>27, <1>28, HostSteps DEF EpNext, Interrupt, Task

LEMMA AnswerStart == EpInit => Turns /\ Deals /\ RemainInv /\ AnswerInv /\ AnswerIntact /\ AckMeansServed
<1> SUFFICES ASSUME EpInit
             PROVE  Turns /\ Deals /\ RemainInv /\ AnswerInv /\ AnswerIntact /\ AckMeansServed
  OBVIOUS
<1>1. ~Busy /\ ~Body /\ ~Begun /\ outBuf # SetupPacket
  BY DEF EpInit, Busy, Body, Begun, Refusing, Fresh, Clearing, Free, SetupPacket
<1>2. setup.transfer = 0
  BY DEF EpInit, NoSetup, Setup
<1>3. Turns /\ Deals
  BY <1>1, <1>2 DEF EpInit, Turns, Deals, Clearing
<1>4. RemainInv
  BY DEF EpInit, RemainInv, NoSetup, Setup
<1>5. AnswerInv
  BY DEF EpInit, AnswerInv, Unanswered, Loaded, Written, Sent
<1>6. AnswerIntact /\ AckMeansServed
  BY DEF EpInit, AnswerIntact, AckMeansServed
<1> QED BY <1>3, <1>4, <1>5, <1>6

AnswerKnown == Known /\ Turns /\ Deals /\ RemainInv /\ AnswerInv /\ AnswerIntact /\ AckMeansServed

LEMMA AnswerKnownKept == ASSUME MaxAborts = 0 PROVE AnswerKnown /\ [EpNext]_epVars => AnswerKnown'
<1>1. ASSUME AnswerKnown, UNCHANGED epVars PROVE AnswerKnown'
  <2>1. Known'
    BY <1>1, KnownKept DEF AnswerKnown
  <2>2. UNCHANGED <<host, controller, flags, buffer, remain, task, served>>
    BY <1>1 DEF epVars
  <2>3. Turns' /\ Deals' /\ RemainInv'
    BY <1>1, <2>2 DEF AnswerKnown, Turns, Deals, Dealt, RemainInv, Busy, Body, Begun, Refusing, Fresh,
                      Clearing, Quiet, Unseen, host, controller, flags, buffer, remain, task
  <2>4. AnswerInv'
    BY <1>1, <2>2 DEF AnswerKnown, AnswerInv, Unanswered, Loaded, Written, Sent, Holds, First, Busy, Body,
                      Begun, Refusing, Fresh, Clearing, host, controller, flags, buffer, remain, task
  <2>5. AnswerIntact' /\ AckMeansServed'
    BY <1>1, <2>2 DEF AnswerKnown, AnswerIntact, AckMeansServed, host
  <2> QED BY <2>1, <2>3, <2>4, <2>5 DEF AnswerKnown
<1>2. ASSUME AnswerKnown, EpNext PROVE AnswerKnown'
  <2>1. Known' /\ EpTypeOK /\ BuffersKept /\ DataTypes /\ TransferInv
    BY <1>2, KnownKept DEF AnswerKnown, Known, EpInv
  <2>2. Turns' /\ Deals' /\ RemainInv'
    BY <1>2, <2>1, TurnsKept, DealsKept, RemainKept DEF AnswerKnown
  <2>3. AnswerInv' /\ AnswerIntact'
    BY <1>2, <2>1, UnansweredKept, LoadedKept, WrittenKept, SentKept, AnswerIntactKept
       DEF AnswerKnown, AnswerInv
  <2>4. AckMeansServed'
    BY <1>2, <2>1, AckKept DEF AnswerKnown
  <2> QED BY <2>1, <2>2, <2>3, <2>4 DEF AnswerKnown
<1> QED BY <1>1, <1>2

LEMMA EpAnswers == ASSUME MaxAborts = 0 PROVE EpSpec => []AnswerKnown
<1>1. EpInit => AnswerKnown
  BY KnownStart, AnswerStart DEF AnswerKnown
<1>2. AnswerKnown /\ [EpNext]_epVars => AnswerKnown'
  BY AnswerKnownKept
<1> QED BY <1>1, <1>2, PTL DEF EpSpec

(***************************************************************************)
(* What the host receives is a prefix of the answer to its request         *)
(* (WriteControlEndpoint, the IN branch of SlaveEndpointISR, Endpoint_-    *)
(* ClearIN), for every host that does not give up a transfer, whether it   *)
(* polls or not and wherever it resets the bus.                            *)
(***************************************************************************)
THEOREM EpAnswerIntact == ASSUME MaxAborts = 0 PROVE EpSpec => []AnswerIntact
<1>1. AnswerKnown => AnswerIntact
  BY DEF AnswerKnown
<1> QED BY <1>1, EpAnswers, PTL

(***************************************************************************)
(* A transfer such a host saw complete was dealt with by its own handler   *)
(* (USB_Device_ProcessControlRequest, EVENT_USB_Device_ControlRequest).    *)
(***************************************************************************)
THEOREM EpAckMeansServed == ASSUME MaxAborts = 0 PROVE EpSpec => []AckMeansServed
<1>1. AnswerKnown => AckMeansServed
  BY DEF AnswerKnown
<1> QED BY <1>1, EpAnswers, PTL
=============================================================================
