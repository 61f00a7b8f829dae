--------------------------- MODULE StandardRequests ---------------------------
(***************************************************************************)
(* Enumeration: the standard requests of USB_Device_ProcessControlRequest, *)
(* the bus reset of DcdIrqHandler that may fall between any two of their   *)
(* steps, and a host that enumerates the device, resets it when it does    *)
(* not answer, and then asks for whatever it likes.  An answer is one      *)
(* packet here; ControlEndpoint has the packets.                           *)
(***************************************************************************)
EXTENDS Integers, Sequences

CONSTANTS
    Plan,        \* requests of an enumeration, in order
    Requests,    \* requests of an enumerated device
    MaxResets    \* bound on bus resets out of the blue

\* A host gives a device an address, configures it, and leaves the address as
\* it is until the next bus reset.
ASSUME PlanAssumption ==
    /\ Len(Plan) \in Nat /\ MaxResets \in Nat
    /\ \A i \in 1 .. Len(Plan) : Plan[i].bRequest = "SetAddress" => Plan[i].wValue \in 1 .. 127
    /\ \E i \in 1 .. Len(Plan) : Plan[i].bRequest = "SetAddress"
    /\ \E c \in 1 .. Len(Plan) :
          /\ Plan[c].bRequest = "SetConfiguration"
          /\ \A i \in 1 .. Len(Plan) : Plan[i].bRequest = "SetAddress" => i < c
    /\ \A r \in Requests : r.bRequest # "SetAddress"

VARIABLES
    \* the host
    stage,         \* "detached", "idle", "in", "status_in" or "status_out"
    asked,         \* its request
    planned,       \* position in Plan of the next one
    hostAddress,   \* where it believes the device is
    believes,      \* what it has set since the last bus reset
    heard,         \* the last answer
    resets,
    \* the controller (external)
    inBuf,         \* packet to send
    stalled,       \* physical endpoints 0 (OUT) and 1 (IN) that answer STALL
    address, nextAddress,
    \* the driver
    SETUPReceived, SetupPackage,
    USB_DeviceState, USB_Device_ConfigurationNumber, USB_Device_RemoteWakeupEnabled,
    pc, USB_ControlRequest,
    stale          \* history: the last bus reset came upon a request not yet done

host == <<stage, asked, planned, hostAddress, believes, heard, resets>>
controller == <<inBuf, stalled, address, nextAddress>>
setup == <<SETUPReceived, SetupPackage>>
device == <<USB_DeviceState, USB_Device_ConfigurationNumber, USB_Device_RemoteWakeupEnabled>>
task == <<pc, USB_ControlRequest>>
stdVars == <<host, controller, setup, device, task, stale>>

Request(r, to, v) == [bRequest |-> r, recipient |-> to, wValue |-> v]
NoRequest == Request("None", "device", 0)
ToHost(r) == r.bRequest \in {"GetStatus", "GetDescriptor", "GetConfiguration"}

NoPacket == [type |-> "none", value |-> 0]
StatusPacket == [type |-> "status", value |-> 0]
Data(v) == [type |-> "data", value |-> v]
Nowhere == -1   \* of nextAddress: no change is pending

Descriptors == {"Device", "Configuration", "Language", "Manufacturer", "Product", "Layout"}

\* A reset takes address and configuration away.  Of the wakeup setting the host
\* knows nothing, {}, until it sets or clears it.
Unknown == [address |-> 0, configuration |-> 0, wakeup |-> {}]

StdInit ==
    /\ stage = "detached" /\ asked = NoRequest /\ planned = 1 /\ resets = 0
    /\ hostAddress = 0 /\ believes = Unknown /\ heard = NoPacket
    /\ inBuf = NoPacket /\ stalled = {} /\ address = 0 /\ nextAddress = Nowhere
    /\ SETUPReceived = FALSE /\ SetupPackage = NoRequest
    /\ USB_DeviceState = "Unattached" /\ USB_Device_ConfigurationNumber = 0
    /\ USB_Device_RemoteWakeupEnabled = FALSE
    /\ pc = "poll" /\ USB_ControlRequest = NoRequest
    /\ stale = FALSE

-----------------------------------------------------------------------------
(***************************************************************************)
(* The bus reset.  The controller drops its buffers and its address; the   *)
(* interrupt handler resets what HAL_Reset names and USB_DeviceState.  A   *)
(* SETUP packet already received, and the handler the task is in, stay.    *)
(***************************************************************************)
BusReset ==
    /\ stage' = "idle" /\ asked' = NoRequest /\ planned' = 1
    /\ hostAddress' = 0 /\ believes' = Unknown /\ heard' = NoPacket
    /\ inBuf' = NoPacket /\ stalled' = {} /\ address' = 0 /\ nextAddress' = Nowhere
    /\ USB_DeviceState' = "Default"
    /\ stale' = (SETUPReceived \/ pc # "poll")
    /\ UNCHANGED <<setup, USB_Device_ConfigurationNumber, USB_Device_RemoteWakeupEnabled, task>>

Attach == stage = "detached" /\ BusReset /\ UNCHANGED resets

SpuriousReset ==
    /\ stage # "detached" /\ resets < MaxResets
    /\ resets' = resets + 1 /\ BusReset

(***************************************************************************)
(* A host waits longer than any handler runs.  It resets the device when   *)
(* what it waits for can no longer come, or when a request of the          *)
(* enumeration was stalled or answered by the wrong kind of packet.        *)
(***************************************************************************)
Reached == address = hostAddress
Refused == stage # "idle" /\ Reached /\ stalled = {0, 1}
Expected == IF stage = "in" THEN "data" ELSE "status"
Enumerating == planned <= Len(Plan)

HostRecovers ==
    /\ stage \in {"in", "status_in", "status_out"} /\ pc = "poll" /\ ~(SETUPReceived /\ Reached)
    /\ \/ ~Reached
       \/ stage # "status_out" /\ 1 \notin stalled /\ inBuf.type # Expected
       \/ Refused /\ Enumerating
    /\ BusReset /\ UNCHANGED resets

\* A SETUP packet and the interrupt it raises.  A host leaves a device two
\* milliseconds to change its address, which the handler does not need.
HostSetup(r) ==
    /\ stage = "idle" /\ (asked.bRequest = "SetAddress" => pc = "poll")
    /\ stage' = (IF ToHost(r) THEN "in" ELSE "status_in")
    /\ asked' = r
    /\ IF Reached
       THEN /\ SETUPReceived' = TRUE /\ SetupPackage' = r
            /\ inBuf' = NoPacket /\ stalled' = {}
       ELSE UNCHANGED <<setup, inBuf, stalled>>
    /\ UNCHANGED <<planned, hostAddress, believes, heard, resets, address, nextAddress, device, task, stale>>

HostEnumerates == Enumerating /\ HostSetup(Plan[planned])
HostAsks == ~Enumerating /\ \E r \in Requests : HostSetup(r)

\* What the host believes once it has seen its request acknowledged.
Learned(r) ==
    CASE r.bRequest = "SetAddress" -> [believes EXCEPT !.address = r.wValue]
      [] r.bRequest = "SetConfiguration" -> [believes EXCEPT !.configuration = r.wValue]
      [] r.bRequest \in {"SetFeature", "ClearFeature"} /\ r.recipient = "device" ->
            [believes EXCEPT !.wakeup = {r.bRequest = "SetFeature"}]
      [] OTHER -> believes

HostIn ==
    /\ stage \in {"in", "status_in"} /\ Reached /\ 1 \notin stalled
    /\ inBuf.type = Expected
    /\ inBuf' = NoPacket
    /\ IF stage = "in"
       THEN /\ heard' = inBuf /\ stage' = "status_out"
            /\ UNCHANGED <<planned, believes, hostAddress>>
       ELSE /\ stage' = "idle"
            /\ planned' = (IF Enumerating THEN planned + 1 ELSE planned)
            /\ believes' = Learned(asked) /\ hostAddress' = believes'.address
            /\ UNCHANGED heard
    /\ address' = (IF nextAddress = Nowhere THEN address ELSE nextAddress)
    /\ nextAddress' = Nowhere
    /\ UNCHANGED <<asked, resets, stalled, setup, device, task, stale>>

HostStatusOut ==
    /\ stage = "status_out" /\ Reached /\ 0 \notin stalled
    /\ stage' = "idle"
    /\ planned' = (IF Enumerating THEN planned + 1 ELSE planned)
    /\ UNCHANGED <<asked, hostAddress, believes, heard, resets, controller, setup, device, task, stale>>

HostRefused ==
    /\ Refused /\ ~Enumerating
    /\ stage' = "idle"
    /\ UNCHANGED <<asked, planned, hostAddress, believes, heard, resets, controller, setup, device, task, stale>>

-----------------------------------------------------------------------------
(* The USB task. *)

\* USB_DeviceTask and the copy of the SETUP packet.
TakeSetup ==
    /\ pc = "poll" /\ SETUPReceived /\ USB_DeviceState # "Unattached"
    /\ USB_ControlRequest' = SetupPackage /\ pc' = "handle"
    /\ UNCHANGED <<host, controller, setup, device, stale>>

Handling(r) == pc = "handle" /\ SETUPReceived /\ USB_ControlRequest.bRequest = r
ClearSETUP == SETUPReceived' = FALSE /\ UNCHANGED SetupPackage

\* Faulty: a packet is valid for sending even over a SETUP packet.
FaultyWrite(packet) == inBuf' = packet

\* WriteControlEndpoint: the controller refuses it while a SETUP packet waits.
Write(packet) == inBuf' = (IF SETUPReceived THEN inBuf ELSE packet)

Answer(v) ==
    /\ ClearSETUP
    /\ inBuf' = Data(v) /\ pc' = "poll"
    /\ UNCHANGED <<host, stalled, address, nextAddress, device, USB_ControlRequest, stale>>

Stall ==
    /\ ClearSETUP /\ stalled' = {0, 1} /\ pc' = "poll"
    /\ UNCHANGED <<host, inBuf, address, nextAddress, device, USB_ControlRequest, stale>>

GetStatus ==
    /\ Handling("GetStatus")
    /\ \/ USB_ControlRequest.recipient = "device" /\ Answer(USB_Device_RemoteWakeupEnabled)
       \/ USB_ControlRequest.recipient = "endpoint" /\ Answer(0 \in stalled)

\* Faulty: the answer is the number of configurations.
FaultyGetConfiguration ==
    /\ Handling("GetConfiguration") /\ USB_ControlRequest.recipient = "device"
    /\ Answer(1)

GetConfiguration ==
    /\ Handling("GetConfiguration") /\ USB_ControlRequest.recipient = "device"
    /\ Answer(USB_Device_ConfigurationNumber)

GetDescriptor ==
    /\ Handling("GetDescriptor") /\ USB_ControlRequest.recipient \in {"device", "interface"}
    /\ USB_ControlRequest.wValue \in Descriptors
    /\ Answer(USB_ControlRequest.wValue)

\* USB_Device_ClearSetFeature, up to its acknowledgement.  No endpoint but 0
\* is configured: the handle of any other is that of endpoint 0.
ClearSetFeature ==
    /\ \/ Handling("SetFeature")
       \/ Handling("ClearFeature")
    /\ LET set == USB_ControlRequest.bRequest = "SetFeature"
       IN \/ /\ USB_ControlRequest.recipient = "device" /\ USB_ControlRequest.wValue = "RemoteWakeup"
             /\ USB_Device_RemoteWakeupEnabled' = set
             /\ UNCHANGED stalled
          \/ /\ USB_ControlRequest.recipient = "endpoint" /\ USB_ControlRequest.wValue = "Halt"
             /\ stalled' = (IF set THEN stalled \union {0} ELSE stalled \ {0})
             /\ UNCHANGED USB_Device_RemoteWakeupEnabled
          \/ /\ USB_ControlRequest.recipient = "endpoint"
             /\ USB_ControlRequest.wValue \notin {"Halt", "HaltControl"}
             /\ UNCHANGED <<stalled, USB_Device_RemoteWakeupEnabled>>
    /\ ClearSETUP /\ inBuf' = StatusPacket /\ pc' = "poll"
    /\ UNCHANGED <<host, address, nextAddress, USB_DeviceState, USB_Device_ConfigurationNumber,
                   USB_ControlRequest, stale>>

\* Faulty: the address changes before the status stage can take place.
FaultySetAddress ==
    /\ Handling("SetAddress") /\ USB_ControlRequest.recipient = "device"
    /\ ClearSETUP /\ inBuf' = StatusPacket /\ address' = USB_ControlRequest.wValue /\ pc' = "addressed"
    /\ UNCHANGED <<host, stalled, nextAddress, device, USB_ControlRequest, stale>>

\* In a critical section, so in one step.  The wait for isInReady that follows
\* is over at once: a packet shorter than the endpoint leaves it set.
SetAddress ==
    /\ Handling("SetAddress") /\ USB_ControlRequest.recipient = "device"
    /\ ClearSETUP /\ inBuf' = StatusPacket /\ pc' = "set_address"
    /\ UNCHANGED <<host, stalled, address, nextAddress, device, USB_ControlRequest, stale>>

\* USB_Device_SetDeviceAddress.  The controller may change at once or after
\* the status stage it is in.
SetDeviceAddress ==
    /\ pc = "set_address"
    /\ \/ address' = USB_ControlRequest.wValue /\ nextAddress' = Nowhere
       \/ inBuf.type = "status" /\ nextAddress' = USB_ControlRequest.wValue /\ UNCHANGED address
    /\ pc' = "addressed"
    /\ UNCHANGED <<host, inBuf, stalled, setup, device, USB_ControlRequest, stale>>

BecomeAddressed ==
    /\ pc = "addressed"
    /\ USB_DeviceState' = (IF USB_ControlRequest.wValue # 0 THEN "Addressed" ELSE "Default")
    /\ pc' = "poll"
    /\ UNCHANGED <<host, controller, setup, USB_Device_ConfigurationNumber, USB_Device_RemoteWakeupEnabled,
                   USB_ControlRequest, stale>>

FIXED_NUM_CONFIGURATIONS == 1

\* Faulty: configuration 0 is acknowledged and not stored.
FaultySetConfigurationZero ==
    /\ Handling("SetConfiguration") /\ USB_ControlRequest.recipient = "device"
    /\ USB_ControlRequest.wValue <= FIXED_NUM_CONFIGURATIONS
    /\ ClearSETUP
    /\ USB_Device_ConfigurationNumber' =
          (IF USB_ControlRequest.wValue = 0 THEN USB_Device_ConfigurationNumber ELSE USB_ControlRequest.wValue)
    /\ pc' = "acknowledge"
    /\ UNCHANGED <<host, controller, USB_DeviceState, USB_Device_RemoteWakeupEnabled, USB_ControlRequest, stale>>

\* Faulty: the SETUP packet is cleared before the configuration is looked at.
FaultySetConfigurationSilent ==
    /\ Handling("SetConfiguration") /\ USB_ControlRequest.recipient = "device"
    /\ ClearSETUP
    /\ IF USB_ControlRequest.wValue <= FIXED_NUM_CONFIGURATIONS
       THEN USB_Device_ConfigurationNumber' = USB_ControlRequest.wValue /\ pc' = "acknowledge"
       ELSE UNCHANGED USB_Device_ConfigurationNumber /\ pc' = "poll"
    /\ UNCHANGED <<host, controller, USB_DeviceState, USB_Device_RemoteWakeupEnabled, USB_ControlRequest, stale>>

SetConfiguration ==
    /\ Handling("SetConfiguration") /\ USB_ControlRequest.recipient = "device"
    /\ USB_ControlRequest.wValue <= FIXED_NUM_CONFIGURATIONS
    /\ ClearSETUP /\ USB_Device_ConfigurationNumber' = USB_ControlRequest.wValue
    /\ pc' = "acknowledge"
    /\ UNCHANGED <<host, controller, USB_DeviceState, USB_Device_RemoteWakeupEnabled, USB_ControlRequest, stale>>

Acknowledge ==
    /\ pc = "acknowledge"
    /\ Write(StatusPacket) /\ pc' = "configured"
    /\ UNCHANGED <<host, stalled, address, nextAddress, setup, device, USB_ControlRequest, stale>>

\* Faulty: configuration 0 takes the other branch, as if no address were set.
FaultyBecomeConfigured ==
    /\ pc = "configured"
    /\ USB_DeviceState' = (IF USB_Device_ConfigurationNumber # 0 THEN "Configured" ELSE "Powered")
    /\ pc' = "poll"
    /\ UNCHANGED <<host, controller, setup, USB_Device_ConfigurationNumber, USB_Device_RemoteWakeupEnabled,
                   USB_ControlRequest, stale>>

\* USB_Device_IsAddressSet() is always true.
BecomeConfigured ==
    /\ pc = "configured"
    /\ USB_DeviceState' = "Configured" /\ pc' = "poll"
    /\ UNCHANGED <<host, controller, setup, USB_Device_ConfigurationNumber, USB_Device_RemoteWakeupEnabled,
                   USB_ControlRequest, stale>>

Handled(r) ==
    \/ r.bRequest = "GetStatus" /\ r.recipient \in {"device", "endpoint"}
    \/ r.bRequest = "GetConfiguration" /\ r.recipient = "device"
    \/ r.bRequest = "GetDescriptor" /\ r.recipient \in {"device", "interface"} /\ r.wValue \in Descriptors
    \/ r.bRequest \in {"SetFeature", "ClearFeature"} /\ r.recipient = "device" /\ r.wValue = "RemoteWakeup"
    \/ r.bRequest \in {"SetFeature", "ClearFeature"} /\ r.recipient = "endpoint" /\ r.wValue # "HaltControl"
    \/ r.bRequest = "SetAddress" /\ r.recipient = "device"
    \/ r.bRequest = "SetConfiguration" /\ r.recipient = "device" /\ r.wValue <= FIXED_NUM_CONFIGURATIONS

\* The handlers of every other request return without touching SETUPReceived.
Unhandled == pc = "handle" /\ SETUPReceived /\ ~Handled(USB_ControlRequest) /\ Stall

TaskStep ==
    \/ TakeSetup \/ GetStatus \/ GetConfiguration \/ GetDescriptor \/ ClearSetFeature
    \/ SetAddress \/ SetDeviceAddress \/ BecomeAddressed
    \/ SetConfiguration \/ Acknowledge \/ BecomeConfigured \/ Unhandled

HostStep ==
    \/ Attach \/ SpuriousReset \/ HostRecovers \/ HostEnumerates \/ HostAsks
    \/ HostIn \/ HostStatusOut \/ HostRefused

StdNext == TaskStep \/ HostStep
StdSpec == StdInit /\ [][StdNext]_stdVars
\* The host's timeouts are longer than a handler, the task keeps running, and
\* a host that tries a request again and again gets its packet through at last.
FairStd ==
    /\ StdSpec
    /\ WF_stdVars(TaskStep) /\ WF_stdVars(Attach) /\ WF_stdVars(HostRecovers)
    /\ WF_stdVars(HostEnumerates) /\ WF_stdVars(HostStatusOut)
    /\ \A i \in 1 .. Len(Plan) : SF_stdVars(HostIn /\ planned = i)

-----------------------------------------------------------------------------
DeviceStates == {"Unattached", "Default", "Addressed", "Configured"}
Places == 1 .. (Len(Plan) + 1)
StdTypeOK ==
    /\ stage \in {"detached", "idle", "in", "status_in", "status_out"}
    /\ planned \in Places /\ resets \in 0 .. MaxResets
    /\ stalled \subseteq {0, 1} /\ nextAddress \in Nat \union {Nowhere}
    /\ SETUPReceived \in BOOLEAN /\ USB_DeviceState \in DeviceStates
    /\ pc \in {"poll", "handle", "set_address", "addressed", "acknowledge", "configured"}

Done == pc = "poll" /\ ~SETUPReceived

\* No request of a host that can reach the device is left without an answer
\* or a stall once its handler has returned, whatever bus resets came between
\* (the early returns of USB_Device_GetStatus, USB_Device_ClearSetFeature and
\* USB_Device_SetConfiguration come before Endpoint_ClearSETUP).
NoSilentRequest ==
    Done /\ Reached /\ stage \in {"in", "status_in"} => inBuf # NoPacket \/ 1 \in stalled

\* The inductive invariant behind it.  A SETUP packet that waits has emptied the
\* buffer and lifted the stalls; once it is cleared there is an answer, a stall,
\* or a handler that is about to acknowledge it; and a change of address falls
\* upon a host that does not wait in vain (USB_Device_SetAddress,
\* USB_Device_SetConfiguration).
SetupFirst ==
    /\ pc = "handle" => SETUPReceived
    /\ SETUPReceived => inBuf = NoPacket /\ stalled = {}
    /\ believes = [address |-> hostAddress, configuration |-> believes.configuration,
                   wakeup |-> believes.wakeup]

AddressPending ==
    /\ SETUPReceived /\ nextAddress # Nowhere => asked = SetupPackage /\ stage \in {"in", "status_in"}
    /\ pc = "handle" /\ nextAddress # Nowhere => asked = USB_ControlRequest
    /\ pc = "set_address" =>
          /\ USB_ControlRequest.bRequest = "SetAddress"
          /\ nextAddress # Nowhere => asked.bRequest = "SetAddress"
          /\ inBuf = NoPacket /\ ~SETUPReceived /\ asked.bRequest # "SetAddress" => Reached

Served ==
    (Reached \/ pc = "set_address") /\ ~SETUPReceived /\ stage \in {"in", "status_in"}
        => inBuf # NoPacket \/ 1 \in stalled \/ pc = "acknowledge"

StdInv == SetupFirst /\ AddressPending /\ Served

\* Unless a bus reset fell upon a request not yet done, the device is, once
\* its handler has returned, where the host believes it after its enumeration:
\* at the address and with the configuration number it last saw acknowledged,
\* Configured if that number is not 0, and with the wakeup setting it last saw
\* acknowledged since the bus reset (USB_Device_SetAddress,
\* USB_Device_SetConfiguration, USB_Device_ClearSetFeature).  Of the state after
\* SET_CONFIGURATION 0 it says nothing: there Device.h:94-97 promises Addressed
\* and DeviceStandardReq.c:204 leaves the device Configured.
HostKnowsDevice ==
    (Done /\ ~stale /\ ~Enumerating /\ stage = "idle") =>
        /\ address = hostAddress /\ believes.configuration = USB_Device_ConfigurationNumber
        /\ believes.configuration # 0 => USB_DeviceState = "Configured"
        /\ believes.wakeup \subseteq {USB_Device_RemoteWakeupEnabled}

\* An answer to GET_CONFIGURATION, read by a host that has configured the
\* device, names the configuration it set (USB_Device_GetConfiguration).
AnswerAgrees ==
    (stage = "status_out" /\ asked.bRequest = "GetConfiguration" /\ ~stale /\ ~Enumerating)
        => heard.value = believes.configuration

\* Whatever bus resets fell upon the handlers: an enumeration ends with the
\* device configured where the host believes it (HAL_Reset and the interrupt
\* of DcdIrqHandler restore what the next attempt needs).
Enumerated == ~Enumerating /\ Reached /\ USB_DeviceState = "Configured"
EnumerationEnds == []<>Enumerated
=============================================================================
