----------------------- MODULE StandardRequests_proofs -----------------------
(***************************************************************************)
(* For every plan of enumeration, every set of requests and any number of  *)
(* bus resets: no request is left without an answer, and what the host has *)
(* seen acknowledged is what the device has done.  The hard case is        *)
(* SET_ADDRESS: a bus reset in the middle of its handler brings the host   *)
(* back to address 0 while the handler goes on to change the device's, and *)
(* the host's next request must not fall into the gap.                     *)
(***************************************************************************)
EXTENDS StandardRequests, TLAPS

USE DEF NoPacket, StatusPacket, Data, Nowhere, Reached

LEMMA StdStart == StdInit => StdInv
BY DEF StdInit, StdInv, SetupFirst, AddressPending, Served, NoRequest, Request, Unknown

-----------------------------------------------------------------------------
(* The host. *)

LEMMA ResetKeeps == ASSUME StdInv, BusReset PROVE StdInv'
BY DEF StdInv, SetupFirst, AddressPending, Served, BusReset, setup, task, Unknown, NoRequest, Request

LEMMA SetupKeeps == ASSUME StdInv, NEW r, HostSetup(r) PROVE StdInv'
<1> USE DEF StdInv, HostSetup, setup, device, task
<1>1. SetupFirst'
  BY DEF SetupFirst
<1>2. AddressPending'
  BY DEF SetupFirst, AddressPending
<1>3. Served'
  BY DEF SetupFirst, AddressPending, Served
<1> QED BY <1>1, <1>2, <1>3

LEMMA LearnedAddress ==
  ASSUME SetupFirst
  PROVE  /\ asked.bRequest # "SetAddress" => Learned(asked).address = hostAddress
         /\ Learned(asked) = [address |-> Learned(asked).address,
                              configuration |-> Learned(asked).configuration,
                              wakeup |-> Learned(asked).wakeup]
<1>1. CASE asked.bRequest = "SetAddress"
  BY <1>1 DEF SetupFirst, Learned
<1>2. CASE asked.bRequest = "SetConfiguration"
  BY <1>2 DEF SetupFirst, Learned
<1>3. CASE asked.bRequest \in {"SetFeature", "ClearFeature"}
  BY <1>3 DEF SetupFirst, Learned
<1>4. CASE asked.bRequest \notin {"SetAddress", "SetConfiguration", "SetFeature", "ClearFeature"}
  BY <1>4 DEF SetupFirst, Learned
<1> QED BY <1>1, <1>2, <1>3, <1>4

LEMMA InKeeps == ASSUME StdInv, HostIn PROVE StdInv'
<1> USE DEF StdInv, HostIn, setup, device, task
<1>1. inBuf # NoPacket
  BY DEF Expected
<1>2. ~SETUPReceived /\ ~SETUPReceived'
  BY <1>1 DEF SetupFirst
<1>3. SetupFirst'
  BY <1>2, LearnedAddress DEF SetupFirst
<1>4. AddressPending'
  BY <1>2, LearnedAddress DEF AddressPending, SetupFirst
<1>5. Served'
  BY DEF Served
<1> QED BY <1>3, <1>4, <1>5

LEMMA HostKeeps == ASSUME StdInv, HostStep PROVE StdInv'
<1>1. CASE Attach \/ SpuriousReset \/ HostRecovers
  BY <1>1, ResetKeeps DEF Attach, SpuriousReset, HostRecovers
<1>2. CASE HostEnumerates \/ HostAsks
  BY <1>2, SetupKeeps DEF HostEnumerates, HostAsks
<1>3. CASE HostIn
  BY <1>3, InKeeps
<1>4. CASE HostStatusOut
  BY <1>4 DEF HostStatusOut, StdInv, SetupFirst, AddressPending, Served, controller, setup, device, task
<1>5. CASE HostRefused
  BY <1>5 DEF HostRefused, Refused, StdInv, SetupFirst, AddressPending, Served, controller, setup, device, task
<1> QED BY <1>1, <1>2, <1>3, <1>4, <1>5 DEF HostStep

-----------------------------------------------------------------------------
(* The task. *)

\* A handler that ends with an answer or a stall.
LEMMA AnswerKeeps ==
  ASSUME StdInv, pc' = "poll", ClearSETUP,
         inBuf' # NoPacket \/ 1 \in stalled',
         UNCHANGED <<asked, stage, address, nextAddress, hostAddress, believes>>
  PROVE  StdInv'
BY DEF StdInv, SetupFirst, AddressPending, Served, ClearSETUP

LEMMA SetAddressKeeps ==
  ASSUME StdInv, SetAddress \/ SetDeviceAddress \/ BecomeAddressed
  PROVE  StdInv'
<1>1. CASE SetAddress
  BY <1>1 DEF SetAddress, Handling, ClearSETUP, StdInv, SetupFirst, AddressPending, Served, host, device
<1>2. CASE SetDeviceAddress
  BY <1>2 DEF SetDeviceAddress, StdInv, SetupFirst, AddressPending, Served, host, setup, device
<1>3. CASE BecomeAddressed
  BY <1>3 DEF BecomeAddressed, StdInv, SetupFirst, AddressPending, Served, host, controller, setup
<1> QED BY <1>1, <1>2, <1>3

LEMMA SetConfigurationKeeps ==
  ASSUME StdInv, SetConfiguration \/ Acknowledge \/ BecomeConfigured
  PROVE  StdInv'
<1>1. CASE SetConfiguration
  BY <1>1 DEF SetConfiguration, Handling, ClearSETUP, StdInv, SetupFirst, AddressPending, Served, host, controller
<1>2. CASE Acknowledge
  BY <1>2 DEF Acknowledge, Write, StdInv, SetupFirst, AddressPending, Served, host, setup, device
<1>3. CASE BecomeConfigured
  BY <1>3 DEF BecomeConfigured, StdInv, SetupFirst, AddressPending, Served, host, controller, setup
<1> QED BY <1>1, <1>2, <1>3

LEMMA TaskKeeps == ASSUME StdInv, TaskStep PROVE StdInv'
<1>1. CASE TakeSetup
  BY <1>1 DEF TakeSetup, StdInv, SetupFirst, AddressPending, Served, host, controller, setup, device
<1>2. CASE GetStatus \/ GetConfiguration \/ GetDescriptor
  <2>1. PICK v : Answer(v)
    BY <1>2 DEF GetStatus, GetConfiguration, GetDescriptor
  <2>2. inBuf' # NoPacket
    BY <2>1 DEF Answer
  <2> QED BY <2>1, <2>2, AnswerKeeps DEF Answer, host
<1>3. CASE ClearSetFeature
  <2>1. inBuf' # NoPacket
    BY <1>3 DEF ClearSetFeature
  <2> QED BY <1>3, <2>1, AnswerKeeps DEF ClearSetFeature, host
<1>4. CASE Unhandled
  BY <1>4, AnswerKeeps DEF Unhandled, Stall, host
<1> QED
  BY <1>1, <1>2, <1>3, <1>4, SetAddressKeeps, SetConfigurationKeeps DEF TaskStep

-----------------------------------------------------------------------------
(***************************************************************************)
(* The invariant of the requests (DcdIrqHandler, HAL_Reset, and the        *)
(* handlers of DeviceStandardReq.c).                                       *)
(***************************************************************************)
THEOREM StdInvariant == StdSpec => []StdInv
<1>1. StdInv /\ UNCHANGED stdVars => StdInv'
  BY DEF StdInv, SetupFirst, AddressPending, Served, stdVars, host, controller, setup, device, task
<1>2. StdInv /\ [StdNext]_stdVars => StdInv'
  BY <1>1, HostKeeps, TaskKeeps DEF StdNext
<1> QED BY <1>2, StdStart, PTL DEF StdSpec

(***************************************************************************)
(* A host that can reach the device is not left without an answer or a     *)
(* stall once the handler of its request has returned.                     *)
(***************************************************************************)
THEOREM StdNoSilentRequest == StdSpec => []NoSilentRequest
<1>1. StdInv => NoSilentRequest
  BY DEF StdInv, Served, NoSilentRequest, Done
<1> QED BY <1>1, StdInvariant, PTL

-----------------------------------------------------------------------------
(***************************************************************************)
(* Types.  That a pending address is a number needs that every request to  *)
(* change the address names one, wherever the request is kept.             *)
(***************************************************************************)
Numbered(r) == r.bRequest = "SetAddress" => r.wValue \in Nat
AddressNumbers == Numbered(asked) /\ Numbered(SetupPackage) /\ Numbered(USB_ControlRequest)

Types == StdTypeOK /\ AddressNumbers

Steps == 1 .. Len(Plan)

LEMMA AddressInPlan ==
  ASSUME NEW i \in Steps, Plan[i].bRequest = "SetAddress"
  PROVE  Plan[i].wValue \in Nat /\ Plan[i].wValue # 0
<1>1. Plan[i].wValue \in 1 .. 127
  BY PlanAssumption DEF Steps
<1> QED BY <1>1

LEMMA PlacesInPlan ==
  /\ 1 \in Places /\ MaxResets \in Nat
  /\ planned \in Places /\ Enumerating => planned \in Steps /\ planned + 1 \in Places
BY PlanAssumption DEF Places, Steps, Enumerating

LEMMA TypesStart == StdInit => Types
<1> SUFFICES ASSUME StdInit PROVE Types
  OBVIOUS
<1>1. asked = NoRequest /\ SetupPackage = NoRequest /\ USB_ControlRequest = NoRequest /\ Numbered(NoRequest)
  BY DEF StdInit, Numbered, NoRequest, Request
<1>2. AddressNumbers
  BY <1>1 DEF AddressNumbers
<1>3. planned \in Places /\ resets \in 0 .. MaxResets
  BY PlacesInPlan DEF StdInit
<1>4. StdTypeOK
  BY <1>3 DEF StdInit, StdTypeOK, DeviceStates
<1> QED BY <1>2, <1>4 DEF Types

LEMMA HostTypes == ASSUME Types, HostStep PROVE Types'
<1> USE PlacesInPlan DEF Types, StdTypeOK, AddressNumbers, Numbered, DeviceStates
<1>1. CASE Attach \/ SpuriousReset \/ HostRecovers
  <2>1. BusReset /\ resets' \in 0 .. MaxResets
    BY <1>1, PlanAssumption DEF Attach, SpuriousReset, HostRecovers
  <2> QED BY <2>1 DEF BusReset, setup, task, NoRequest, Request
<1>2. ASSUME NEW r, HostSetup(r), Numbered(r) PROVE Types'
  BY <1>2 DEF HostSetup, setup, device, task
<1>3. CASE HostEnumerates
  <2>1. planned \in Steps
    BY <1>3 DEF HostEnumerates
  <2>2. Numbered(Plan[planned])
    BY <2>1, AddressInPlan
  <2> QED BY <1>2, <1>3, <2>2 DEF HostEnumerates
<1>4. CASE HostAsks
  BY <1>2, <1>4, PlanAssumption DEF HostAsks
<1>5. CASE HostIn
  <2>1. planned' \in Places
    BY <1>5 DEF HostIn
  <2>2. stage' \in {"idle", "status_out"} /\ nextAddress' = Nowhere
        /\ UNCHANGED <<asked, resets, stalled, SETUPReceived, SetupPackage, USB_DeviceState, pc, USB_ControlRequest>>
    BY <1>5 DEF HostIn, setup, device, task
  <2> QED BY <2>1, <2>2
<1>6. CASE HostStatusOut
  <2>1. planned' \in Places
    BY <1>6 DEF HostStatusOut
  <2> QED BY <1>6, <2>1 DEF HostStatusOut, controller, setup, device, task
<1>7. CASE HostRefused
  BY <1>7 DEF HostRefused, controller, setup, device, task
<1> QED BY <1>1, <1>3, <1>4, <1>5, <1>6, <1>7 DEF HostStep

LEMMA TaskTypes == ASSUME Types, StdInv, TaskStep PROVE Types'
<1> USE DEF Types, StdTypeOK, AddressNumbers, Numbered, DeviceStates, ClearSETUP, host, controller, setup, device
<1>1. CASE TakeSetup
  BY <1>1 DEF TakeSetup
<1>2. CASE GetStatus \/ GetConfiguration \/ GetDescriptor
  BY <1>2 DEF GetStatus, GetConfiguration, GetDescriptor, Answer
<1>3. CASE ClearSetFeature
  BY <1>3 DEF ClearSetFeature
<1>4. CASE SetAddress
  BY <1>4 DEF SetAddress
<1>5. CASE SetDeviceAddress
  BY <1>5 DEF SetDeviceAddress, StdInv, AddressPending
<1>6. CASE BecomeAddressed
  BY <1>6 DEF BecomeAddressed
<1>7. CASE SetConfiguration
  BY <1>7 DEF SetConfiguration
<1>8. CASE Acknowledge
  BY <1>8 DEF Acknowledge
<1>9. CASE BecomeConfigured
  BY <1>9 DEF BecomeConfigured
<1>10. CASE Unhandled
  BY <1>10 DEF Unhandled, Stall
<1> QED BY <1>1, <1>2, <1>3, <1>4, <1>5, <1>6, <1>7, <1>8, <1>9, <1>10 DEF TaskStep

LEMMA TypesKept == StdSpec => []Types
<1>1. Types /\ UNCHANGED stdVars => Types'
  BY DEF Types, StdTypeOK, AddressNumbers, Numbered, stdVars, host, controller, setup, device, task
<1>2. Types /\ StdInv /\ [StdNext]_stdVars => Types'
  BY <1>1, HostTypes, TaskTypes DEF StdNext
<1> QED BY <1>2, TypesStart, StdInvariant, PTL DEF StdSpec

(***************************************************************************)
(* The variables keep their types (Device.h, DeviceStandardReq.c).         *)
(***************************************************************************)
THEOREM StdTypes == StdSpec => []StdTypeOK
<1>1. Types => StdTypeOK
  BY DEF Types
<1> QED BY <1>1, TypesKept, PTL

-----------------------------------------------------------------------------
(***************************************************************************)
(* What the host has been told and what the device has done.  Since the    *)
(* last bus reset, if that did not fall upon a request, the SETUP packet   *)
(* that waits and the request a handler is in are the host's last one.     *)
(***************************************************************************)
Asks(r) == asked.bRequest = r
Planned(r) == \E i \in 1 .. Len(Plan) : i < planned /\ Plan[i].bRequest = r

\* The host has configured the device since it last gave it an address.
ConfiguredLast ==
    \E c \in 1 .. Len(Plan) :
       /\ c < planned /\ Plan[c].bRequest = "SetConfiguration"
       /\ \A i \in 1 .. Len(Plan) : Plan[i].bRequest = "SetAddress" => i < c

\* The host keeps to its plan.
HostPlan ==
    /\ stage \in {"in", "status_in", "status_out"} =>
          IF Enumerating THEN asked = Plan[planned] ELSE asked \in Requests
    /\ stage \in {"in", "status_out"} => ToHost(asked)
    /\ stage = "status_in" => ~ToHost(asked)
    /\ Asks("SetAddress") => ~ConfiguredLast /\ asked.wValue \in Nat
    /\ Planned("SetAddress") => hostAddress # 0

\* Where the handler can be.
TaskFollows ==
    /\ SETUPReceived =>
          /\ stage \in {"in", "status_in"} /\ SetupPackage = asked
          /\ pc \in {"poll", "handle", "configured"}
    /\ pc = "handle" => USB_ControlRequest = asked
    /\ pc \in {"set_address", "addressed"} =>
          USB_ControlRequest = asked /\ Asks("SetAddress") /\ stage \in {"idle", "status_in"}
    /\ pc = "acknowledge" =>
          /\ USB_ControlRequest = asked /\ Asks("SetConfiguration") /\ stage = "status_in"
          /\ USB_Device_ConfigurationNumber = asked.wValue /\ inBuf = NoPacket /\ stalled = {}

\* Only a request to change the address makes it differ from the host's.
AddressFollows ==
    /\ stage # "status_in" /\ pc # "set_address" => Reached
    /\ ~Asks("SetAddress") \/ SETUPReceived => Reached
    /\ nextAddress # Nowhere =>
          Asks("SetAddress") /\ stage = "status_in" /\ ~SETUPReceived /\ nextAddress = asked.wValue /\ Reached
    /\ pc = "set_address" =>
          /\ nextAddress = Nowhere
          /\ stage = "status_in" => Reached
          /\ stage = "idle" => hostAddress = asked.wValue /\ inBuf = NoPacket
    /\ Asks("SetAddress") /\ stage = "status_in" /\ inBuf.type = "status" /\ pc # "set_address"
          /\ nextAddress = Nowhere => address = asked.wValue

\* The configuration the host believes in is the device's, but for a request
\* to change it that is being acknowledged.
ConfigurationFollows ==
    /\ Asks("SetConfiguration") /\ stage = "status_in" /\ inBuf.type = "status" =>
          /\ USB_Device_ConfigurationNumber = asked.wValue
          /\ pc = "configured" \/ USB_DeviceState = "Configured"
    /\ Planned("SetConfiguration") =>
          \/ believes.configuration = USB_Device_ConfigurationNumber
          \/ /\ Asks("SetConfiguration") /\ stage = "status_in" /\ ~SETUPReceived /\ stalled = {}
             /\ USB_Device_ConfigurationNumber = asked.wValue
    /\ ConfiguredLast => pc = "configured" \/ USB_DeviceState = "Configured"
    /\ Asks("GetConfiguration") /\ stage = "in" /\ inBuf.type = "data" =>
          inBuf.value = USB_Device_ConfigurationNumber
    /\ Asks("GetConfiguration") /\ stage = "status_out" =>
          heard.value = USB_Device_ConfigurationNumber

Follows == ~stale => TaskFollows /\ AddressFollows /\ ConfigurationFollows

Detached == stage = "detached" => Done /\ stalled = {}

KnowsInv == HostPlan /\ Follows /\ Detached

LEMMA KnowsStart == StdInit => KnowsInv
BY PlanAssumption DEF StdInit, KnowsInv, Detached, Done, HostPlan, Follows, TaskFollows, AddressFollows, ConfigurationFollows, Asks,
   Planned, ConfiguredLast, NoRequest, Request, Unknown, Enumerating

\* What a step of the device leaves alone, and with it the host's plan.
LEMMA DeviceKeepsPlan == ASSUME HostPlan, UNCHANGED host PROVE HostPlan'
BY DEF HostPlan, host, Asks, Planned, ConfiguredLast, Enumerating

\* A reset puts the host and, if no request is under way, the device at the
\* beginning.
LEMMA ResetKnows == ASSUME StdInv, KnowsInv, BusReset PROVE KnowsInv'
<1>1. planned' = 1 /\ asked' = NoRequest /\ stage' = "idle" /\ nextAddress' = Nowhere
      /\ hostAddress' = 0 /\ address' = 0
  BY DEF BusReset
<1>2. ~Planned("SetAddress")' /\ ~Planned("SetConfiguration")' /\ ~ConfiguredLast'
  BY <1>1, PlanAssumption DEF Planned, ConfiguredLast
<1>3. \A r \in {"SetAddress", "SetConfiguration", "GetConfiguration"} : ~Asks(r)'
  BY <1>1 DEF Asks, NoRequest, Request
<1>4. HostPlan'
  BY <1>1, <1>2, <1>3 DEF HostPlan
<1>5. ~stale' => pc' = "poll" /\ ~SETUPReceived'
  BY DEF BusReset, setup, task
<1>6. Follows'
  BY <1>1, <1>2, <1>3, <1>5 DEF Follows, TaskFollows, AddressFollows, ConfigurationFollows
<1> QED BY <1>1, <1>4, <1>6 DEF KnowsInv, Detached

LEMMA SetupKnows ==
  ASSUME StdInv, KnowsInv, NEW r, HostSetup(r),
         IF Enumerating THEN r = Plan[planned] ELSE r \in Requests,
         Types
  PROVE  KnowsInv'
<1> USE DEF KnowsInv
<1>1. stage = "idle" /\ asked' = r /\ planned' = planned /\ stage' \in {"in", "status_in"}
      /\ UNCHANGED <<hostAddress, believes, heard, device, task, stale, address, nextAddress>>
  BY DEF HostSetup
<1> USE DEF Detached
<1>2. UNCHANGED <<Enumerating, Planned("SetAddress"), Planned("SetConfiguration"), ConfiguredLast>>
  BY <1>1 DEF Enumerating, Planned, ConfiguredLast
<1>3. r.bRequest = "SetAddress" => r.wValue \in Nat /\ ~ConfiguredLast
  <2> SUFFICES ASSUME r.bRequest = "SetAddress" PROVE r.wValue \in Nat /\ ~ConfiguredLast
    OBVIOUS
  <2>1. Enumerating /\ planned \in Steps /\ Plan[planned].bRequest = "SetAddress"
    BY PlanAssumption DEF Types, StdTypeOK, Enumerating, Places, Steps
  <2>2. ~ConfiguredLast
    BY <2>1, PlanAssumption DEF ConfiguredLast, Types, StdTypeOK, Steps, Places
  <2> QED BY <2>1, <2>2, AddressInPlan
<1>4. HostPlan'
  BY <1>1, <1>2, <1>3 DEF HostPlan, HostSetup, Asks
<1>5. CASE stale
  BY <1>1, <1>4, <1>5 DEF Follows
<1>6. CASE ~stale
  <2>1. TaskFollows /\ AddressFollows /\ ConfigurationFollows
    BY <1>6 DEF Follows
  <2>2. ~SETUPReceived /\ pc \in {"poll", "configured"}
    BY <1>1, <2>1 DEF TaskFollows, HostSetup, StdInv, SetupFirst, Types, StdTypeOK, Asks
  <2>3. Reached /\ nextAddress = Nowhere
    BY <1>1, <2>1, <2>2 DEF AddressFollows
  <2>4. SETUPReceived' /\ SetupPackage' = r /\ inBuf' = NoPacket
    BY <2>3 DEF HostSetup
  <2>5. TaskFollows'
    BY <1>1, <2>2, <2>4 DEF TaskFollows, task, Asks
  <2>6. AddressFollows'
    BY <1>1, <2>2, <2>3, <2>4 DEF AddressFollows, task
  <2>7. ConfigurationFollows'
    BY <1>1, <1>2, <2>1, <2>2, <2>4 DEF ConfigurationFollows, task, device, Asks
  <2> QED BY <1>1, <1>4, <2>5, <2>6, <2>7 DEF Follows
<1> QED BY <1>5, <1>6

\* The host goes on in its plan.
LEMMA NextInPlan ==
  ASSUME Types, HostPlan, stage \in {"in", "status_in", "status_out"}, stage' = "idle", UNCHANGED <<asked>>,
         planned' = IF Enumerating THEN planned + 1 ELSE planned,
         IF Asks("SetAddress") THEN hostAddress' = asked.wValue ELSE UNCHANGED hostAddress
  PROVE  /\ HostPlan'
         /\ Planned("SetConfiguration")' => Planned("SetConfiguration") \/ Asks("SetConfiguration")
         /\ ConfiguredLast' => ConfiguredLast \/ Asks("SetConfiguration")
<1>1. CASE ~Enumerating
  <2>1. asked \in Requests /\ ~Asks("SetAddress") /\ UNCHANGED <<planned, hostAddress>>
    BY <1>1, PlanAssumption DEF HostPlan, Asks
  <2> QED BY <2>1 DEF HostPlan, Asks, Planned, ConfiguredLast
<1>2. CASE Enumerating
  <2>1. planned \in Steps /\ planned' = planned + 1 /\ asked = Plan[planned]
    BY <1>2, PlanAssumption DEF Steps, Places, HostPlan, Enumerating, Types, StdTypeOK
  <2>2. \A i \in Steps : i < planned' <=> i < planned \/ i = planned
    BY <2>1, PlanAssumption DEF Steps
  <2>3. \A r : Planned(r)' <=> Planned(r) \/ Asks(r)
    BY <2>1, <2>2 DEF Planned, Asks, Steps
  <2>4. ConfiguredLast' => ConfiguredLast \/ Asks("SetConfiguration")
    BY <2>1, <2>2 DEF ConfiguredLast, Asks, Steps
  <2>5. Asks("SetAddress") => ~ConfiguredLast' /\ asked.wValue \in Nat /\ asked.wValue # 0
    BY <2>1, <2>4, AddressInPlan DEF HostPlan, Asks
  <2>6. Planned("SetAddress")' => hostAddress' # 0
    BY <2>3, <2>5 DEF HostPlan
  <2>7. HostPlan'
    BY <2>5, <2>6 DEF HostPlan, Asks
  <2> QED BY <2>3, <2>4, <2>7
<1> QED BY <1>1, <1>2

LEMMA InKnows == ASSUME StdInv, KnowsInv, Types, HostIn PROVE KnowsInv'
<1> USE DEF KnowsInv, Detached
<1>1. UNCHANGED <<asked, SETUPReceived, SetupPackage, USB_ControlRequest, pc, stalled, device, stale>>
      /\ nextAddress' = Nowhere /\ inBuf' = NoPacket /\ inBuf.type = Expected /\ Reached
      /\ address' = (IF nextAddress = Nowhere THEN address ELSE nextAddress)
  BY DEF HostIn, setup, device, task
<1>2. ~SETUPReceived /\ pc # "handle"
  BY <1>1 DEF Expected, StdInv, SetupFirst
<1>3. CASE stage = "in"
  <2>1. stage' = "status_out" /\ heard' = inBuf /\ UNCHANGED <<planned, believes, hostAddress>> /\ inBuf.type = "data"
    BY <1>1, <1>3 DEF HostIn, Expected
  <2>2. HostPlan' /\ UNCHANGED <<Planned("SetConfiguration"), ConfiguredLast, Asks("GetConfiguration"),
                                 Asks("SetConfiguration"), Asks("SetAddress")>>
    BY <1>1, <1>3, <2>1 DEF HostPlan, Asks, Planned, ConfiguredLast, Enumerating
  <2>3. ASSUME ~stale PROVE TaskFollows' /\ AddressFollows' /\ ConfigurationFollows'
    <3>1. TaskFollows /\ AddressFollows /\ ConfigurationFollows
      BY <2>3 DEF Follows
    <3>2. pc \notin {"set_address", "addressed", "acknowledge"} /\ nextAddress = Nowhere
      BY <1>3, <3>1 DEF TaskFollows, AddressFollows
    <3>3. TaskFollows' /\ AddressFollows'
      BY <1>1, <1>2, <2>1, <3>2 DEF TaskFollows, AddressFollows
    <3>4. ConfigurationFollows'
      BY <1>1, <1>3, <2>1, <2>2, <3>1, <3>2 DEF ConfigurationFollows, device
    <3> QED BY <3>3, <3>4
  <2> QED BY <1>1, <2>1, <2>2, <2>3 DEF Follows
<1>4. CASE stage # "in"
  <2>1. stage = "status_in" /\ stage' = "idle" /\ believes' = Learned(asked) /\ hostAddress' = believes'.address
        /\ planned' = (IF Enumerating THEN planned + 1 ELSE planned) /\ inBuf.type = "status"
    BY <1>1, <1>4 DEF HostIn, Expected
  <2>2. IF Asks("SetAddress") THEN hostAddress' = asked.wValue ELSE UNCHANGED hostAddress
    <3>1. CASE Asks("SetAddress")
      <4>1. Learned(asked) = [believes EXCEPT !.address = asked.wValue]
        BY <3>1 DEF Learned, Asks
      <4> QED BY <2>1, <3>1, <4>1 DEF StdInv, SetupFirst
    <3> QED BY <2>1, <3>1, LearnedAddress DEF StdInv, Asks
  <2>3. Learned(asked).configuration
          = IF Asks("SetConfiguration") THEN asked.wValue ELSE believes.configuration
    <3>1. CASE Asks("SetConfiguration")
      BY <3>1 DEF Learned, Asks, StdInv, SetupFirst
    <3>2. CASE ~Asks("SetConfiguration")
      BY <3>2 DEF Learned, Asks, StdInv, SetupFirst
    <3> QED BY <3>1, <3>2
  <2>4. /\ HostPlan'
        /\ Planned("SetConfiguration")' => Planned("SetConfiguration") \/ Asks("SetConfiguration")
        /\ ConfiguredLast' => ConfiguredLast \/ Asks("SetConfiguration")
    BY <1>1, <2>1, <2>2, NextInPlan
  <2>5. ASSUME ~stale PROVE TaskFollows' /\ AddressFollows' /\ ConfigurationFollows'
    <3>1. TaskFollows /\ AddressFollows /\ ConfigurationFollows
      BY <2>5 DEF Follows
    <3>2. TaskFollows'
      <4>1. pc # "acknowledge"
        BY <2>1, <3>1 DEF TaskFollows
      <4> QED BY <1>1, <1>2, <2>1, <3>1, <4>1 DEF TaskFollows, Asks
    <3>3. AddressFollows'
      BY <1>1, <1>2, <2>1, <2>2, <3>1 DEF AddressFollows, TaskFollows, HostPlan, Asks
    <3>4. ConfigurationFollows'
      BY <1>1, <1>2, <2>1, <2>3, <2>4, <3>1 DEF ConfigurationFollows, device, Asks
    <3> QED BY <3>2, <3>3, <3>4
  <2> QED BY <1>1, <2>1, <2>4, <2>5 DEF Follows
<1> QED BY <1>3, <1>4

LEMMA StatusOutKnows == ASSUME StdInv, KnowsInv, Types, HostStatusOut PROVE KnowsInv'
<1> USE DEF KnowsInv, Detached
<1>1. stage = "status_out" /\ stage' = "idle" /\ ~Asks("SetAddress") /\ ~Asks("SetConfiguration")
  BY DEF HostStatusOut, HostPlan, Asks, ToHost
<1>2. UNCHANGED <<asked, hostAddress, believes, heard, controller, setup, device, task, stale>>
  BY DEF HostStatusOut
<1>3. /\ HostPlan'
      /\ Planned("SetConfiguration")' => Planned("SetConfiguration")
      /\ ConfiguredLast' => ConfiguredLast
  BY <1>1, <1>2, NextInPlan DEF HostStatusOut
<1>4. ASSUME ~stale PROVE TaskFollows' /\ AddressFollows' /\ ConfigurationFollows'
  <2>1. TaskFollows /\ AddressFollows /\ ConfigurationFollows
    BY <1>4 DEF Follows
  <2>2. TaskFollows'
    BY <1>1, <1>2, <2>1 DEF TaskFollows, setup, task, Asks
  <2>3. AddressFollows'
    BY <1>1, <1>2, <2>1 DEF AddressFollows, TaskFollows, setup, task, controller, Asks
  <2>4. ConfigurationFollows'
    BY <1>1, <1>2, <1>3, <2>1 DEF ConfigurationFollows, setup, task, device, Asks
  <2> QED BY <2>2, <2>3, <2>4
<1> QED BY <1>1, <1>2, <1>3, <1>4 DEF Follows

LEMMA RefusedKnows == ASSUME StdInv, KnowsInv, Types, HostRefused PROVE KnowsInv'
<1> USE DEF KnowsInv, Detached
<1>1. stage # "idle" /\ stage' = "idle" /\ stalled = {0, 1} /\ Reached /\ ~SETUPReceived
  BY DEF HostRefused, Refused, StdInv, SetupFirst
<1>5. stage \in {"in", "status_in", "status_out"}
  BY <1>1 DEF Types, StdTypeOK
<1>2. UNCHANGED <<asked, planned, hostAddress, believes, heard, controller, setup, device, task, stale>>
  BY DEF HostRefused
<1>3. HostPlan' /\ ~Asks("SetAddress")
  BY <1>2, <1>5, PlanAssumption DEF HostRefused, Refused, HostPlan, Enumerating, Asks, Planned, ConfiguredLast, Types, StdTypeOK
<1>4. ASSUME ~stale PROVE TaskFollows' /\ AddressFollows' /\ ConfigurationFollows'
  <2>1. TaskFollows /\ AddressFollows /\ ConfigurationFollows
    BY <1>4 DEF Follows
  <2>2. TaskFollows'
    BY <1>1, <1>2, <1>3, <2>1 DEF TaskFollows, setup, task, controller, Asks
  <2>3. AddressFollows'
    BY <1>1, <1>2, <1>3, <2>1 DEF AddressFollows, TaskFollows, setup, task, controller, Asks
  <2>4. ConfigurationFollows'
    BY <1>1, <1>2, <1>5, <2>1 DEF ConfigurationFollows, Planned, ConfiguredLast, setup, task, device, controller, Asks
  <2> QED BY <2>2, <2>3, <2>4
<1> QED BY <1>1, <1>2, <1>3, <1>4 DEF Follows

LEMMA HostKnows == ASSUME StdInv, Types, KnowsInv, HostStep PROVE KnowsInv'
<1>1. CASE Attach \/ SpuriousReset \/ HostRecovers
  BY <1>1, ResetKnows DEF Attach, SpuriousReset, HostRecovers
<1>2. CASE HostEnumerates \/ HostAsks
  BY <1>2, SetupKnows DEF HostEnumerates, HostAsks
<1> QED BY <1>1, <1>2, InKnows, StatusOutKnows, RefusedKnows DEF HostStep

-----------------------------------------------------------------------------
(* The task. *)

\* A handler that ends with an answer or a stall, and has set neither the
\* configuration nor the address.
LEMMA AnswerKnows ==
  ASSUME StdInv, Types, KnowsInv, pc = "handle", pc' = "poll", ClearSETUP,
         UNCHANGED <<host, address, nextAddress, USB_DeviceState, USB_Device_ConfigurationNumber,
                     USB_ControlRequest, stale>>,
         inBuf'.type = "status" => USB_ControlRequest.bRequest \in {"SetFeature", "ClearFeature"},
         inBuf'.type = "data" /\ USB_ControlRequest.bRequest = "GetConfiguration"
            => inBuf'.value = USB_Device_ConfigurationNumber
  PROVE  KnowsInv'
<1>1. HostPlan' /\ SETUPReceived /\ ~SETUPReceived' /\ stage' = stage /\ asked' = asked
  BY DeviceKeepsPlan DEF KnowsInv, StdInv, SetupFirst, ClearSETUP, host
<1>2. Detached'
  BY <1>1 DEF KnowsInv, Detached, Done
<1>3. UNCHANGED <<Planned("SetConfiguration"), ConfiguredLast>>
  BY DEF Planned, ConfiguredLast, host
<1>4. ASSUME ~stale PROVE TaskFollows' /\ AddressFollows' /\ ConfigurationFollows'
  <2>1. TaskFollows /\ AddressFollows /\ ConfigurationFollows
    BY <1>4 DEF KnowsInv, Follows
  <2>2. USB_ControlRequest = asked /\ Reached /\ stage \in {"in", "status_in"}
    BY <1>1, <2>1 DEF TaskFollows, AddressFollows
  <2>3. TaskFollows'
    BY <1>1 DEF TaskFollows
  <2>4. AddressFollows'
    BY <1>1, <2>1, <2>2 DEF AddressFollows, host, Asks
  <2>5. ConfigurationFollows'
    BY <1>1, <1>3, <2>1, <2>2 DEF ConfigurationFollows, host, Asks
  <2> QED BY <2>3, <2>4, <2>5
<1> QED BY <1>1, <1>2, <1>4 DEF KnowsInv, Follows

LEMMA SetAddressKnows ==
  ASSUME StdInv, Types, KnowsInv, SetAddress \/ SetDeviceAddress \/ BecomeAddressed
  PROVE  KnowsInv'
<1>1. HostPlan'
  BY DeviceKeepsPlan DEF KnowsInv, SetAddress, SetDeviceAddress, BecomeAddressed
<1>2. UNCHANGED host /\ UNCHANGED <<Planned("SetConfiguration"), ConfiguredLast, stale>>
  BY DEF Planned, ConfiguredLast, host, SetAddress, SetDeviceAddress, BecomeAddressed
<1>3. Detached'
  BY <1>2 DEF KnowsInv, Detached, Done, SetAddress, Handling, SetDeviceAddress, BecomeAddressed, host
<1>4. ASSUME ~stale PROVE TaskFollows' /\ AddressFollows' /\ ConfigurationFollows'
  <2>1. TaskFollows /\ AddressFollows /\ ConfigurationFollows
    BY <1>4 DEF KnowsInv, Follows
  <2>2. CASE SetAddress
    <3>1. Asks("SetAddress") /\ USB_ControlRequest = asked /\ Reached /\ SETUPReceived /\ stage = "status_in"
      BY <2>1, <2>2 DEF SetAddress, Handling, TaskFollows, AddressFollows, Asks, KnowsInv, HostPlan, ToHost
    <3>2. nextAddress = Nowhere
      BY <2>1, <3>1 DEF AddressFollows
    <3>3. TaskFollows' /\ AddressFollows'
      BY <2>2, <3>1, <3>2, <1>2 DEF SetAddress, ClearSETUP, TaskFollows, AddressFollows, Asks, host
    <3>4. ConfigurationFollows'
      BY <2>1, <2>2, <3>1, <1>2 DEF SetAddress, ClearSETUP, ConfigurationFollows, Asks, host, device, KnowsInv, HostPlan
    <3> QED BY <3>3, <3>4
  <2>3. CASE SetDeviceAddress
    <3>1. Asks("SetAddress") /\ USB_ControlRequest = asked /\ stage \in {"idle", "status_in"} /\ asked.wValue \in Nat
      BY <2>1, <2>3 DEF SetDeviceAddress, TaskFollows, KnowsInv, HostPlan
    <3>2. TaskFollows' /\ AddressFollows'
      BY <2>1, <2>3, <3>1, <1>2 DEF SetDeviceAddress, TaskFollows, AddressFollows, Asks, host, setup
    <3>3. ConfigurationFollows'
      BY <2>1, <2>3, <3>1, <1>2 DEF SetDeviceAddress, ConfigurationFollows, Asks, host, setup, device, KnowsInv, HostPlan
    <3> QED BY <3>2, <3>3
  <2>4. CASE BecomeAddressed
    <3>1. Asks("SetAddress") /\ USB_ControlRequest = asked /\ stage \in {"idle", "status_in"} /\ ~ConfiguredLast
      BY <2>1, <2>4 DEF BecomeAddressed, TaskFollows, KnowsInv, HostPlan
    <3>2. TaskFollows' /\ AddressFollows'
      BY <2>1, <2>4, <3>1, <1>2 DEF BecomeAddressed, TaskFollows, AddressFollows, Asks, host, setup, controller
    <3>3. ConfigurationFollows'
      BY <2>1, <2>4, <3>1, <1>2 DEF BecomeAddressed, ConfigurationFollows, Asks, host, setup, controller
    <3> QED BY <3>2, <3>3
  <2> QED BY <2>2, <2>3, <2>4
<1> QED BY <1>1, <1>2, <1>3, <1>4 DEF KnowsInv, Follows

LEMMA SetConfigurationKnows ==
  ASSUME StdInv, Types, KnowsInv, SetConfiguration \/ Acknowledge \/ BecomeConfigured
  PROVE  KnowsInv'
<1>1. HostPlan'
  BY DeviceKeepsPlan DEF KnowsInv, SetConfiguration, Acknowledge, BecomeConfigured
<1>2. UNCHANGED host /\ UNCHANGED <<Planned("SetConfiguration"), ConfiguredLast, stale>>
  BY DEF Planned, ConfiguredLast, host, SetConfiguration, Acknowledge, BecomeConfigured
<1>3. Detached'
  BY <1>2 DEF KnowsInv, Detached, Done, SetConfiguration, Handling, Acknowledge, BecomeConfigured, host
<1>4. ASSUME ~stale PROVE TaskFollows' /\ AddressFollows' /\ ConfigurationFollows'
  <2>1. TaskFollows /\ AddressFollows /\ ConfigurationFollows
    BY <1>4 DEF KnowsInv, Follows
  <2>2. CASE SetConfiguration
    <3>1. Asks("SetConfiguration") /\ USB_ControlRequest = asked /\ Reached /\ SETUPReceived /\ stage = "status_in"
          /\ inBuf = NoPacket /\ stalled = {}
      BY <2>1, <2>2 DEF SetConfiguration, Handling, TaskFollows, AddressFollows, Asks, KnowsInv, HostPlan, ToHost,
                        StdInv, SetupFirst
    <3>2. TaskFollows' /\ AddressFollows'
      BY <2>1, <2>2, <3>1, <1>2 DEF SetConfiguration, ClearSETUP, TaskFollows, AddressFollows, Asks, host, controller
    <3>3. ConfigurationFollows'
      <4>1. ConfiguredLast => USB_DeviceState = "Configured"
        BY <2>1, <2>2 DEF SetConfiguration, Handling, ConfigurationFollows
      <4> QED
        BY <2>2, <3>1, <4>1, <1>2 DEF SetConfiguration, ClearSETUP, ConfigurationFollows, Asks, host, controller
    <3> QED BY <3>2, <3>3
  <2>3. CASE Acknowledge
    <3>1. Asks("SetConfiguration") /\ USB_ControlRequest = asked /\ stage = "status_in" /\ Reached
          /\ USB_Device_ConfigurationNumber = asked.wValue
      BY <2>1, <2>3 DEF Acknowledge, TaskFollows, AddressFollows, Asks
    <3>2. TaskFollows' /\ AddressFollows'
      BY <2>1, <2>3, <3>1, <1>2 DEF Acknowledge, TaskFollows, AddressFollows, Asks, host, setup
    <3>3. ConfigurationFollows'
      BY <2>1, <2>3, <3>1, <1>2 DEF Acknowledge, ConfigurationFollows, Asks, host, setup, device
    <3> QED BY <3>2, <3>3
  <2>4. CASE BecomeConfigured
    <3>1. TaskFollows' /\ AddressFollows'
      BY <2>1, <2>4, <1>2 DEF BecomeConfigured, TaskFollows, AddressFollows, Asks, host, setup, controller
    <3>2. ConfigurationFollows'
      BY <2>1, <2>4, <1>2 DEF BecomeConfigured, ConfigurationFollows, Asks, host, setup, controller
    <3> QED BY <3>1, <3>2
  <2> QED BY <2>2, <2>3, <2>4
<1> QED BY <1>1, <1>2, <1>3, <1>4 DEF KnowsInv, Follows

LEMMA TaskKnows == ASSUME StdInv, Types, KnowsInv, TaskStep PROVE KnowsInv'
<1>1. CASE TakeSetup
  <2>1. UNCHANGED <<host, controller, setup, device, stale>> /\ pc = "poll" /\ pc' = "handle" /\ SETUPReceived
        /\ USB_ControlRequest' = SetupPackage
    BY <1>1 DEF TakeSetup
  <2>2. HostPlan' /\ Detached'
    BY <2>1, DeviceKeepsPlan DEF KnowsInv, Detached, Done, host
  <2>3. UNCHANGED <<Planned("SetConfiguration"), ConfiguredLast>>
    BY <2>1 DEF Planned, ConfiguredLast, host
  <2>4. ASSUME ~stale PROVE TaskFollows' /\ AddressFollows' /\ ConfigurationFollows'
    <3>1. TaskFollows /\ AddressFollows /\ ConfigurationFollows
      BY <2>4 DEF KnowsInv, Follows
    <3>2. TaskFollows' /\ AddressFollows'
      BY <2>1, <3>1 DEF TaskFollows, AddressFollows, Asks, host, controller, setup
    <3>3. ConfigurationFollows'
      BY <2>1, <2>3, <3>1 DEF ConfigurationFollows, Asks, host, controller, setup, device
    <3> QED BY <3>2, <3>3
  <2> QED BY <2>1, <2>2, <2>4 DEF KnowsInv, Follows
<1>2. CASE GetStatus \/ GetDescriptor
  <2>1. PICK v : Answer(v) /\ USB_ControlRequest.bRequest \in {"GetStatus", "GetDescriptor"} /\ pc = "handle"
    BY <1>2 DEF GetStatus, GetDescriptor, Handling
  <2>2. inBuf'.type = "data"
    BY <2>1 DEF Answer
  <2> QED BY <2>1, <2>2, AnswerKnows DEF Answer, device
<1>3. CASE GetConfiguration
  <2>1. pc = "handle" /\ Answer(USB_Device_ConfigurationNumber)
    BY <1>3 DEF GetConfiguration, Handling
  <2>2. inBuf'.type = "data" /\ inBuf'.value = USB_Device_ConfigurationNumber
    BY <2>1 DEF Answer
  <2> QED BY <2>1, <2>2, AnswerKnows DEF Answer, device
<1>4. CASE ClearSetFeature
  <2>1. pc = "handle" /\ USB_ControlRequest.bRequest \in {"SetFeature", "ClearFeature"} /\ inBuf'.type = "status"
    BY <1>4 DEF ClearSetFeature, Handling
  <2> QED BY <1>4, <2>1, AnswerKnows DEF ClearSetFeature
<1>5. CASE Unhandled
  <2>1. inBuf'.type = "none" /\ pc = "handle"
    BY <1>5 DEF Unhandled, Stall, StdInv, SetupFirst
  <2> QED BY <1>5, <2>1, AnswerKnows DEF Unhandled, Stall, device
<1> QED BY <1>1, <1>2, <1>3, <1>4, <1>5, SetAddressKnows, SetConfigurationKnows DEF TaskStep

LEMMA StdKnows == StdSpec => [](Types /\ KnowsInv)
<1>1. KnowsInv /\ UNCHANGED stdVars => KnowsInv'
  BY DEF KnowsInv, Detached, Done, HostPlan, Follows, TaskFollows, AddressFollows, ConfigurationFollows, Asks, Planned,
         ConfiguredLast, Enumerating, stdVars, host, controller, setup, device, task
<1>2. Types /\ StdInv /\ KnowsInv /\ [StdNext]_stdVars => KnowsInv'
  BY <1>1, HostKnows, TaskKnows DEF StdNext
<1> QED BY <1>2, KnowsStart, TypesKept, StdInvariant, PTL DEF StdSpec

\* What has been planned, once the whole plan is done.
LEMMA PlanDone ==
  ASSUME Types, HostPlan, ~Enumerating
  PROVE  Planned("SetConfiguration") /\ ConfiguredLast /\ hostAddress # 0
<1>1. \A i \in 1 .. Len(Plan) : i < planned
  BY PlanAssumption DEF Types, StdTypeOK, Places, Enumerating
<1> QED BY <1>1, PlanAssumption DEF HostPlan, Planned, ConfiguredLast

(***************************************************************************)
(* The wakeup setting the host knows of is the device's, but for a request *)
(* to change it that is being acknowledged.                                *)
(***************************************************************************)
AsksWakeup == (Asks("SetFeature") \/ Asks("ClearFeature")) /\ asked.recipient = "device"

WakeupFollows ==
    /\ AsksWakeup /\ stage = "status_in" /\ inBuf.type = "status" =>
          USB_Device_RemoteWakeupEnabled = Asks("SetFeature")
    /\ \/ believes.wakeup \subseteq {USB_Device_RemoteWakeupEnabled}
       \/ AsksWakeup /\ stage = "status_in" /\ ~SETUPReceived /\ stalled = {}

WakeupInv == ~stale => WakeupFollows

LEMMA HostWakeup == ASSUME StdInv, Types, KnowsInv, WakeupInv, HostStep PROVE WakeupInv'
<1>1. CASE Attach \/ SpuriousReset \/ HostRecovers
  BY <1>1 DEF Attach, SpuriousReset, HostRecovers, BusReset, WakeupInv, WakeupFollows, AsksWakeup, Asks, Unknown
<1>2. ASSUME NEW r, HostSetup(r), ~stale PROVE WakeupFollows'
  <2>1. stage = "idle" /\ Reached /\ asked' = r /\ UNCHANGED <<believes, device>>
    <3>1. stage = "idle" /\ (Asks("SetAddress") => pc = "poll")
      BY <1>2 DEF HostSetup, Asks
    <3> QED BY <1>2, <3>1 DEF HostSetup, KnowsInv, Follows, AddressFollows
  <2>2. inBuf' = NoPacket /\ believes.wakeup \subseteq {USB_Device_RemoteWakeupEnabled}
    BY <1>2, <2>1 DEF HostSetup, WakeupInv, WakeupFollows
  <2> QED BY <2>1, <2>2 DEF WakeupFollows, NoPacket, device
<1>3. ASSUME HostIn, ~stale PROVE WakeupFollows'
  <2>1. ~SETUPReceived /\ UNCHANGED <<asked, SETUPReceived, device, stalled>> /\ inBuf' = NoPacket /\ inBuf.type = Expected
    BY <1>3 DEF HostIn, Expected, setup, device, StdInv, SetupFirst
  <2>2. CASE stage = "in"
    BY <1>3, <2>1, <2>2 DEF HostIn, WakeupInv, WakeupFollows, AsksWakeup, Asks, NoPacket, device
  <2>3. CASE stage = "status_in"
    <3>1. believes' = Learned(asked) /\ inBuf.type = "status"
      BY <1>3, <2>1, <2>3 DEF HostIn, Expected
    <3>2. CASE AsksWakeup
      <4>1. Learned(asked).wakeup = {Asks("SetFeature")}
        BY <3>2 DEF AsksWakeup, Asks, Learned, StdInv, SetupFirst
      <4> QED BY <1>3, <2>1, <2>3, <3>1, <3>2, <4>1 DEF WakeupInv, WakeupFollows, device, NoPacket
    <3>3. CASE ~AsksWakeup
      <4>1. Learned(asked).wakeup = believes.wakeup
        BY <3>3 DEF AsksWakeup, Asks, Learned, StdInv, SetupFirst
      <4> QED BY <1>3, <2>1, <3>1, <3>3, <4>1 DEF WakeupInv, WakeupFollows, device, NoPacket
    <3> QED BY <3>2, <3>3
  <2> QED BY <1>3, <2>2, <2>3 DEF HostIn
<1>4. ASSUME HostStatusOut \/ HostRefused, ~stale PROVE WakeupFollows'
  BY <1>4 DEF HostStatusOut, HostRefused, Refused, WakeupInv, WakeupFollows, AsksWakeup, Asks, setup, device, controller
<1>5. ASSUME HostEnumerates \/ HostAsks, ~stale PROVE WakeupFollows'
  BY <1>2, <1>5 DEF HostEnumerates, HostAsks
<1>6. CASE HostEnumerates \/ HostAsks \/ HostIn \/ HostStatusOut \/ HostRefused
  <2>1. stale' = stale
    BY <1>6 DEF HostEnumerates, HostAsks, HostSetup, HostIn, HostStatusOut, HostRefused
  <2> QED BY <1>3, <1>4, <1>5, <1>6, <2>1 DEF WakeupInv
<1> QED BY <1>1, <1>6 DEF HostStep

LEMMA TaskWakeup == ASSUME StdInv, Types, KnowsInv, WakeupInv, TaskStep PROVE WakeupInv'
<1>1. UNCHANGED <<host, stale>>
  BY DEF TaskStep, TakeSetup, GetStatus, GetConfiguration, GetDescriptor, Answer, ClearSetFeature, SetAddress,
     SetDeviceAddress, BecomeAddressed, SetConfiguration, Acknowledge, BecomeConfigured, Unhandled, Stall
<1> SUFFICES ASSUME ~stale PROVE WakeupFollows'
  BY <1>1 DEF WakeupInv
<1> USE DEF WakeupFollows, AsksWakeup, Asks, host
<1>2. WakeupFollows /\ TaskFollows
  BY DEF WakeupInv, KnowsInv, Follows
<1>3. pc = "handle" => SETUPReceived /\ stalled = {} /\ inBuf = NoPacket /\ USB_ControlRequest = asked
  BY <1>2 DEF StdInv, SetupFirst, TaskFollows
<1>4. CASE TakeSetup \/ SetDeviceAddress \/ BecomeAddressed \/ BecomeConfigured
  BY <1>1, <1>2, <1>4 DEF TakeSetup, SetDeviceAddress, BecomeAddressed, BecomeConfigured, controller, setup, device
<1>5. CASE GetStatus \/ GetConfiguration \/ GetDescriptor
  <2>1. PICK v : Answer(v) /\ pc = "handle"
    BY <1>5 DEF GetStatus, GetConfiguration, GetDescriptor, Handling
  <2> QED BY <1>1, <1>2, <1>3, <2>1 DEF Answer, Data, device
<1>6. CASE ClearSetFeature
  <2>1. stage = "status_in"
    BY <1>2, <1>3, <1>6 DEF TaskFollows, KnowsInv, HostPlan, ToHost, ClearSetFeature, Handling
  <2>2. SETUPReceived /\ ~SETUPReceived' /\ (asked.recipient = "device" => stalled' = {}
          /\ USB_Device_RemoteWakeupEnabled' = Asks("SetFeature"))
    BY <1>3, <1>6 DEF ClearSetFeature, Handling, ClearSETUP
  <2>3. asked.recipient # "device" => UNCHANGED USB_Device_RemoteWakeupEnabled
    BY <1>3, <1>6 DEF ClearSetFeature, Handling
  <2>4. AsksWakeup <=> asked.recipient = "device"
    BY <1>3, <1>6 DEF ClearSetFeature, Handling
  <2> QED BY <1>1, <1>2, <2>1, <2>2, <2>3, <2>4
<1>7. CASE Unhandled
  BY <1>1, <1>2, <1>3, <1>7 DEF Unhandled, Stall, ClearSETUP, NoPacket, device
<1>8. CASE SetAddress \/ SetConfiguration
  <2>1. ~AsksWakeup /\ SETUPReceived
    BY <1>3, <1>8 DEF SetAddress, SetConfiguration, Handling
  <2> QED BY <1>1, <1>2, <1>8, <2>1 DEF SetAddress, SetConfiguration, device
<1>9. CASE Acknowledge
  <2>1. ~AsksWakeup
    BY <1>2, <1>9 DEF Acknowledge, TaskFollows
  <2> QED BY <1>1, <1>2, <1>9, <2>1 DEF Acknowledge, setup, device
<1> QED BY <1>4, <1>5, <1>6, <1>7, <1>8, <1>9 DEF TaskStep

LEMMA StdWakeup == StdSpec => []WakeupInv
<1>1. StdInit => WakeupInv
  BY DEF StdInit, WakeupInv, WakeupFollows, Unknown, NoPacket
<1>2. WakeupInv /\ UNCHANGED stdVars => WakeupInv'
  BY DEF WakeupInv, WakeupFollows, AsksWakeup, Asks, stdVars, host, controller, setup, device, task
<1>3. Types /\ StdInv /\ KnowsInv /\ WakeupInv /\ [StdNext]_stdVars => WakeupInv'
  BY <1>2, HostWakeup, TaskWakeup DEF StdNext
<1> QED BY <1>1, <1>3, StdKnows, StdInvariant, PTL DEF StdSpec

(***************************************************************************)
(* Once the host has carried out its plan, and unless a bus reset fell     *)
(* upon a request, the device is where the host believes it, in the        *)
(* configuration the host set last, Configured if that is not number 0,    *)
(* and with the wakeup setting the host set last, if it has set one since  *)
(* the bus reset (DeviceStandardReq.c, and what DcdIrqHandler resets).     *)
(***************************************************************************)
THEOREM StdHostKnowsDevice == StdSpec => []HostKnowsDevice
<1>1. Types /\ KnowsInv /\ WakeupInv => HostKnowsDevice
  <2> SUFFICES ASSUME Types, KnowsInv, WakeupInv, Done, ~stale, ~Enumerating, stage = "idle"
               PROVE  /\ address = hostAddress /\ believes.configuration = USB_Device_ConfigurationNumber
                      /\ USB_DeviceState = "Configured"
                      /\ believes.wakeup \subseteq {USB_Device_RemoteWakeupEnabled}
    BY DEF HostKnowsDevice
  <2>4. believes.wakeup \subseteq {USB_Device_RemoteWakeupEnabled}
    BY DEF WakeupInv, WakeupFollows
  <2>1. TaskFollows /\ AddressFollows /\ ConfigurationFollows
    BY DEF KnowsInv, Follows
  <2>2. address = hostAddress
    BY <2>1 DEF AddressFollows, Done
  <2>3. Planned("SetConfiguration") /\ ConfiguredLast /\ hostAddress # 0
    BY PlanDone DEF KnowsInv
  <2> QED BY <2>1, <2>2, <2>3, <2>4 DEF ConfigurationFollows, Done
<1> QED BY <1>1, StdKnows, StdWakeup, PTL

(***************************************************************************)
(* An answer to GET_CONFIGURATION names the configuration the host set     *)
(* (USB_Device_GetConfiguration).                                          *)
(***************************************************************************)
THEOREM StdAnswerAgrees == StdSpec => []AnswerAgrees
<1>1. Types /\ KnowsInv => AnswerAgrees
  <2> SUFFICES ASSUME Types, KnowsInv, stage = "status_out", Asks("GetConfiguration"), ~stale, ~Enumerating
               PROVE  heard.value = believes.configuration
    BY DEF AnswerAgrees, Asks
  <2>1. ConfigurationFollows /\ Planned("SetConfiguration")
    BY PlanDone DEF KnowsInv, Follows
  <2> QED BY <2>1 DEF ConfigurationFollows, Asks
<1> QED BY <1>1, StdKnows, PTL
=============================================================================
