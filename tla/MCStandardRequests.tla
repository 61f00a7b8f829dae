------------------------- MODULE MCStandardRequests -------------------------
(* An enumeration as hosts do it, and one request of each kind afterwards. *)
EXTENDS StandardRequests

Enumeration ==
    << Request("GetDescriptor", "device", "Device"),
       Request("SetAddress", "device", 1),
       Request("GetDescriptor", "device", "Configuration"),
       Request("SetConfiguration", "device", 1) >>

AnyRequest ==
    { Request("GetDescriptor", "device", "Layout"), Request("GetDescriptor", "device", "Qualifier"),
      Request("GetConfiguration", "device", 0), Request("GetStatus", "device", 0),
      Request("GetStatus", "endpoint", 0), Request("GetStatus", "interface", 0),
      Request("SetFeature", "device", "RemoteWakeup"), Request("ClearFeature", "device", "RemoteWakeup"),
      Request("SetFeature", "device", "TestMode"), Request("SetFeature", "endpoint", "Halt"),
      Request("ClearFeature", "endpoint", "Halt"), Request("SetFeature", "endpoint", "HaltControl"),
      Request("SetFeature", "endpoint", "Other"), Request("SetFeature", "interface", "Other"),
      Request("SetConfiguration", "device", 0), Request("SetConfiguration", "device", 1),
      Request("SetConfiguration", "device", 2), Request("Other", "interface", 0) }
=============================================================================
