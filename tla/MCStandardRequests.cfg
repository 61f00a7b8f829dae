CONSTANTS
    Plan <- Enumeration
    Requests <- AnyRequest
    MaxResets = 2
SPECIFICATION FairStd
INVARIANTS StdInv StdTypeOK NoSilentRequest HostKnowsDevice AnswerAgrees
PROPERTIES EnumerationEnds
