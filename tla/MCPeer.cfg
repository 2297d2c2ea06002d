SPECIFICATION FairSpec
CONSTANTS
    EvaluatingPdus = 1
    Onu = {onu}
    NoOnu = NoOnu
    Llid = {llid}
    NoLlid = NoLlid
    GateInterval = 2
    NormalGateInterval = 2
    OamInterval = 2
    AttributeInterval = 2
    RegistrationLifetime = 3
    RediscoveryDelay = 2
    ProcessingDelay = 1
    IgnoredRegisterRequests = 1
    HeardFlags <- MCHeardFlags
    MaxRequests = 4
INVARIANTS
    Scheduled
    Accounted
PROPERTIES
    AdvanceTerminates
    HandshakeMovesOn
