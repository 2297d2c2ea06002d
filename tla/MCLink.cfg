SPECIFICATION LinkSpec
CONSTANTS
  EvaluatingPdus = 2
  Onu = {o1}
  NoOnu = NoOnu
  Llid = {2}
  NoLlid = NoLlid
  GateInterval = 5
  NormalGateInterval = 5
  OamInterval = 4
  AttributeInterval = 7
  RegistrationLifetime = 12
  RediscoveryDelay = 3
  ProcessingDelay = 1
  IgnoredRegisterRequests = 1
  HeardFlags = {}
  MaxRequests = 99
  Crossing = 1
  LineDepth = 6
  Steps = {1, 2}
  RequestDelay = 2
  KeepaliveInterval = 6
  Horizon = 50
  MaxBreaks = 1
INVARIANTS EndsAgree LifeIsLifetimePlusExchange LinkKeepsUp
CHECK_DEADLOCK FALSE
