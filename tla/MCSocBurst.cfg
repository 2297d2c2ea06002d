SPECIFICATION Spec
CONSTANTS
  Units = {"mdio"}
  UartBytes = {1, 2}
  TxLogCapacity = 1
  MaxIn = 2
  MaxOut = 2
  FlashSize = 2
  SectorSize = 1
  BlockSize = 2
  CellBits = {0}
  PpTicks = 1
  SeTicks = 1
  BeTicks = 1
  CeTicks = 1
  SpiBusyTicks = 1
  NoAddr = NoAddr
  FileLengths = {2}
  MaxFlashOps = 2
  PageSize = 4
  WordBytes = 2
  DdmBytes = {2, 3}
  MaxVersion = 1
  SubAddrs = {3}
  Counts = {0, 3}
  LaneRegs = {0, 256}
  LanePages = {0, 1}
  Halves = {0}
  BusWords = {0}
  CalReads = 2
  BusTicks = 1
  LaneCount = 3
  LockDelay = 2
  MdioRegs = {"serdes_mdio"}
  MaxBursts = 2
  MaxToggles = 1
  Llids = {2, 4}
  FreeLlid = 6
  Queues = {0, 1}
  MaxArrivals = 1
  Addrs = {1}
  Bits = {0}
  EventMenu <- MCEvents
  WatchMenu <- MCWatches
  SpecMenu <- MCSpecs
  MaxEvents = 2
  MaxAccesses = 3
  MaxTicks = 1
  MaxOps = 2
  ByteBase = 2
  FilterIndices = {0, 1}
  FilterData = {0, 1}
  BankCount = 2
  SelectWords = {0, 1, 3}
  PowerOnSelect = 1
  Targets <- MCTargets
  TimerLimit = 5
  Prescalers = {0, 1, 2}
  AlarmOpcodes = {1, 2, 3}
  ForcedOpcodeCapacity = 2
  LueBits = 3
  MaxRuleEntries = 4
  LueEntries = 8
  Plans <- MCPlans
  Frames <- MCFrames
  TagTypes = {1}
  ControlTypes = {2}
  MaxPortOps = 9
  MpcpSamples <- MCMpcp
  OamSamples <- MCOam
  RequestSamples <- MCRequests
  ResponseSamples <- MCResponses
  Cuts <- MCCuts
  Announced <- MCAnnounced
  MaxWords = 512
  IcSets = 4
  ColdLines = 2
  FetchLatency = 2
  MmioLatency = 3
  SramLatency = 1
  Runaheads = {1, 2, 8}
  DeadlockWindow = 12
  CapSlack = 8
  TargetIters = 2
  NoLine = 9
  Ports = {"oam", "mpcp"}
  UpWords = 2
  TemplateLengths = {19, 20}
  MinMpcpdu = 20
  UpDepth = 2
  Crossing = 2
  RiseTicks = 1
  GrantsPerTick = {0, 1, 2}
  MaxSubmissions = 2
  MaxTriggers = 1
  MaxUpTicks = 4
  MaxBreaks = 1
  Callers = {c1, c2}
  NoCaller = NoCaller
  MaxCalls = 3
  Offers <- MCOffers
  UnmappedException = TRUE
PROPERTY BurstOnPulse
CHECK_DEADLOCK FALSE
