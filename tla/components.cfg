\* Two processes or threads, three slots of the shared list; c1 to c4 are
\* nodes, descriptors and states, a and b names, signals and events, f1 and f2
\* two of a kind.
SPECIFICATION PartsSpec
CONSTANTS
  Procs = {p1, p2}
  Values = {a, b}
  object_max_num_ = 3
  top = top
  nil = nil
  zero = zero
  Pair = {f1, f2}
  EventMax = 2
  EventsSent = 4
  PosixNum = 2
  PosixSems = 2
  PosixValue = 1
  SysVNum = 1
  SysVSets = 2
  SysVValue = 2
  SegSizes = {1, 2}
  PosixSegs = 3
  SysVSegs = 3
  SigNums = {1, 2, 9}
  SigsFixed = {9}
  SigHandlers = {a}
  MaskSigs = {a, b}
  Unmasked = {b}
  MaskCalls = 3
  MtonKeys = {a}
  MtonInstances = {c1, c2, c3}
  FsmEvents = {a}
  FsmStates = {c1, c2}
  FsmExits = {c1, c2}
  FsmUpdates = {c2}
  FsmDepth = 2
  SockServers = {c1}
  SockClients = {c2}
  SockOthers = {c3}
  FdMax = 2
  SelectOpened = 2
  EpollFds = {c1, c2}
  EpollCloned = {c1}
  EpollItems = 1
  MultiGroups = {c3}
  MultiIfaces = {c1, c2}
  MultiDefault = c1
  NoAddrIfaces = {c2}
  MultiMembers = 2
  XferItems = 2
  XferRoom = 2
  XferLen = 2
  XferLost = 1
  LinkCells = {c1, c2, c3}
  TreeCells = {c1, c2, c3, c4}
  TreeNames = {a}
  HashKeys = {1, 2, 3}
  HashCode <- CodeOf
  HashSize = 2
  HashValues = {a, b, zero}
  HashZeros = 3
  HashOutside = 1
  TrieWords <- WordsTried
  TrieValues = {a, b}
  TrieLength = 2
  TrieCount = 4
  PageBits = 2
  MaxBits = 5
  CounterWidth = 4
  RoleEnd = 3
  JsonNew = {"INT", "STRING"}
  JsonMax = 1
  IniSections = {c1, c2}
  IniNames = {a}
  IniTexts = {a, b}
  IniTabs = 1
  IniBlocks = 3
  TvlBytes = {a}
  TvlElements = 2
  CronRules <- RulesTried
  CronStarts <- DatesTried
  CronYear = 2024
  TimeNano = 4
  TimeLongs <- LongsTried
  TimeExact = 8
SYMMETRY Symmetry
INVARIANTS
  PartsTypeOK SharedListSound LinksSound TablesSound DocumentsSound SignalsKnown
  DescriptorsKnown UnitsExact SegmentsKnown ModelsSound TimesSound
PROPERTIES ImplementsSeqList
CHECK_DEADLOCK FALSE
