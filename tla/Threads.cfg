\* Two threads that look for messages, four at a lock, three at a once object; a
\* filter behind pipes of two bytes.
SPECIFICATION ThreadsSpec
CONSTANTS
  Components = {"FindMsg", "GlRwLock", "GlOnce", "Log", "LocaleAlias", "Filter"}
  t1 = t1  t2 = t2  t3 = t3  t4 = t4  de = de  de_AT = de_AT  utf8 = utf8  latin1 = latin1
  a = a  b = b  c = c  d = d  v = v  w = w
  Threads = {t1, t2}
  Files <- MCFiles
  Catalogs <- MCFiles
  Encodings = {utf8, latin1}
  Successors <- MCSuccessors
  Translating = {de}
  Uselocale = FALSE
  Null = Null  NoMemory = NoMemory
  RwThreads = {t1, t2, t3, t4}
  NoThread = NoThread
  OnceThreads = {t1, t2, t3}
  OnceFlavors = {"win32", "solaris"}
  NoHolder = NoHolder
  LogThreads = {t1, t2}
  LogNames = {a, b}
  LogCalls = 2
  Pieces = 2
  NoName = NoName
  AliasThreads = {t1, t2}
  AliasNames = {a, b, c, d}
  AliasValues = {v, w}
  AliasFiles <- MCAliasFiles
  MapStep = 1
  PoolStep = 2
  AliasCalls = 2
  NoAlias = NoAlias
  FilterInputs <- MCJobs
  PipeSize = 2
INVARIANTS
  CatalogComplete PointersValid
  NoLostWakeup OnceSound ExpandSound ResultsComplete
PROPERTIES
  LoadedOnce StringsStay LookupsReturn
  ImplementsRwLock WriterEnters FilterEnds
CHECK_DEADLOCK FALSE
