\* A filter that answers an empty string.
SPECIFICATION ThreadsSpec
CONSTANTS
  Components = {"Filter"}
  t1 = t1  t2 = t2  t3 = t3  t4 = t4  de = de  de_AT = de_AT  utf8 = utf8  latin1 = latin1
  a = a  b = b  c = c  d = d  v = v  w = w
  Threads = {t1, t2}
  Files <- MCFiles
  Catalogs <- MCFiles
  Encodings = {utf8, latin1}
  Successors <- MCSuccessors
  Translating = {de}
  Uselocale = FALSE
  Null = Null  NoMemory = NoMemory
  RwThreads = {t1, t2, t3, t4}
  NoThread = NoThread
  OnceThreads = {t1, t2, t3}
  OnceFlavors = {"win32"}
  NoHolder = NoHolder
  LogThreads = {t1, t2}
  LogNames = {a, b}
  LogCalls = 2
  Pieces = 2
  NoName = NoName
  AliasThreads = {t1, t2}
  AliasNames = {a, b, c, d}
  AliasValues = {v, w}
  AliasFiles <- MCAliasFiles
  MapStep = 1
  PoolStep = 2
  AliasCalls = 2
  NoAlias = NoAlias
  FilterInputs <- EmptyStringJobs
  PipeSize = 2
INVARIANT ResultsComplete
CHECK_DEADLOCK FALSE
