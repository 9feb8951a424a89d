\* Threads whose locales have different charsets.
SPECIFICATION ThreadsSpec
CONSTANTS
  Components = {"FindMsg"}
  t1 = t1  t2 = t2  t3 = t3  t4 = t4  de = de  de_AT = de_AT  utf8 = utf8  latin1 = latin1
  a = a  b = b  c = c  d = d  v = v  w = w
  Threads = {t1, t2}
  Files <- MCFiles
  Catalogs <- MCFiles
  Encodings = {utf8, latin1}
  Successors <- MCSuccessors
  Translating = {de}
  Uselocale = TRUE
  Null = Null  NoMemory = NoMemory
  RwThreads = {t1, t2, t3, t4}
  NoThread = NoThread
  OnceThreads = {t1, t2, t3}
  OnceFlavors = {"win32"}
  NoHolder = NoHolder
  LogThreads = {t1, t2}
  LogNames = {a, b}
  LogCalls = 2
  Pieces = 2
  NoName = NoName
  AliasThreads = {t1, t2}
  AliasNames = {a, b, c, d}
  AliasValues = {v, w}
  AliasFiles <- MCAliasFiles
  MapStep = 1
  PoolStep = 2
  AliasCalls = 2
  NoAlias = NoAlias
  FilterInputs <- MCJobs
  PipeSize = 2
INVARIANT PointersValid
CHECK_DEADLOCK FALSE
