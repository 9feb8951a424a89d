\* LANGUAGE=fr:de, two threads, two directories, one without catalogs: every call
\* returns, and the cache implements the service.
SPECIFICATION HFairSpec
CONSTANTS
  t1 = t1  t2 = t2
  messages = messages  prog = prog  usr = usr  opt = opt  utf8 = utf8
  C = C  de = de  de_DE = de_DE  fr = fr  m1 = m1
  Threads <- MCThreads2
  Domains = {messages}
  DefaultDomain = messages
  Dirs = {usr, opt}
  DefaultDir = usr
  RelativeDirs = {}
  Codesets = {}
  Locales = {C, de, fr}
  CLocale = C
  CatalogNames <- MCCatalogNames
  PathLocales = {}
  Secure = FALSE
  Languages <- MCLanguages
  ThreadNames = TRUE
  Msgids = {m1}
  Tried <- MCTried
  Installed <- MCInstalledOpt
  Failing <- MCFailingFr
  MaxCntr = 1
  Null = Null
PROPERTIES CallsReturn 
