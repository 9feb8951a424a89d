\* A program with one thread, in the installed library.
SPECIFICATION EnvSpec
CONSTANTS
  t1 = t1
  messages = messages  usr = usr
  C = C  de = de  de_DE = de_DE  fr = fr  path = path  m1 = m1
  Threads <- MCThreads1
  Domains = {messages}
  DefaultDomain = messages
  Dirs = {usr}
  DefaultDir = usr
  RelativeDirs = {}
  Codesets = {}
  Locales = {C, de, fr, path}
  CLocale = C
  CatalogNames <- MCCatalogNames
  PathLocales = {path}
  Uselocale = FALSE
  Secure = TRUE
  Languages <- MCPathLanguages
  ThreadNames = FALSE
  Msgids = {m1}
  Tried <- MCTried
  Installed <- MCInstalled
  Failing <- MCFailing
  MaxCntr = 3
  Null = Null
INVARIANTS AnswerCurrent ChangeKnown
