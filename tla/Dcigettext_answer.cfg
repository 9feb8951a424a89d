\* A stale answer while another thread updates the entry.
SPECIFICATION Spec
CONSTANTS
  t1 = t1  t2 = t2
  messages = messages  prog = prog  usr = usr  opt = opt  utf8 = utf8
  C = C  de = de  de_DE = de_DE  fr = fr  m1 = m1
  Threads <- MCThreads2
  Domains = {messages}
  DefaultDomain = messages
  Dirs = {usr, opt}
  DefaultDir = usr
  RelativeDirs = {}
  Codesets = {}
  Locales = {C, de}
  CLocale = C
  CatalogNames <- MCCatalogNames
  PathLocales = {}
  Secure = FALSE
  Languages <- MCUnset
  ThreadNames = TRUE
  Msgids = {m1}
  Tried <- MCTried
  Installed <- MCInstalled
  Failing <- MCNone
  MaxCntr = 2
  Null = Null
SYMMETRY MCSymmetry2
INVARIANTS AnswerCurrent
