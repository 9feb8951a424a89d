\* Two threads, two domains (so that default domains are copied and freed), two
\* directories, a codeset.
SPECIFICATION Spec
CONSTANTS
  t1 = t1  t2 = t2
  messages = messages  prog = prog  usr = usr  opt = opt  utf8 = utf8
  C = C  de = de  de_DE = de_DE  fr = fr  m1 = m1
  Threads <- MCThreads2
  Domains = {messages, prog}
  DefaultDomain = messages
  Dirs = {usr, opt}
  DefaultDir = usr
  RelativeDirs = {opt}
  Codesets = {utf8}
  Locales = {C, de}
  CLocale = C
  CatalogNames <- MCCatalogNames
  PathLocales = {}
  Secure = FALSE
  Languages <- MCUnset
  ThreadNames = TRUE
  Msgids = {m1}
  Tried <- MCTried
  Installed <- MCInstalled
  Failing <- MCFailing
  MaxCntr = 2
  Null = Null
SYMMETRY MCSymmetry2
INVARIANTS TypeOK DomainNameValid CacheCoherent TreeExclusion
