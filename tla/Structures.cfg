\* Each of the components alone; msgmerge runs twice on every input.
SPECIFICATION StructuresSpec
CONSTANTS
  Components = {"L10nFlist", "WinRwLock", "HashTable", "MoFile", "Plural", "MessageList", "Msgmerge", "Catenate", "TermOstream", "LispFormat"}
  t1 = t1  t2 = t2  t3 = t3  t4 = t4  t5 = t5
  A = A  B = B  C = C  P = P  Domain2 = Domain2  latin1 = latin1  sjis = sjis
  de = de  german = german  DE = DE  UTF8 = UTF8  utf8 = utf8  euro = euro
  k1 = k1  k2 = k2  k3 = k3  k4 = k4  k5 = k5  d1 = d1  d2 = d2
  header = header  ascii = ascii  u1 = u1  u2 = u2
  L10nThreads = {t1, t2}
  Locales <- MCLocales
  Aliases <- MCAliases
  Normalized <- MCNormalized
  Catalogs <- MCCatalogs
  MaxShort = 1
  L10nNull = L10nNull
  WinThreads = {t1, t2, t3, t4, t5}
  WinPrograms <- MCWinPrograms
  NoEvent = NoEvent
  HashKeys <- MCHashKeys
  HashData = {d1, d2}
  HashFunctions <- MCHashFunctions
  HashRequests <- MCHashRequests
  InitSize = 2
  MaxSize = 11
  Free = Free  NoCall = NoCall  Absent = Absent
  MoKeys <- MCMoKeys
  MoHashes <- MCMoHashes
  MoInputs <- MCMoInputs
  Word = 64
  CheckLimit = 20
  FormulaInputs <- MCFormulaInputs
  Eval <- plural_eval
  Numbers = {0, 1, 2, 3, 11, 20, 21, 30, 63}
  Keys <- MCKeys
  HeaderKey = header
  Ascii = {header, ascii}
  ListInputs <- MCListInputs
  Header = Header  NoId = NoId  NoPlural = NoPlural  NoRange = NoRange  Null = Null
  DefaultDomain = DefaultDomain
  PluralForm <- MCPluralForm
  Often <- MCOften
  MergeThreads = {t1, t2}
  Similarity <- MCSimilarity
  Threshold = 1
  Inputs <- MCInputs
  Runs = 2
  CatInputs <- MCCatInputs
  HeaderId = ""
  NoChars = "none"
  po_charset_ascii = po_charset_ascii  po_charset_utf8 = po_charset_utf8
  AsciiCompatible <- MCAsciiCompatible
  Invariant <- MCInvariant
  Repertoire <- MCRepertoire
  NoCode = NoCode  NoLabel = NoLabel
  Terminals <- MCTerminals
  Styles <- MCStyles
  MaxChars = 2
  NullList = NullList  Failed = Failed
  LispInputs <- MCLispInputs
  MaxDepth = 3
  ArgLists <- MCArgLists
INVARIANTS
  AnswerComplete HandOver ProbesAdvance IterationComplete FindsMessage
  FormSelected IndexCurrent NeverAborts
  SearchSound NothingLost ResultPassesCheck UpdateSettles
  MergeComplete OneEncoding AttributesShown DefaultRestored ConstraintsExact CheckDecides
PROPERTIES ImplementsDictionary WinImplementsRwLock
SYMMETRY MCSymmetry
CHECK_DEADLOCK FALSE
