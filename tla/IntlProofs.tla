----------------------------- MODULE IntlProofs -----------------------------
(****************************************************************************)
(* Small components of libintl: the table of locale aliases, for any        *)
(* threads and files; the selection of a plural form, for any formula and   *)
(* any translation; and the list of catalogs, for any threads, locale names *)
(* and aliases.                                                             *)
(****************************************************************************)
EXTENDS LocaleAlias, Plural, L10nFlist, FiniteSetTheorems, SequenceTheorems,
  WellFoundedInduction, TLAPS

Lines   == [alias : AliasNames, value : AliasValues]
Entries == [alias : AliasNames, value : AliasValues, pool : Nat]
AliasResults == [value : AliasValues, pool : Nat]
Holding == {"search", "read", "unlock"}

AliasTypeOK ==
  /\ aliaslock \in AliasThreads \cup {NoAlias}
  /\ alias_path \in 0..Len(AliasFiles)
  /\ map \in Seq(Entries) /\ string_space \in Nat
  /\ line \in Nat /\ added \in Nat
  /\ aliaspc \in [AliasThreads -> {"idle", "lock", "copy"} \cup Holding]
  /\ aliasname \in [AliasThreads -> AliasNames \cup {NoAlias}]
  /\ aliasresult \in [AliasThreads -> AliasResults \cup {NoAlias}]

AliasLockInv == \A t \in AliasThreads : aliaspc[t] \in Holding <=> aliaslock = t

\* The entries of the map stem from the files and point into the pool.
MapInv ==
  \A i \in 1..Len(map) :
    map[i].pool = string_space /\ map[i].value \in Defined(map[i].alias)

Listed(n) == \E i \in 1..Len(map) : map[i].alias = n

\* The file at alias_path is being read.
Reading == \E t \in AliasThreads : aliaspc[t] = "read"

\* What has been read of the files is in the map, if there was memory.
FilesInv ==
  \A f \in 1..alias_path : \A i \in 1..Len(AliasFiles[f]) :
    \/ Listed(AliasFiles[f][i].alias)
    \/ f = alias_path /\ Reading /\ i >= line
    \/ nomemory

\* A thread that reads looks for a name that was not in the map.
ReadInv(t) ==
  aliaspc[t] = "read" =>
    /\ alias_path >= 1 /\ line >= 1
    /\ added = 0 => Known(t) = {}

AliasInv ==
  /\ AliasTypeOK /\ AliasLockInv /\ MapInv /\ FilesInv
  /\ \A t \in AliasThreads : ReadInv(t)
  /\ ExpandSound

-----------------------------------------------------------------------------
(* The files and the map.                                                  *)

LEMMA LineType ==
  ASSUME NEW f \in 1..Len(AliasFiles)
  PROVE  /\ AliasFiles[f] \in Seq(Lines) /\ Len(AliasFiles[f]) \in Nat
         /\ \A i \in 1..Len(AliasFiles[f]) : AliasFiles[f][i] \in Lines
  <1>1. AliasFiles \in Seq(Seq(Lines))
    BY AliasAssumption DEF Lines
  <1>2. AliasFiles[f] \in Seq(Lines)
    BY <1>1
  <1> QED BY <1>2

LEMMA DefinedBy ==
  ASSUME NEW f \in 1..Len(AliasFiles), NEW i \in 1..Len(AliasFiles[f])
  PROVE  AliasFiles[f][i].value \in Defined(AliasFiles[f][i].alias)
  BY DEF Defined, LinesFor

LEMMA Undefined ==
  ASSUME NEW n,
         \A f \in 1..Len(AliasFiles) : \A i \in 1..Len(AliasFiles[f]) :
           AliasFiles[f][i].alias # n
  PROVE  Defined(n) = {}
  BY DEF Defined, LinesFor

LEMMA HolderIs ==
  ASSUME AliasLockInv, NEW t \in AliasThreads, NEW u \in AliasThreads,
         aliaspc[t] \in Holding, aliaspc[u] \in Holding
  PROVE  t = u
  BY DEF AliasLockInv

\* What a line adds to the map.
LEMMA Read ==
  ASSUME AliasInv, NEW t \in AliasThreads, ReadAlias(t)
  PROVE  /\ string_space' \in Nat
         /\ map' \in Seq(Entries) /\ Len(map') = Len(map) + 1
         /\ \A i \in 1..Len(map) :
              map'[i] = [map[i] EXCEPT !.pool = string_space']
         /\ map'[Len(map) + 1] = [alias |-> AliasFiles[alias_path][line].alias,
                                  value |-> AliasFiles[alias_path][line].value,
                                  pool  |-> string_space']
         /\ alias_path \in 1..Len(AliasFiles)
         /\ line \in 1..Len(AliasFiles[alias_path])
  <1> DEFINE e == AliasFiles[alias_path][line]
             new == [alias |-> e.alias, value |-> e.value, pool |-> string_space']
             m == IF string_space' = string_space THEN map ELSE Moved(string_space')
  <1>1. /\ AliasTypeOK /\ MapInv /\ aliaspc[t] = "read" /\ alias_path >= 1 /\ line >= 1
        /\ line <= Len(AliasFiles[alias_path])
    BY DEF AliasInv, ReadInv, ReadAlias
  <1>2. alias_path \in 1..Len(AliasFiles)
    BY <1>1, AliasAssumption DEF AliasTypeOK
  <1>3. line \in 1..Len(AliasFiles[alias_path]) /\ e \in Lines
    BY <1>1, <1>2, LineType DEF AliasTypeOK
  <1>4. string_space' \in Nat
    BY <1>1 DEF ReadAlias, AliasTypeOK
  <1>5. map \in Seq(Entries) /\ \A i \in 1..Len(map) : map[i] \in Entries
    BY <1>1 DEF AliasTypeOK
  <1>6. \A i \in 1..Len(map) : /\ [map[i] EXCEPT !.pool = string_space'] \in Entries
                               /\ map[i].pool = string_space
                               /\ [map[i] EXCEPT !.pool = string_space] = map[i]
    BY <1>1, <1>4, <1>5 DEF Entries, MapInv
  <1>7. /\ m \in Seq(Entries) /\ Len(m) = Len(map)
        /\ \A i \in 1..Len(map) : m[i] = [map[i] EXCEPT !.pool = string_space']
    <2>1. CASE string_space' = string_space
      BY <1>5, <1>6, <2>1
    <2>2. CASE string_space' # string_space
      <3>1. m = [i \in 1..Len(map) |-> [map[i] EXCEPT !.pool = string_space']]
        BY <2>2 DEF Moved
      <3>2. Len(map) \in Nat
        BY <1>5
      <3>3. m \in [1..Len(map) -> Entries]
        BY <1>6, <3>1
      <3>4. m \in Seq(Entries) /\ Len(m) = Len(map)
        BY <3>2, <3>3
      <3>5. \A i \in 1..Len(map) : m[i] = [map[i] EXCEPT !.pool = string_space']
        BY <3>1
      <3> QED BY <3>4, <3>5
    <2> QED BY <2>1, <2>2
  <1>8. new \in Entries
    BY <1>3, <1>4 DEF Entries, Lines
  <1>9. map' = Append(m, new)
    BY DEF ReadAlias
  <1> HIDE DEF m, new
  <1>10. /\ map' \in Seq(Entries) /\ Len(map') = Len(map) + 1
         /\ \A i \in 1..Len(map) : map'[i] = m[i]
         /\ map'[Len(map) + 1] = new
    BY <1>7, <1>8, <1>9
  <1> QED BY <1>2, <1>3, <1>4, <1>7, <1>10 DEF new

-----------------------------------------------------------------------------
(* The steps.                                                              *)

Act(t) ==
  \/ ExpandAlias(t) \/ LockAlias(t) \/ SearchMap(t) \/ NextFile(t)
  \/ ReadAlias(t) \/ ReadFails(t) \/ ReadEnd(t) \/ UnlockAlias(t) \/ CopyAlias(t)

\* Steps that leave alone what the holder of the lock works on.
Aside(t) == ExpandAlias(t) \/ LockAlias(t) \/ UnlockAlias(t) \/ CopyAlias(t)

LEMMA PcStep ==
  ASSUME AliasTypeOK, NEW t \in AliasThreads, Act(t)
  PROVE  /\ aliaspc' \in [AliasThreads -> {"idle", "lock", "copy"} \cup Holding]
         /\ \A u \in AliasThreads \ {t} : aliaspc'[u] = aliaspc[u]
         /\ \/ ExpandAlias(t) /\ aliaspc[t] = "idle" /\ aliaspc'[t] = "lock"
            \/ LockAlias(t) /\ aliaspc[t] = "lock" /\ aliaspc'[t] = "search"
            \/ SearchMap(t) /\ aliaspc[t] = "search" /\ aliaspc'[t] = "unlock"
            \/ NextFile(t) /\ aliaspc[t] = "search" /\ aliaspc'[t] \in {"read", "unlock"}
            \/ ReadAlias(t) /\ aliaspc[t] = "read" /\ aliaspc'[t] = "read"
            \/ ReadFails(t) /\ aliaspc[t] = "read" /\ aliaspc'[t] \in {"search", "unlock"}
            \/ ReadEnd(t) /\ aliaspc[t] = "read" /\ aliaspc'[t] \in {"search", "unlock"}
            \/ UnlockAlias(t) /\ aliaspc[t] = "unlock" /\ aliaspc'[t] = "copy"
            \/ CopyAlias(t) /\ aliaspc[t] = "copy" /\ aliaspc'[t] = "idle"
  BY DEF AliasTypeOK, Act, ExpandAlias, LockAlias, SearchMap, NextFile, ReadAlias, ReadFails,
         ReadEnd, EndFile, UnlockAlias, CopyAlias, AliasGoto, Holding

LEMMA AliasTypeStep ==
  ASSUME AliasInv, NEW t \in AliasThreads, Act(t)
  PROVE  AliasTypeOK'
  <1>0. AliasTypeOK /\ MapInv
    BY DEF AliasInv
  <1>1. aliaspc' \in [AliasThreads -> {"idle", "lock", "copy"} \cup Holding]
    BY <1>0, PcStep
  <1>2. aliaslock' \in AliasThreads \cup {NoAlias}
    BY <1>0
    DEF AliasTypeOK, Act, ExpandAlias, LockAlias, SearchMap, NextFile, ReadAlias, ReadFails,
        ReadEnd, EndFile, UnlockAlias, CopyAlias
  <1>3. alias_path' \in 0..Len(AliasFiles) /\ line' \in Nat /\ added' \in Nat
    BY <1>0, AliasAssumption
    DEF AliasTypeOK, Act, ExpandAlias, LockAlias, SearchMap, NextFile, ReadAlias, ReadFails,
        ReadEnd, EndFile, UnlockAlias, CopyAlias, aliascall
  <1>4. map' \in Seq(Entries) /\ string_space' \in Nat
    <2>1. ReadAlias(t) \/ UNCHANGED <<map, string_space>>
      BY DEF Act, ExpandAlias, LockAlias, SearchMap, NextFile, ReadFails, ReadEnd, UnlockAlias,
             CopyAlias, aliastable
    <2> QED BY <1>0, <2>1, Read DEF AliasTypeOK
  <1>5. aliasname' \in [AliasThreads -> AliasNames \cup {NoAlias}]
    <2>1. ExpandAlias(t) \/ UNCHANGED aliasname
      BY DEF Act, LockAlias, SearchMap, NextFile, ReadAlias, ReadFails, ReadEnd, EndFile,
             UnlockAlias, CopyAlias, aliascall
    <2> QED BY <1>0, <2>1 DEF AliasTypeOK, ExpandAlias
  <1>6. aliasresult' \in [AliasThreads -> AliasResults \cup {NoAlias}]
    <2>1. CASE SearchMap(t)
      <3>1. PICK i \in Known(t) :
              aliasresult' = [aliasresult EXCEPT ![t] =
                                [value |-> map[i].value, pool |-> map[i].pool]]
        BY <2>1 DEF SearchMap
      <3>2. map[i] \in Entries
        BY <1>0 DEF Known, AliasTypeOK
      <3>3. [value |-> map[i].value, pool |-> map[i].pool] \in AliasResults
        BY <3>2 DEF Entries, AliasResults
      <3> QED BY <1>0, <3>1, <3>3 DEF AliasTypeOK
    <2>2. CASE UNCHANGED aliasresult \/ aliasresult' = [aliasresult EXCEPT ![t] = NoAlias]
      BY <1>0, <2>2 DEF AliasTypeOK
    <2>3. \/ SearchMap(t) \/ UNCHANGED aliasresult
          \/ aliasresult' = [aliasresult EXCEPT ![t] = NoAlias]
      BY DEF Act, ExpandAlias, LockAlias, NextFile, ReadAlias, ReadFails, ReadEnd, EndFile,
             UnlockAlias, CopyAlias
    <2> QED BY <2>1, <2>2, <2>3
  <1> QED BY <1>1, <1>2, <1>3, <1>4, <1>5, <1>6 DEF AliasTypeOK

LEMMA AliasLockStep ==
  ASSUME AliasTypeOK, AliasLockInv, NEW t \in AliasThreads, Act(t)
  PROVE  AliasLockInv'
  <1>1. /\ aliaspc' \in [AliasThreads -> {"idle", "lock", "copy"} \cup Holding]
        /\ \A u \in AliasThreads \ {t} : aliaspc'[u] = aliaspc[u]
    BY PcStep
  <1>2. CASE LockAlias(t)
    BY <1>1, <1>2, AliasAssumption
    DEF AliasLockInv, LockAlias, AliasGoto, AliasTypeOK, Holding
  <1>3. CASE UnlockAlias(t)
    BY <1>1, <1>3, AliasAssumption
    DEF AliasLockInv, UnlockAlias, AliasGoto, AliasTypeOK, Holding
  <1>4. CASE UNCHANGED aliaslock /\ (aliaspc'[t] \in Holding <=> aliaspc[t] \in Holding)
    BY <1>1, <1>4 DEF AliasLockInv
  <1>5. \/ LockAlias(t) \/ UnlockAlias(t)
        \/ UNCHANGED aliaslock /\ (aliaspc'[t] \in Holding <=> aliaspc[t] \in Holding)
    BY PcStep
    DEF ExpandAlias, SearchMap, NextFile, ReadAlias, ReadFails, ReadEnd, EndFile, CopyAlias,
        Holding
  <1> QED BY <1>2, <1>3, <1>4, <1>5

\* Only ReadAlias changes the map.
LEMMA MapKept ==
  ASSUME NEW t \in AliasThreads, Act(t), ~ReadAlias(t)
  PROVE  UNCHANGED <<map, string_space>>
  BY DEF Act, ExpandAlias, LockAlias, SearchMap, NextFile, ReadFails, ReadEnd, UnlockAlias,
         CopyAlias, aliastable

LEMMA MapInvStep ==
  ASSUME AliasInv, NEW t \in AliasThreads, Act(t)
  PROVE  MapInv'
  <1>0. AliasTypeOK /\ MapInv
    BY DEF AliasInv
  <1>1. CASE ReadAlias(t)
    <2> SUFFICES ASSUME NEW i \in 1..Len(map')
                 PROVE  map'[i].pool = string_space' /\ map'[i].value \in Defined(map'[i].alias)
      BY DEF MapInv
    <2>1. Len(map) \in Nat /\ Len(map') = Len(map) + 1
      BY <1>0, <1>1, Read DEF AliasTypeOK
    <2>2. CASE i \in 1..Len(map)
      <3>0. map[i] \in Entries
        BY <1>0, <2>2 DEF AliasTypeOK
      <3>1. map[i] \in Entries /\ map'[i] = [map[i] EXCEPT !.pool = string_space']
        BY <1>1, <2>2, <3>0, Read
      <3>2. /\ map'[i].pool = string_space' /\ map'[i].value = map[i].value
            /\ map'[i].alias = map[i].alias
        BY <3>1 DEF Entries
      <3> QED BY <1>0, <2>2, <3>2 DEF MapInv
    <2>3. CASE i = Len(map) + 1
      <3> DEFINE e == AliasFiles[alias_path][line]
      <3>1. e.value \in Defined(e.alias)
        BY <1>1, Read, DefinedBy
      <3>2. map'[i] = [alias |-> e.alias, value |-> e.value, pool |-> string_space']
        BY <1>1, <2>3, Read
      <3>3. map'[i].pool = string_space' /\ map'[i].value = e.value /\ map'[i].alias = e.alias
        BY <3>2
      <3> QED BY <3>1, <3>3
    <2> QED BY <2>1, <2>2, <2>3
  <1>2. CASE ~ReadAlias(t)
    BY <1>0, <1>2, MapKept DEF MapInv
  <1> QED BY <1>1, <1>2

LEMMA ListedKept ==
  ASSUME AliasInv, NEW t \in AliasThreads, Act(t), NEW n, Listed(n)
  PROVE  Listed(n)'
  <1>1. CASE ReadAlias(t)
    <2>1. PICK i \in 1..Len(map) : map[i].alias = n
      BY DEF Listed
    <2>2. map[i] \in Entries /\ map'[i] = [map[i] EXCEPT !.pool = string_space']
      BY <1>1, Read DEF AliasInv, AliasTypeOK
    <2>3. map'[i].alias = n
      BY <2>1, <2>2 DEF Entries
    <2>4. Len(map) \in Nat /\ Len(map') = Len(map) + 1
      BY <1>1, Read DEF AliasInv, AliasTypeOK
    <2>5. i \in 1..Len(map')
      BY <2>4
    <2> QED BY <2>3, <2>5 DEF Listed
  <1>2. CASE ~ReadAlias(t)
    BY <1>2, MapKept DEF Listed
  <1> QED BY <1>1, <1>2

LEMMA MemoryStays ==
  ASSUME NEW t \in AliasThreads, Act(t), nomemory
  PROVE  nomemory'
  <1>1. UNCHANGED nomemory \/ nomemory' = TRUE
    BY DEF Act, ExpandAlias, LockAlias, SearchMap, NextFile, ReadAlias, ReadFails, ReadEnd,
           UnlockAlias, CopyAlias, aliastable
  <1> QED BY <1>1, Zenon

\* Reading is a state of the holder of the lock.
LEMMA ReaderIs ==
  ASSUME AliasLockInv, NEW t \in AliasThreads, aliaspc[t] \in Holding
  PROVE  Reading <=> aliaspc[t] = "read"
  BY HolderIs DEF Reading, Holding

LEMMA FilesStep ==
  ASSUME AliasInv, NEW t \in AliasThreads, Act(t)
  PROVE  FilesInv'
  <1> SUFFICES ASSUME NEW f \in 1..alias_path', NEW i \in 1..Len(AliasFiles[f])
               PROVE  \/ Listed(AliasFiles[f][i].alias)'
                      \/ f = alias_path' /\ Reading' /\ i >= line'
                      \/ nomemory'
    BY DEF FilesInv
  <1>0. /\ AliasTypeOK /\ AliasLockInv /\ FilesInv /\ ReadInv(t) /\ alias_path \in Nat
        /\ line \in Nat
    BY AliasAssumption DEF AliasInv, AliasTypeOK
  <1>1. CASE f \in 1..alias_path /\ (Listed(AliasFiles[f][i].alias) \/ nomemory)
    BY <1>1, ListedKept, MemoryStays
  <1>2. CASE Aside(t) \/ SearchMap(t) \/ (NextFile(t) /\ aliaspc'[t] = "unlock")
    <2>1. UNCHANGED <<alias_path, line>>
      BY <1>0, <1>2
      DEF Aside, ExpandAlias, LockAlias, SearchMap, NextFile, UnlockAlias, CopyAlias,
          AliasGoto, AliasTypeOK
    <2>2. Reading' = Reading
      BY <1>0, <1>2, PcStep DEF Reading, Aside, ExpandAlias, LockAlias, UnlockAlias, CopyAlias,
         SearchMap, NextFile
    <2> QED BY <1>0, <1>1, <2>1, <2>2 DEF FilesInv
  <1>3. CASE NextFile(t) /\ aliaspc'[t] = "read"
    <2>1. alias_path' = alias_path + 1 /\ line' = 1 /\ aliaspc[t] = "search"
      BY <1>0, <1>3 DEF NextFile, AliasGoto, AliasTypeOK
    <2>2. Reading' /\ ~Reading
      BY <1>0, <1>3, <2>1, ReaderIs DEF Reading, Holding
    <2>3. CASE f = alias_path + 1
      <3>1. Len(AliasFiles[f]) \in Nat
        BY <1>0, <1>3, <2>1, <2>3, LineType, AliasAssumption DEF NextFile
      <3> QED BY <2>1, <2>2, <2>3, <3>1
    <2>4. CASE f \in 1..alias_path
      BY <1>0, <1>1, <2>2, <2>4 DEF FilesInv
    <2> QED BY <1>0, <2>1, <2>3, <2>4
  <1>4. CASE ReadAlias(t)
    <2>1. /\ alias_path' = alias_path /\ line' = line + 1 /\ aliaspc'[t] = "read"
      BY <1>0, <1>4 DEF ReadAlias, AliasTypeOK
    <2>2. Reading'
      BY <2>1 DEF Reading
    <2>3. CASE f = alias_path /\ i = line
      <3>1. map'[Len(map) + 1] = [alias |-> AliasFiles[f][i].alias,
                                  value |-> AliasFiles[f][i].value, pool |-> string_space']
        BY <1>4, <2>3, Read
      <3>2. map'[Len(map) + 1].alias = AliasFiles[f][i].alias
        BY <3>1
      <3>3. Len(map) + 1 \in 1..Len(map')
        BY <1>0, <1>4, Read DEF AliasTypeOK
      <3> QED BY <3>2, <3>3 DEF Listed
    <2>4. CASE ~(f = alias_path /\ i = line)
      <3>1. \/ Listed(AliasFiles[f][i].alias)
            \/ f = alias_path /\ Reading /\ i >= line
            \/ nomemory
        BY <1>0, <2>1 DEF FilesInv
      <3>2. i \in Nat
        OBVIOUS
      <3> QED BY <1>0, <1>1, <2>1, <2>2, <2>4, <3>1, <3>2
    <2> QED BY <2>3, <2>4
  <1>5. CASE ReadFails(t)
    BY <1>5, Zenon DEF ReadFails
  <1>6. CASE ReadEnd(t)
    <2>1. alias_path' = alias_path /\ line > Len(AliasFiles[alias_path]) /\ alias_path >= 1
      BY <1>0, <1>6 DEF ReadEnd, EndFile, ReadInv
    <2>2. alias_path \in 1..Len(AliasFiles)
      BY <1>0, <2>1, AliasAssumption DEF AliasTypeOK
    <2>3. f = alias_path => ~(i >= line)
      <3>1. Len(AliasFiles[alias_path]) \in Nat
        BY <2>2, LineType
      <3> QED BY <1>0, <2>1, <3>1
    <2> QED BY <1>0, <1>1, <2>1, <2>3 DEF FilesInv
  <1>7. \/ Aside(t) \/ SearchMap(t) \/ (NextFile(t) /\ aliaspc'[t] = "unlock")
        \/ (NextFile(t) /\ aliaspc'[t] = "read") \/ ReadAlias(t) \/ ReadFails(t) \/ ReadEnd(t)
    BY <1>0, PcStep DEF Aside
  <1> QED BY <1>2, <1>3, <1>4, <1>5, <1>6, <1>7

LEMMA ReadInvStep ==
  ASSUME AliasInv, NEW t \in AliasThreads, Act(t), NEW u \in AliasThreads
  PROVE  ReadInv(u)'
  <1> SUFFICES ASSUME aliaspc'[u] = "read" PROVE ReadInv(u)'
    BY DEF ReadInv
  <1>0. AliasTypeOK /\ AliasLockInv /\ ReadInv(u) /\ alias_path \in Nat /\ line \in Nat
        /\ added \in Nat
    BY AliasAssumption DEF AliasInv, AliasTypeOK
  <1>1. CASE NextFile(t) /\ u = t
    <2>1. alias_path' = alias_path + 1 /\ line' = 1 /\ Known(t) = {}
          /\ UNCHANGED <<map, aliasname>>
      BY <1>0, <1>1 DEF NextFile, AliasGoto, AliasTypeOK, aliastable, aliascall
    <2> QED BY <1>0, <1>1, <2>1 DEF ReadInv, Known
  <1>2. CASE ReadAlias(t) /\ u = t
    <2>1. alias_path' = alias_path /\ line' = line + 1 /\ added' = added + 1
          /\ alias_path >= 1 /\ line >= 1
      BY <1>0, <1>2 DEF ReadAlias, ReadInv
    <2> QED BY <1>0, <2>1 DEF ReadInv
  <1>3. CASE Aside(t) /\ u # t
    <2>1. UNCHANGED <<alias_path, line, added, map>> /\ aliasname'[u] = aliasname[u]
      BY <1>0, <1>3
      DEF Aside, ExpandAlias, LockAlias, UnlockAlias, CopyAlias, aliastable, aliascall,
          AliasTypeOK
    <2>2. aliaspc[u] = "read"
      BY <1>0, <1>3, PcStep
    <2> QED BY <1>0, <2>1, <2>2 DEF ReadInv, Known
  <1>4. CASE u # t /\ aliaspc[t] \in Holding
    <2>1. aliaspc[u] = "read"
      BY <1>0, <1>4, PcStep
    <2> QED BY <1>0, <1>4, <2>1, HolderIs DEF Holding
  <1>5. \/ (NextFile(t) /\ u = t) \/ (ReadAlias(t) /\ u = t) \/ (Aside(t) /\ u # t)
        \/ (u # t /\ aliaspc[t] \in Holding)
    BY <1>0, PcStep DEF Aside, Holding
  <1> QED BY <1>1, <1>2, <1>3, <1>4, <1>5

-----------------------------------------------------------------------------
(* What a call returns.                                                    *)

\* When all files have been read, a name that is not in the map has no value.
LEMMA NothingLeft ==
  ASSUME AliasTypeOK, FilesInv, NEW t \in AliasThreads, Known(t) = {},
         alias_path = Len(AliasFiles),
         ~Reading \/ line > Len(AliasFiles[alias_path])
  PROVE  Defined(aliasname[t]) = {} \/ nomemory
  <1> SUFFICES ASSUME ~nomemory PROVE Defined(aliasname[t]) = {}
    BY Zenon
  <1>1. ~Listed(aliasname[t])
    BY DEF Known, Listed
  <1>2. ASSUME NEW f \in 1..Len(AliasFiles), NEW i \in 1..Len(AliasFiles[f])
        PROVE  AliasFiles[f][i].alias # aliasname[t]
    <2>1. Len(AliasFiles[f]) \in Nat /\ line \in Nat
      BY LineType DEF AliasTypeOK
    <2>2. \/ Listed(AliasFiles[f][i].alias)
          \/ f = alias_path /\ Reading /\ i >= line
          \/ nomemory
      BY DEF FilesInv
    <2>3. ~(f = alias_path /\ Reading /\ i >= line)
      BY <2>1
    <2>4. Listed(AliasFiles[f][i].alias)
      BY <2>2, <2>3, Zenon
    <2> QED BY <1>1, <2>4
  <1> QED BY <1>2, Undefined

Sound(t) ==
  IF aliasresult[t] = NoAlias THEN Defined(aliasname[t]) = {} \/ nomemory
  ELSE /\ aliasresult[t].value \in Defined(aliasname[t])
       /\ aliasresult[t].pool = string_space

LEMMA SoundOther ==
  ASSUME AliasInv, NEW t \in AliasThreads, Act(t), NEW u \in AliasThreads, u # t,
         aliaspc'[u] = "unlock"
  PROVE  Sound(u)'
  <1>0. AliasTypeOK /\ AliasLockInv /\ ExpandSound
    BY DEF AliasInv
  <1>1. aliaspc[u] = "unlock"
    BY <1>0, PcStep
  <1>2. Sound(u)
    BY <1>0, <1>1 DEF ExpandSound, Sound
  <1>3. aliaspc[t] \notin Holding
    BY <1>0, <1>1, HolderIs DEF Holding
  <1>4. ExpandAlias(t) \/ LockAlias(t) \/ CopyAlias(t)
    BY <1>0, <1>3, PcStep DEF Holding
  <1>5. UNCHANGED <<string_space, nomemory>>
    BY <1>4 DEF ExpandAlias, LockAlias, CopyAlias, aliastable
  <1>6. aliasresult'[u] = aliasresult[u] /\ aliasname'[u] = aliasname[u]
    BY <1>0, <1>4 DEF ExpandAlias, LockAlias, CopyAlias, aliascall, AliasTypeOK
  <1> QED BY <1>2, <1>5, <1>6, Zenon DEF Sound

LEMMA SoundOwn ==
  ASSUME AliasInv, NEW t \in AliasThreads, Act(t), aliaspc'[t] = "unlock"
  PROVE  Sound(t)'
  <1>0. /\ AliasTypeOK /\ AliasLockInv /\ MapInv /\ FilesInv /\ ReadInv(t)
        /\ Len(AliasFiles) \in Nat
    BY AliasAssumption DEF AliasInv
  <1>1. CASE SearchMap(t)
    <2>1. PICK i \in Known(t) :
            aliasresult' = [aliasresult EXCEPT ![t] =
                              [value |-> map[i].value, pool |-> map[i].pool]]
      BY <1>1 DEF SearchMap
    <2>2. map[i] \in Entries /\ i \in 1..Len(map) /\ map[i].alias = aliasname[t]
      BY <1>0 DEF Known, AliasTypeOK
    <2>3. map[i].value \in Defined(aliasname[t]) /\ map[i].pool = string_space
      BY <1>0, <2>2 DEF MapInv
    <2>4. [value |-> map[i].value, pool |-> map[i].pool] \in AliasResults
      BY <2>2 DEF Entries, AliasResults
    <2>5. aliasresult'[t] = [value |-> map[i].value, pool |-> map[i].pool]
      BY <1>0, <2>1 DEF AliasTypeOK
    <2>6. aliasresult'[t] # NoAlias
      BY <2>4, <2>5, AliasAssumption DEF AliasResults
    <2>7. UNCHANGED <<aliasname, string_space>>
      BY <1>1 DEF SearchMap, aliastable, aliascall
    <2> QED BY <2>3, <2>5, <2>6, <2>7 DEF Sound
  <1>2. CASE NextFile(t)
    <2>1. /\ aliaspc[t] = "search" /\ Known(t) = {} /\ ~(alias_path < Len(AliasFiles))
          /\ aliasresult'[t] = NoAlias
          /\ UNCHANGED <<aliasname, nomemory>>
      BY <1>0, <1>2 DEF NextFile, AliasGoto, AliasTypeOK, aliastable, aliascall
    <2>2. alias_path = Len(AliasFiles)
      BY <1>0, <2>1 DEF AliasTypeOK
    <2>3. ~Reading
      BY <1>0, <2>1, ReaderIs DEF Holding
    <2>4. Defined(aliasname[t]) = {} \/ nomemory
      BY <1>0, <2>1, <2>2, <2>3, NothingLeft
    <2> QED BY <2>1, <2>4, Zenon DEF Sound
  <1>3. CASE ReadEnd(t)
    <2>1. /\ aliaspc[t] = "read" /\ line > Len(AliasFiles[alias_path])
          /\ added = 0 /\ alias_path = Len(AliasFiles) /\ aliasresult'[t] = NoAlias
          /\ UNCHANGED <<aliasname, nomemory>>
      BY <1>0, <1>3 DEF ReadEnd, EndFile, AliasGoto, AliasTypeOK, aliastable, aliascall
    <2>2. Defined(aliasname[t]) = {} \/ nomemory
      BY <1>0, <2>1, NothingLeft DEF ReadInv
    <2> QED BY <2>1, <2>2, Zenon DEF Sound
  <1>4. CASE ReadFails(t)
    <2>1. aliasresult'[t] = NoAlias
      BY <1>0, <1>4 DEF ReadFails, EndFile, AliasGoto, AliasTypeOK
    <2>2. nomemory'
      BY <1>4, Zenon DEF ReadFails
    <2> QED BY <2>1, <2>2, Zenon DEF Sound
  <1> QED BY <1>0, <1>1, <1>2, <1>3, <1>4, PcStep

LEMMA AliasInitially == AliasInit => AliasInv
  <1> SUFFICES ASSUME AliasInit PROVE AliasInv
    OBVIOUS
  <1>1. AliasTypeOK
    BY AliasAssumption DEF AliasInit, AliasTypeOK, Holding
  <1>2. AliasLockInv
    BY AliasAssumption DEF AliasInit, AliasLockInv, Holding
  <1>3. MapInv /\ FilesInv
    BY DEF AliasInit, MapInv, FilesInv
  <1>4. \A t \in AliasThreads : ReadInv(t)
    BY DEF AliasInit, ReadInv
  <1>5. ExpandSound
    BY DEF AliasInit, ExpandSound
  <1> QED BY <1>1, <1>2, <1>3, <1>4, <1>5 DEF AliasInv

LEMMA AliasKept == AliasInv /\ [AliasNext]_aliasvars => AliasInv'
  <1> SUFFICES ASSUME AliasInv, [AliasNext]_aliasvars PROVE AliasInv'
    OBVIOUS
  <1>1. CASE AliasNext
    <2>1. PICK t \in AliasThreads : Act(t)
      BY <1>1 DEF AliasNext, Act
    <2>2. ASSUME NEW u \in AliasThreads, aliaspc'[u] = "unlock" PROVE Sound(u)'
      BY <2>1, <2>2, SoundOther, SoundOwn
    <2>3. ExpandSound'
      BY <2>2 DEF ExpandSound, Sound
    <2>4. AliasLockInv'
      BY <2>1, AliasLockStep DEF AliasInv
    <2> QED
      BY <2>1, <2>3, <2>4, AliasTypeStep, MapInvStep, FilesStep, ReadInvStep DEF AliasInv
  <1>2. CASE UNCHANGED aliasvars
    <2>1. AliasTypeOK' /\ AliasLockInv' /\ MapInv'
      BY <1>2 DEF aliasvars, AliasInv, AliasTypeOK, AliasLockInv, MapInv
    <2>2. FilesInv'
      BY <1>2 DEF aliasvars, AliasInv, FilesInv, Listed, Reading
    <2>3. \A t \in AliasThreads : ReadInv(t)'
      BY <1>2 DEF aliasvars, AliasInv, ReadInv, Known
    <2>4. ExpandSound'
      BY <1>2 DEF aliasvars, AliasInv, ExpandSound
    <2> QED BY <2>1, <2>2, <2>3, <2>4 DEF AliasInv
  <1> QED BY <1>1, <1>2

(* AliasInv: the map has every line of the files read so far, if memory    *)
(* did not fail, and all its pointers point into the pool where it is now; *)
(* whoever reads a file looks for a name that was not in the map.          *)
THEOREM AliasInvariant == AliasSpec => []AliasInv
  BY AliasInitially, AliasKept, PTL DEF AliasSpec

(* ExpandSound: for any alias files, any number of threads and wherever    *)
(* the reading of a file is broken off, _nl_expand_alias returns a value   *)
(* that a file gives the name, in the pool that is there, or NULL for a    *)
(* name that no file defines.                                              *)
THEOREM ExpansionSound == AliasSpec => []ExpandSound
  <1>1. AliasInv => ExpandSound
    BY DEF AliasInv
  <1> QED BY <1>1, AliasInvariant, PTL

-----------------------------------------------------------------------------
(* Plural forms: where the strings of a translation start.                  *)

LEMMA SmallestNumber ==
  ASSUME NEW S \in SUBSET Nat, S # {}
  PROVE  \E i \in S : \A j \in S : i <= j
<1>. DEFINE R == {p \in Nat \X Nat : p[1] < p[2]}
<1>1. IsWellFoundedOn(R, Nat)
  <2>1. IsWellFoundedOn({p \in Nat \X Nat : p[1] < p[2]}, Nat)
    BY NatLessThanWellFounded, Zenon DEF OpToRel
  <2>. QED BY <2>1
<1>. HIDE DEF R
<1>2. PICK i \in S : \A j \in S : ~(<<j, i>> \in R)
  BY <1>1, WFMin
<1>3. \A j \in S : ~(j < i)
  BY <1>2 DEF R
<1>. QED BY <1>3

(* s gives the offsets of the first n of the strings with the lengths l.    *)
Offsets(s, l, n) ==
  s = [i \in 1..n |-> IF i = 1 THEN 0 ELSE s[i - 1] + l[i - 1] + 1]

LEMMA OffsetsExist ==
  ASSUME NEW l
  PROVE  \A n \in Nat : \E s : Offsets(s, l, n)
<1>. DEFINE Bad == {n \in Nat : \A s : ~Offsets(s, l, n)}
<1>1. SUFFICES ASSUME Bad # {} PROVE FALSE
  OBVIOUS
<1>2. PICK k \in Bad : \A j \in Bad : k <= j BY <1>1, SmallestNumber
<1>3. CASE k = 0
  <2>. DEFINE s == [i \in 1..k |-> IF i = 1 THEN 0 ELSE 0]
  <2>1. Offsets(s, l, k) BY <1>3 DEF Offsets
  <2>. QED BY <1>2, <2>1
<1>4. CASE k # 0
  <2>1. k - 1 \in Nat /\ k - 1 \notin Bad BY <1>2, <1>4
  <2>2. PICK p : Offsets(p, l, k - 1) BY <2>1
  <2>. DEFINE s == [i \in 1..k |-> IF i = 1 THEN 0 ELSE p[i - 1] + l[i - 1] + 1]
  <2>3. ASSUME NEW i \in 1..(k - 1) PROVE s[i] = p[i]
    <3>1. s[i] = IF i = 1 THEN 0 ELSE p[i - 1] + l[i - 1] + 1 BY <1>2
    <3>2. p = [j \in 1..(k - 1) |-> IF j = 1 THEN 0 ELSE p[j - 1] + l[j - 1] + 1]
      BY <2>2 DEF Offsets
    <3>. HIDE DEF s
    <3>3. p[i] = IF i = 1 THEN 0 ELSE p[i - 1] + l[i - 1] + 1 BY <3>2
    <3>. QED BY <3>1, <3>3
  <2>4. ASSUME NEW i \in 1..k, i # 1 PROVE p[i - 1] = s[i - 1]
    <3>1. i - 1 \in 1..(k - 1) BY <1>2, <2>4
    <3>. QED BY <2>3, <3>1
  <2>5. s = [i \in 1..k |-> IF i = 1 THEN 0 ELSE s[i - 1] + l[i - 1] + 1]
    BY <2>4
  <2>6. Offsets(s, l, k) BY <2>5 DEF Offsets
  <2>. QED BY <1>2, <2>6
<1>. QED BY <1>3, <1>4

Strings == Len(catalog.lengths)

LEMMA StartsDefined ==
  ASSUME catalog.lengths \in Seq(Nat)
  PROVE  Offsets(StartOf, catalog.lengths, Strings)
<1>. DEFINE l == catalog.lengths
<1>1. DOMAIN l = 1..Strings /\ Strings \in Nat BY DEF Strings
<1>2. PICK s : Offsets(s, l, Strings) BY <1>1, OffsetsExist
<1>3. s = [i \in DOMAIN l |-> IF i = 1 THEN 0 ELSE s[i - 1] + l[i - 1] + 1]
  BY <1>1, <1>2 DEF Offsets
<1>4. StartOf = [i \in DOMAIN l |-> IF i = 1 THEN 0 ELSE StartOf[i - 1] + l[i - 1] + 1]
  BY <1>3 DEF StartOf
<1>. QED BY <1>1, <1>4 DEF Offsets

(* The strings start one behind the other.                                  *)
LEMMA StartsAscend ==
  ASSUME catalog.lengths \in Seq(Nat)
  PROVE  /\ \A i \in 1..Strings : StartOf[i] \in Nat
         /\ \A i, j \in 1..Strings : i < j => StartOf[i] < StartOf[j]
<1>. DEFINE l == catalog.lengths
            Good(j) == StartOf[j] \in Nat /\ \A i \in 1..Strings : i < j => StartOf[i] < StartOf[j]
            Bad == {j \in 1..Strings : ~Good(j)}
<1>1. /\ Strings \in Nat /\ \A i \in 1..Strings : l[i] \in Nat
      /\ \A i \in 1..Strings : StartOf[i] = IF i = 1 THEN 0 ELSE StartOf[i - 1] + l[i - 1] + 1
  BY StartsDefined DEF Strings, Offsets
<1>2. SUFFICES ASSUME Bad # {} PROVE FALSE
  OBVIOUS
<1>3. PICK k \in Bad : \A j \in Bad : k <= j
  <2>1. Bad \subseteq Nat BY <1>1
  <2>. QED BY <1>2, <2>1, SmallestNumber
<1>4. CASE k = 1
  <2>1. StartOf[k] = 0 BY <1>1, <1>3, <1>4
  <2>2. \A i \in 1..Strings : ~(i < k) BY <1>1, <1>4
  <2>. QED BY <1>3, <2>1, <2>2
<1>5. CASE k # 1
  <2>1. k - 1 \in 1..Strings /\ k - 1 \notin Bad BY <1>1, <1>3, <1>5
  <2>2. Good(k - 1) BY <2>1
  <2>3. StartOf[k] = StartOf[k - 1] + l[k - 1] + 1 /\ l[k - 1] \in Nat BY <1>1, <1>3, <1>5, <2>1
  <2>4. StartOf[k] \in Nat /\ StartOf[k - 1] < StartOf[k] BY <2>2, <2>3
  <2>5. ASSUME NEW i \in 1..Strings, i < k PROVE StartOf[i] < StartOf[k]
    <3>1. CASE i = k - 1 BY <2>4, <3>1
    <3>2. CASE i # k - 1
      <4>1. i < k - 1 BY <1>1, <1>3, <2>5, <3>2
      <4>2. StartOf[i] < StartOf[k - 1] BY <2>2, <4>1
      <4>3. i \notin Bad BY <1>1, <1>3, <2>5
      <4>4. StartOf[i] \in Nat BY <4>3
      <4>. QED BY <2>2, <2>4, <4>2, <4>4
    <3>. QED BY <3>1, <3>2
  <2>. QED BY <1>3, <2>4, <2>5
<1>. QED BY <1>4, <1>5

(* Behind a string comes the next one, or the end of the translation.       *)
LEMMA NextString ==
  ASSUME catalog.lengths \in Seq(Nat) \ {<<>>}, NEW i \in 1..Strings
  PROVE  IF i < Strings
         THEN AfterNul(StartOf[i]) = StartOf[i + 1] /\ ~PastEnd(StartOf[i + 1])
         ELSE AfterNul(StartOf[i]) = translation_len /\ PastEnd(translation_len)
<1>. DEFINE l == catalog.lengths
            n == Strings
            q == StartOf[i]
            After(r) == r > q /\ \A s \in Starts : s > q => r <= s
<1>1. n \in Nat /\ n >= 1 /\ DOMAIN l = 1..n /\ l[n] \in Nat BY DEF Strings
<1>2. Starts = {StartOf[k] : k \in 1..n} BY <1>1 DEF Starts
<1>3. translation_len = StartOf[n] + l[n] + 1 BY DEF translation_len, Strings
<1>4. /\ \A k \in 1..n : StartOf[k] \in Nat
      /\ \A k, j \in 1..n : k < j => StartOf[k] < StartOf[j]
  BY StartsAscend
<1>. HIDE DEF n, l
<1>5. translation_len \in Nat /\ \A k \in 1..n : StartOf[k] < translation_len
  <2>1. n \in 1..n BY <1>1
  <2>2. ASSUME NEW k \in 1..n PROVE StartOf[k] <= StartOf[n]
    <3>1. k = n \/ k < n BY <1>1
    <3>. QED BY <1>4, <2>1, <3>1
  <2>. QED BY <1>1, <1>3, <1>4, <2>1, <2>2
<1>6. AfterNul(q) = CHOOSE r \in (Starts \cup {translation_len}) : After(r) BY DEF AfterNul
<1>7. i \in 1..n BY DEF n
<1>8. CASE i < n
  <2>1. i + 1 \in 1..n /\ i < i + 1 BY <1>1, <1>7, <1>8
  <2>2. q < StartOf[i + 1] /\ StartOf[i + 1] \in Starts BY <1>2, <1>4, <1>7, <2>1
  <2>3. ASSUME NEW k \in 1..n, StartOf[k] > q PROVE StartOf[i + 1] <= StartOf[k]
    <3>1. ~(k < i) /\ k # i BY <1>4, <1>7, <2>3
    <3>2. k = i + 1 \/ i + 1 < k BY <1>1, <1>7, <3>1
    <3>. QED BY <1>4, <2>1, <3>2
  <2>4. After(StartOf[i + 1]) BY <1>2, <1>4, <1>7, <2>1, <2>2, <2>3
  <2>5. ASSUME NEW r \in Starts \cup {translation_len}, After(r) PROVE r = StartOf[i + 1]
    <3>1. r <= StartOf[i + 1] BY <1>4, <1>7, <2>1, <2>2, <2>5
    <3>2. CASE r \in Starts
      <4>1. PICK k \in 1..n : r = StartOf[k] BY <1>2, <3>2
      <4>2. StartOf[i + 1] <= r BY <2>3, <2>5, <4>1
      <4>. QED BY <1>4, <2>1, <3>1, <4>1, <4>2
    <3>3. CASE r = translation_len BY <1>4, <1>5, <2>1, <3>1, <3>3
    <3>. QED BY <2>5, <3>2, <3>3
  <2>6. AfterNul(q) = StartOf[i + 1]
    <3>. HIDE DEF After
    <3>. QED BY <1>6, <2>2, <2>4, <2>5
  <2>7. ~PastEnd(StartOf[i + 1]) BY <1>4, <1>5, <2>1 DEF PastEnd
  <2>. QED BY <1>8, <2>6, <2>7 DEF n
<1>9. CASE ~(i < n)
  <2>1. i = n BY <1>1, <1>7, <1>9
  <2>2. ASSUME NEW s \in Starts, s > q PROVE FALSE
    <3>1. PICK k \in 1..n : s = StartOf[k] BY <1>2
    <3>2. k = n \/ k < n BY <1>1
    <3>. QED BY <1>4, <1>7, <2>1, <2>2, <3>1, <3>2
  <2>3. After(translation_len) BY <1>5, <1>7, <2>2
  <2>4. ASSUME NEW r \in Starts \cup {translation_len}, After(r) PROVE r = translation_len
    BY <2>2, <2>4
  <2>5. AfterNul(q) = translation_len
    <3>. HIDE DEF After
    <3>. QED BY <1>6, <2>3, <2>4
  <2>6. PastEnd(translation_len) BY <1>5 DEF PastEnd
  <2>. QED BY <1>9, <2>5, <2>6 DEF n
<1>. QED BY <1>8, <1>9

-----------------------------------------------------------------------------
(* The selection of a form.                                                 *)

Checked(m) == ~Refused(Value_(m))

(* Whether the value of the formula is that which decides on the form.      *)
Decides == accepted /\ plnum <= CheckLimit /\ Strings = catalog.nplurals

PluralPoints == {"check", "ready", "skip", "answer", "killed"}

(* What msgfmt has tried so far is in range; and in plural_lookup the string *)
(* reached and the number of those still to skip make up the value.         *)
PluralInv ==
  /\ catalog \in FormulaInputs /\ plpc \in PluralPoints
  /\ plpc = "check" =>
       ~accepted /\ plnum \in 0..(CheckLimit + 1) /\ \A m \in 0..(plnum - 1) : Checked(m)
  /\ accepted => \A m \in 0..CheckLimit : Checked(m)
  /\ plpc \in {"skip", "answer", "killed"} => plnum \in Numbers
  /\ plpc = "skip" =>
       \E i \in 1..Strings :
         /\ plptr = StartOf[i] /\ skipped \in Nat
         /\ Decides => i + skipped = Value_(plnum) + 1
  /\ plpc = "answer" =>
       \E i \in 1..Strings : plptr = StartOf[i] /\ (Decides => i = Value_(plnum) + 1)
  /\ plpc = "killed" => Value_(plnum) = SIGFPE

LEMMA InputKinds ==
  ASSUME catalog \in FormulaInputs
  PROVE  /\ catalog.nplurals \in Nat /\ catalog.lengths \in Seq(Nat) \ {<<>>}
         /\ Strings \in Nat /\ Strings >= 1 /\ CheckLimit \in Nat /\ Numbers \subseteq Nat
         /\ \A m \in Numbers \cup 0..CheckLimit : Value_(m) \in 0..(Word - 1) \cup {SIGFPE}
<1>1. catalog.nplurals \in Nat /\ catalog.lengths \in Seq(Nat) \ {<<>>} BY PluralAssumption
<1>2. Strings \in Nat /\ Strings >= 1 BY <1>1 DEF Strings
<1>3. CheckLimit \in Nat /\ Numbers \subseteq Nat
  <2>1. Word \in Nat /\ CheckLimit \in 0..((Word \div 2) - 1) /\ Numbers \subseteq 0..(Word - 1)
    BY PluralAssumption
  <2>. QED BY <2>1
<1>4. \A m \in Numbers \cup 0..CheckLimit : Value_(m) \in 0..(Word - 1) \cup {SIGFPE}
  BY PluralAssumption DEF Value_
<1>. QED BY <1>1, <1>2, <1>3, <1>4

LEMMA CatalogKept ==
  ASSUME UNCHANGED catalog
  PROVE  /\ \A m : Value_(m)' = Value_(m)
         /\ \A m : Checked(m)' <=> Checked(m)
         /\ StartOf' = StartOf /\ Strings' = Strings
<1>1. \A m : Value_(m)' = Value_(m) BY DEF Value_
<1>2. \A m : Checked(m)' <=> Checked(m) BY <1>1 DEF Checked, Refused
<1>3. StartOf' = StartOf BY DEF StartOf
<1>4. Strings' = Strings BY DEF Strings
<1>. QED BY <1>1, <1>2, <1>3, <1>4

LEMMA FirstString ==
  ASSUME catalog \in FormulaInputs
  PROVE  1 \in 1..Strings /\ StartOf[1] = 0
BY InputKinds, StartsDefined DEF Offsets

LEMMA PluralStep == PluralInv /\ [PluralNext]_pluralvars => PluralInv'
<1>. SUFFICES ASSUME PluralInv, [PluralNext]_pluralvars PROVE PluralInv'
  OBVIOUS
<1>. USE DEF PluralInv, PluralPoints
<1>0. UNCHANGED catalog
  BY DEF PluralNext, Try, Accept, PluralLookup, SkipString, EndSkip, PluralReturn, pluralvars
<1>a. /\ \A m : Value_(m)' = Value_(m)
      /\ \A m : Checked(m)' <=> Checked(m)
      /\ StartOf' = StartOf /\ Strings' = Strings
  BY <1>0, CatalogKept
<1>k. /\ catalog.nplurals \in Nat
      /\ Strings \in Nat /\ Strings >= 1 /\ CheckLimit \in Nat /\ Numbers \subseteq Nat
      /\ \A m \in Numbers \cup 0..CheckLimit : Value_(m) \in 0..(Word - 1) \cup {SIGFPE}
  BY InputKinds
<1>1. CASE Try
  <2>1. plpc = "check" /\ plnum <= CheckLimit /\ UNCHANGED <<accepted, skipped, plptr>>
    BY <1>1 DEF Try
  <2>2. CASE Refused(Value_(plnum))
    <3>1. plpc' = "ready" BY <1>1, <2>2 DEF Try
    <3>. QED BY <1>0, <1>a, <2>1, <3>1
  <2>3. CASE ~Refused(Value_(plnum))
    <3>1. plpc' = "check" /\ plnum' = plnum + 1 BY <1>1, <2>1, <2>3 DEF Try
    <3>2. plnum' \in 0..(CheckLimit + 1) BY <1>k, <2>1, <3>1
    <3>3. ASSUME NEW m \in 0..(plnum' - 1) PROVE Checked(m)
      <4>1. m = plnum \/ m \in 0..(plnum - 1) BY <1>k, <2>1, <3>1
      <4>. QED BY <2>1, <2>3, <4>1 DEF Checked
    <3>. QED BY <1>0, <1>a, <2>1, <3>1, <3>2, <3>3
  <2>. QED BY <2>2, <2>3
<1>2. CASE Accept
  <2>1. /\ plpc = "check" /\ plnum > CheckLimit /\ plpc' = "ready"
    BY <1>2 DEF Accept
  <2>2. \A m \in 0..CheckLimit : Checked(m) BY <1>k, <2>1
  <2>. QED BY <1>0, <1>a, <2>1, <2>2
<1>3. ASSUME NEW m \in Numbers, PluralLookup(m) PROVE PluralInv'
  <2>1. plnum' = m /\ plptr' = 0 /\ UNCHANGED accepted BY <1>3 DEF PluralLookup
  <2>2. CASE Value_(m) = SIGFPE /\ plpc' = "killed" BY <1>0, <1>a, <2>1, <2>2, <1>3 DEF PluralLookup
  <2>3. CASE /\ Value_(m) # SIGFPE /\ plpc' = "skip"
             /\ skipped' = IF Value_(m) >= catalog.nplurals THEN 0 ELSE Value_(m)
    <3>1. Value_(m) \in Nat BY <1>k, <2>3, PluralAssumption
    <3>2. 1 \in 1..Strings /\ plptr' = StartOf[1] BY <2>1, FirstString
    <3>3. skipped' \in Nat BY <2>3, <3>1
    <3>4. ASSUME Decides' PROVE 1 + skipped' = Value_(m) + 1
      <4>1. accepted /\ m <= CheckLimit BY <2>1, <3>4 DEF Decides
      <4>2. m \in 0..CheckLimit BY <1>3, <1>k, <4>1
      <4>3. Checked(m) BY <4>1, <4>2
      <4>4. ~(Value_(m) >= catalog.nplurals) BY <4>3 DEF Checked, Refused
      <4>. QED BY <2>3, <3>1, <4>4
    <3>5. accepted' => \A k \in 0..CheckLimit : Checked(k)' BY <1>a, <2>1
    <3>6. \E i \in 1..Strings' :
            /\ plptr' = StartOf'[i] /\ skipped' \in Nat
            /\ Decides' => i + skipped' = Value_(plnum)' + 1
      <4>1. Value_(plnum)' = Value_(m) BY <1>a, <1>0, <2>1 DEF Value_
      <4>. QED BY <1>a, <3>2, <3>3, <3>4, <4>1
    <3>. QED BY <1>0, <2>1, <2>3, <3>5, <3>6
  <2>. QED BY <1>3, <2>2, <2>3 DEF PluralLookup
<1>4. CASE SkipString
  <2>1. plpc = "skip" /\ skipped > 0 /\ UNCHANGED <<accepted, plnum>> BY <1>4 DEF SkipString
  <2>2. PICK i \in 1..Strings : /\ plptr = StartOf[i] /\ skipped \in Nat
                                /\ Decides => i + skipped = Value_(plnum) + 1
    BY <2>1
  <2>3. Decides' <=> Decides BY <1>0, <1>a, <2>1 DEF Decides
  <2>4. Value_(plnum)' = Value_(plnum) BY <1>0, <2>1 DEF Value_
  <2>5. accepted' => \A k \in 0..CheckLimit : Checked(k)' BY <1>a, <2>1
  <2>6. catalog.lengths \in Seq(Nat) \ {<<>>} BY InputKinds
  <2>7. CASE i < Strings
    <3>1. AfterNul(plptr) = StartOf[i + 1] /\ ~PastEnd(AfterNul(plptr))
      BY <2>2, <2>6, <2>7, NextString
    <3>2. plptr' = StartOf[i + 1] /\ skipped' = skipped - 1 /\ plpc' = "skip"
      BY <1>4, <2>1, <3>1 DEF SkipString
    <3>3. i + 1 \in 1..Strings /\ skipped' \in Nat /\ (i + 1) + skipped' = i + skipped
      BY <1>k, <2>1, <2>2, <2>7, <3>2
    <3>4. \E j \in 1..Strings' :
            /\ plptr' = StartOf'[j] /\ skipped' \in Nat
            /\ Decides' => j + skipped' = Value_(plnum)' + 1
      BY <1>a, <2>2, <2>3, <2>4, <3>2, <3>3
    <3>. QED BY <1>0, <2>1, <2>5, <3>2, <3>4
  <2>8. CASE ~(i < Strings)
    <3>1. PastEnd(AfterNul(plptr)) BY <2>2, <2>6, <2>8, NextString
    <3>2. plptr' = 0 /\ plpc' = "answer" BY <1>4, <3>1 DEF SkipString
    <3>3. ~Decides
      <4>1. SUFFICES ASSUME Decides PROVE FALSE OBVIOUS
      <4>2. i + skipped = Value_(plnum) + 1 BY <2>2, <4>1
      <4>3. plnum \in 0..CheckLimit
        <5>1. plnum \in Numbers BY <2>1
        <5>. QED BY <4>1, <5>1, <1>k DEF Decides
      <4>4. Checked(plnum) BY <4>1, <4>3 DEF Decides
      <4>5. Value_(plnum) \in Nat BY <1>k, <4>3, <4>4, PluralAssumption DEF Checked, Refused
      <4>6. ~(Value_(plnum) >= catalog.nplurals) BY <4>4 DEF Checked, Refused
      <4>7. Strings = catalog.nplurals BY <4>1 DEF Decides
      <4>. QED BY <1>k, <2>1, <2>2, <2>8, <4>2, <4>5, <4>6, <4>7
    <3>4. \E j \in 1..Strings' : plptr' = StartOf'[j] /\ (Decides' => j = Value_(plnum)' + 1)
      BY <1>a, <2>3, <3>2, <3>3, FirstString
    <3>. QED BY <1>0, <2>1, <2>5, <3>2, <3>4
  <2>. QED BY <2>7, <2>8
<1>5. CASE EndSkip
  <2>1. /\ plpc = "skip" /\ skipped = 0 /\ plpc' = "answer"
        /\ UNCHANGED <<accepted, plnum, skipped, plptr>>
    BY <1>5 DEF EndSkip
  <2>2. PICK i \in 1..Strings : plptr = StartOf[i] /\ (Decides => i + skipped = Value_(plnum) + 1)
    BY <2>1
  <2>3. Decides' <=> Decides BY <1>0, <1>a, <2>1 DEF Decides
  <2>4. Value_(plnum)' = Value_(plnum) BY <1>0, <2>1 DEF Value_
  <2>5. accepted' => \A k \in 0..CheckLimit : Checked(k)' BY <1>a, <2>1
  <2>6. i + skipped = i BY <2>1, <2>2
  <2>7. \E j \in 1..Strings' : plptr' = StartOf'[j] /\ (Decides' => j = Value_(plnum)' + 1)
    BY <1>a, <2>1, <2>2, <2>3, <2>4, <2>6
  <2>. QED BY <1>0, <2>1, <2>5, <2>7
<1>6. CASE PluralReturn BY <1>0, <1>a, <1>6 DEF PluralReturn
<1>7. CASE UNCHANGED pluralvars
  <2>1. UNCHANGED <<plpc, accepted, plnum, skipped, plptr>> BY <1>7 DEF pluralvars
  <2>2. Decides' <=> Decides BY <1>0, <1>a, <2>1 DEF Decides
  <2>3. Value_(plnum)' = Value_(plnum) BY <1>0, <2>1 DEF Value_
  <2>. QED BY <1>0, <1>a, <2>1, <2>2, <2>3
<1>. QED BY <1>1, <1>2, <1>3, <1>4, <1>5, <1>6, <1>7 DEF PluralNext

LEMMA PluralFirst == PluralInit => PluralInv
BY PluralAssumption DEF PluralInit, PluralInv, PluralPoints

(* What msgfmt -c has accepted and what plural_lookup has skipped so far,   *)
(* add up to the value of the formula.                                      *)
THEOREM PluralInvariant == PluralSpec => []PluralInv
BY PluralFirst, PluralStep, PTL DEF PluralSpec

(* FormSelected: for any formula, any number of strings, of any lengths,    *)
(* and any number, plural_lookup returns one of the strings; in a catalog   *)
(* that msgfmt -c has accepted, for the numbers it has tried, that which    *)
(* the formula selects.                                                     *)
THEOREM FormIsSelected == PluralSpec => []FormSelected
<1>1. PluralInv => FormSelected
  <2>. SUFFICES ASSUME PluralInv PROVE FormSelected
    OBVIOUS
  <2>. USE DEF PluralInv
  <2>0. DOMAIN catalog.lengths = 1..Strings BY InputKinds DEF Strings
  <2>1. plpc = "answer" => plptr \in Starts BY <2>0 DEF Starts
  <2>2. ASSUME accepted, plnum <= CheckLimit, Strings = catalog.nplurals
        PROVE  /\ plpc # "killed"
               /\ plpc = "answer" => plptr = StartOf[Value_(plnum) + 1]
    <3>1. Decides BY <2>2 DEF Decides
    <3>2. ASSUME plpc = "killed" PROVE FALSE
      <4>1. plnum \in 0..CheckLimit BY <2>2, <3>2, InputKinds
      <4>2. Checked(plnum) BY <2>2, <4>1
      <4>. QED BY <3>2, <4>2 DEF Checked, Refused
    <3>. QED BY <3>1, <3>2
  <2>. QED BY <2>1, <2>2 DEF FormSelected, Strings
<1>. QED BY <1>1, PluralInvariant, PTL

-----------------------------------------------------------------------------
(* The list of catalogs: sets that are ordered by numbers.                  *)

(* The ranks of a finite set that is ordered by numbers.                   *)
Ahead(S, v, x) == {y \in S : v[y] > v[x]}
Preceding(T, P, x) == {t \in T : <<t, x>> \in P}

LEMMA Ranking ==
  ASSUME NEW S, IsFiniteSet(S), NEW v \in [S -> Nat],
         \A x, y \in S : v[x] = v[y] => x = y
  PROVE  /\ Cardinality(S) \in Nat
         /\ \A x, y \in S : Cardinality(Ahead(S, v, x)) = Cardinality(Ahead(S, v, y)) => x = y
         /\ \A i \in 1..Cardinality(S) : \E x \in S : Cardinality(Ahead(S, v, x)) = i - 1
<1>. DEFINE c == Cardinality(S)
            r == [x \in S |-> Cardinality(Ahead(S, v, x)) + 1]
<1>1. c \in Nat BY FS_CardinalityType
<1>2. ASSUME NEW x \in S
      PROVE  /\ IsFiniteSet(Ahead(S, v, x)) /\ Cardinality(Ahead(S, v, x)) \in Nat
             /\ Cardinality(Ahead(S, v, x)) + 1 <= c
  <2>1. v[x] \in Nat OBVIOUS
  <2>2. Ahead(S, v, x) \in SUBSET S /\ x \notin Ahead(S, v, x) BY <2>1 DEF Ahead
  <2>3. IsFiniteSet(Ahead(S, v, x)) /\ Cardinality(Ahead(S, v, x)) <= c
        /\ Cardinality(Ahead(S, v, x)) # c
    BY <2>2, FS_Subset
  <2>4. Cardinality(Ahead(S, v, x)) \in Nat BY <2>3, FS_CardinalityType
  <2>. QED BY <1>1, <2>3, <2>4
<1>3. ASSUME NEW x \in S, NEW y \in S, v[x] > v[y]
      PROVE  Cardinality(Ahead(S, v, x)) < Cardinality(Ahead(S, v, y))
  <2>1. v[x] \in Nat /\ v[y] \in Nat /\ \A z \in S : v[z] \in Nat OBVIOUS
  <2>2. \A z \in S : v[z] > v[x] => v[z] > v[y] BY <1>3, <2>1
  <2>3. Ahead(S, v, x) \in SUBSET Ahead(S, v, y) BY <2>2, Zenon DEF Ahead
  <2>4. x \in Ahead(S, v, y) /\ x \notin Ahead(S, v, x) BY <1>3, <2>1 DEF Ahead
  <2>5. /\ Cardinality(Ahead(S, v, x)) <= Cardinality(Ahead(S, v, y))
        /\ Cardinality(Ahead(S, v, x)) # Cardinality(Ahead(S, v, y))
    BY <1>2, <2>3, <2>4, FS_Subset
  <2>. QED BY <1>2, <2>5
<1>4. ASSUME NEW x \in S, NEW y \in S, Cardinality(Ahead(S, v, x)) = Cardinality(Ahead(S, v, y))
      PROVE  x = y
  <2>1. v[x] \in Nat /\ v[y] \in Nat OBVIOUS
  <2>2. ~(v[x] > v[y]) /\ ~(v[y] > v[x]) BY <1>2, <1>3, <1>4
  <2>. QED BY <2>1, <2>2
<1>5. r \in [S -> 1..c] BY <1>1, <1>2
<1>6. \A x, y \in S : r[x] = r[y] => x = y BY <1>2, <1>4
<1>7. r \in Injection(S, 1..c) BY <1>5, <1>6, Zenon DEF Injection, IsInjective
<1>8. IsFiniteSet(1..c) /\ Cardinality(1..c) = c
  <2>1. 0 \in Int /\ 1 \in Int /\ c \in Int BY <1>1
  <2>2. IsFiniteSet(1..c) /\ Cardinality(1..c) = IF 1 > c THEN 0 ELSE c - 1 + 1
    BY <2>1, FS_Interval
  <2>. QED BY <1>1, <2>2
<1>9. r \in Surjection(S, 1..c) BY <1>7, <1>8, FS_Injection
<1>10. ASSUME NEW i \in 1..c PROVE \E x \in S : Cardinality(Ahead(S, v, x)) = i - 1
  <2>1. PICK x \in S : r[x] = i BY <1>9, Zenon DEF Surjection
  <2>. QED BY <1>1, <1>2, <2>1
<1>. QED BY <1>1, <1>4, <1>10

(* Sets that are ordered in the same way have the same order.              *)
OrderedAlike(S, v, T, h, P) ==
  /\ IsFiniteSet(S) /\ v \in [S -> Nat] /\ \A x, y \in S : v[x] = v[y] => x = y
  /\ h \in [S -> T] /\ (\A t \in T : \E x \in S : h[x] = t)
  /\ \A x, y \in S : h[x] = h[y] => x = y
  /\ P \in SUBSET (T \X T) /\ \A x, y \in S : <<h[x], h[y]>> \in P <=> v[x] > v[y]

RankedAlike(S, v, T, h, P) ==
  /\ IsFiniteSet(T) /\ Cardinality(T) = Cardinality(S)
  /\ \A x \in S : Cardinality(Preceding(T, P, h[x])) = Cardinality(Ahead(S, v, x))

LEMMA SameOrder ==
  ASSUME NEW S, NEW v, NEW T, NEW h, NEW P, OrderedAlike(S, v, T, h, P)
  PROVE  RankedAlike(S, v, T, h, P)
<1>. USE DEF OrderedAlike, RankedAlike
<1>1. h \in Bijection(S, T) BY Zenon DEF Bijection, Injection, Surjection, IsInjective
<1>2. IsFiniteSet(T) /\ Cardinality(T) = Cardinality(S)
  BY <1>1, FS_Bijection, Zenon DEF ExistsBijection
<1>3. ASSUME NEW x \in S
      PROVE  Cardinality(Preceding(T, P, h[x])) = Cardinality(Ahead(S, v, x))
  <2>. DEFINE A == Ahead(S, v, x)
              B == Preceding(T, P, h[x])
              g == [y \in A |-> h[y]]
  <2>1. A \in SUBSET S BY DEF Ahead
  <2>2. IsFiniteSet(A) BY <2>1, FS_Subset
  <2>3. \A y \in S : y \in A <=> h[y] \in B BY DEF Ahead, Preceding
  <2>. HIDE DEF A, B
  <2>4. g \in [A -> B] BY <2>1, <2>3
  <2>5. \A y, z \in A : g[y] = g[z] => y = z BY <2>1
  <2>6. \A t \in B : \E y \in A : g[y] = t
    <3>. SUFFICES ASSUME NEW t \in B PROVE \E y \in A : g[y] = t
      OBVIOUS
    <3>1. t \in T BY DEF B, Preceding
    <3>2. PICK y \in S : h[y] = t BY <3>1
    <3>. QED BY <2>3, <3>2
  <2>7. g \in Bijection(A, B)
    BY <2>4, <2>5, <2>6, Zenon DEF Bijection, Injection, Surjection, IsInjective
  <2>8. Cardinality(B) = Cardinality(A) BY <2>2, <2>7, FS_Bijection, Zenon DEF ExistsBijection
  <2>. QED BY <2>8 DEF A, B
<1>. QED BY <1>2, <1>3

(* The masks.                                                              *)
Dominated(mask) == {m \in SUBSET mask : m # mask /\ ~ {"codeset", "norm_codeset"} \subseteq m}

LEMMA MaskFacts ==
  ASSUME NEW mask \in SUBSET Parts
  PROVE  /\ IsFiniteSet(mask) /\ IsFiniteSet(Dominated(mask))
         /\ \A m \in SUBSET Parts : Value(m) \in Nat
         /\ \A m, n \in SUBSET Parts : Value(m) = Value(n) => m = n
<1>1. IsFiniteSet(Parts)
  <2>1. Parts = {"modifier"} \cup {"territory"} \cup {"codeset"} \cup {"norm_codeset"} BY DEF Parts
  <2>. QED BY <2>1, FS_Singleton, FS_Union
<1>2. IsFiniteSet(mask) BY <1>1, FS_Subset
<1>3. IsFiniteSet(SUBSET mask) BY <1>2, FS_SUBSET
<1>4. IsFiniteSet(Dominated(mask)) BY <1>3, FS_Subset DEF Dominated
<1>5. \A m \in SUBSET Parts : Value(m) \in Nat BY DEF Value
<1>6. ASSUME NEW m \in SUBSET Parts, NEW n \in SUBSET Parts, Value(m) = Value(n)
      PROVE  m = n
  <2>1. \A p \in Parts : p \in m <=> p \in n BY <1>6 DEF Value, Parts
  <2>. QED BY <2>1
<1>. QED BY <1>2, <1>4, <1>5, <1>6

LEMMA BelowFacts ==
  ASSUME NEW mask \in SUBSET Parts
  PROVE  /\ Cardinality(Dominated(mask)) \in Nat
         /\ Below[mask] \in Seq(Dominated(mask))
         /\ Len(Below[mask]) = Cardinality(Dominated(mask))
         /\ \A i \in 1..Len(Below[mask]) :
              /\ Below[mask][i] \in Dominated(mask)
              /\ Cardinality({m \in Dominated(mask) : Value(m) > Value(Below[mask][i])}) = i - 1
<1>. DEFINE S == Dominated(mask)
            v == [m \in S |-> Value(m)]
            c == Cardinality(S)
<1>1. S \in SUBSET (SUBSET Parts) BY DEF Dominated
<1>2. v \in [S -> Nat] BY <1>1, MaskFacts
<1>3. \A x, y \in S : v[x] = v[y] => x = y BY <1>1, MaskFacts
<1>4. IsFiniteSet(S) BY MaskFacts
<1>5. \A x \in S : Ahead(S, v, x) = {m \in S : Value(m) > Value(x)} BY DEF Ahead
<1>6. Below[mask] = [i \in 1..c |-> CHOOSE x \in S : Cardinality({m \in S : Value(m) > Value(x)}) = i - 1]
  BY DEF Below, Ordered, Higher, Dominated
<1>7. c \in Nat BY <1>4, FS_CardinalityType
<1>8. ASSUME NEW i \in 1..c
      PROVE  Below[mask][i] \in S /\ Cardinality({m \in S : Value(m) > Value(Below[mask][i])}) = i - 1
  <2>1. \E x \in S : Cardinality(Ahead(S, v, x)) = i - 1 BY <1>2, <1>3, <1>4, Ranking
  <2>2. \E x \in S : Cardinality({m \in S : Value(m) > Value(x)}) = i - 1 BY <1>5, <2>1
  <2>3. Below[mask][i] = CHOOSE x \in S : Cardinality({m \in S : Value(m) > Value(x)}) = i - 1
    BY <1>6
  <2>. HIDE DEF S
  <2>. QED BY <2>2, <2>3
<1>. HIDE DEF S, c
<1>9. Below[mask] \in Seq(S) /\ Len(Below[mask]) = c
  <2>1. PICK b : b = Below[mask] OBVIOUS
  <2>2. b = [i \in 1..c |-> b[i]] BY <1>6, <2>1
  <2>3. \A i \in 1..c : b[i] \in S BY <1>8, <2>1
  <2>4. b \in [1..c -> S] BY <2>2, <2>3
  <2>5. b \in Seq(S) /\ Len(b) = c BY <1>7, <2>4
  <2>. QED BY <2>1, <2>5
<1>. QED BY <1>7, <1>8, <1>9 DEF S, c

(* The parts of a name, and the files that they give.                      *)
LEMMA NameFacts ==
  ASSUME NEW n \in LocaleNames
  PROVE  /\ n.language # L10nNull
         /\ Explode(n) \in SUBSET Parts
         /\ "modifier" \in Explode(n) <=> n.modifier # L10nNull
         /\ "territory" \in Explode(n) <=> n.territory # L10nNull
         /\ "codeset" \in Explode(n) <=> n.codeset # L10nNull
         /\ "norm_codeset" \in Explode(n) <=>
              n.codeset # L10nNull /\ Normalized[n.codeset] # n.codeset
         /\ n.codeset # L10nNull =>
              /\ n.codeset \in DOMAIN Normalized /\ Normalized[n.codeset] \in DOMAIN Normalized
              /\ Normalized[Normalized[n.codeset]] = Normalized[n.codeset]
<1>1. /\ n = [language |-> n.language, territory |-> n.territory,
              codeset |-> n.codeset, modifier |-> n.modifier]
      /\ n.language # L10nNull
      /\ n.codeset # L10nNull => n.codeset \in DOMAIN Normalized
  BY L10nAssumption
<1>2. n["modifier"] = n.modifier /\ n["territory"] = n.territory /\ n["codeset"] = n.codeset
  OBVIOUS
<1>. QED BY <1>1, <1>2, L10nAssumption DEF Explode, Parts

LEMMA Pairs ==
  ASSUME NEW c, NEW d, NEW C \in SUBSET {c, d}
  PROVE  IsFiniteSet(C) /\ (Cardinality(C) < 2 <=> c = d \/ C # {c, d})
<1>1. CASE C = {}
  <2>1. IsFiniteSet(C) /\ Cardinality(C) = 0 BY <1>1, FS_EmptySet
  <2>. QED BY <1>1, <2>1
<1>2. CASE \E x : C = {x}
  <2>1. PICK x : C = {x} BY <1>2
  <2>2. IsFiniteSet(C) /\ Cardinality(C) = 1 BY <2>1, FS_Singleton
  <2>. QED BY <2>1, <2>2
<1>3. CASE C = {c, d} /\ c # d
  <2>1. IsFiniteSet({c}) /\ Cardinality({c}) = 1 BY FS_Singleton
  <2>2. C = {c} \cup {d} /\ d \notin {c} BY <1>3
  <2>3. IsFiniteSet(C) /\ Cardinality(C) = 1 + 1 BY <2>1, <2>2, FS_AddElement
  <2>. QED BY <1>3, <2>3
<1>4. C = {} \/ (\E x : C = {x}) \/ (C = {c, d} /\ c # d) BY Zenon
<1>. QED BY <1>1, <1>2, <1>3, <1>4

Codes(n, m) ==
  (IF "codeset" \in m THEN {n.codeset} ELSE {})
    \cup (IF "norm_codeset" \in m THEN {Normalized[n.codeset]} ELSE {})

LEMMA FileFacts ==
  ASSUME NEW n, NEW m
  PROVE  /\ Filename(n, m).language = n.language
         /\ Filename(n, m).territory = IF "territory" \in m THEN n.territory ELSE L10nNull
         /\ Filename(n, m).modifier = IF "modifier" \in m THEN n.modifier ELSE L10nNull
         /\ Filename(n, m).codesets = Codes(n, m)
BY DEF Filename, Codes

(* What the parts of a mask below give are the generalizations of a file.  *)
LEMMA Generalized ==
  ASSUME NEW n \in LocaleNames, NEW mask \in SUBSET Explode(n)
  PROVE  /\ mask \in SUBSET Parts
         /\ \A m \in Dominated(mask) : Filename(n, m) \in Generalizations(Filename(n, mask))
         /\ \A g \in Generalizations(Filename(n, mask)) :
              \E m \in Dominated(mask) : g = Filename(n, m)
<1>. DEFINE c == n.codeset
            d == Normalized[n.codeset]
            f == Filename(n, mask)
<1>1. mask \in SUBSET Parts BY NameFacts
<1>2. "norm_codeset" \in mask => c # d BY NameFacts
<1>3. ASSUME NEW m \in Dominated(mask) PROVE Filename(n, m) \in Generalizations(f)
  <2>. DEFINE g == Filename(n, m)
  <2>1. m \in SUBSET mask /\ m # mask /\ ~({"codeset", "norm_codeset"} \subseteq m) BY DEF Dominated
  <2>2. Codes(n, m) \in SUBSET Codes(n, mask) BY <2>1 DEF Codes
  <2>3. Codes(n, m) = {} \/ \E x : Codes(n, m) = {x} BY <2>1 DEF Codes
  <2>4. Cardinality(Codes(n, m)) < 2
    <3>1. Cardinality(Codes(n, m)) = 0 \/ Cardinality(Codes(n, m)) = 1
      BY <2>3, FS_EmptySet, FS_Singleton
    <3>. QED BY <3>1
  <2>5. PICK p \in Parts : p \in mask /\ p \notin m BY <1>1, <2>1
  <2>6. g # f
    <3>1. CASE p = "modifier" BY <2>5, <3>1, NameFacts, FileFacts
    <3>2. CASE p = "territory" BY <2>5, <3>2, NameFacts, FileFacts
    <3>3. CASE p = "codeset"
      <4>1. c \in Codes(n, mask) BY <2>5, <3>3 DEF Codes
      <4>2. c \notin Codes(n, m) BY <1>2, <2>1, <2>5, <3>3 DEF Codes
      <4>. QED BY <4>1, <4>2, FileFacts
    <3>4. CASE p = "norm_codeset"
      <4>1. d \in Codes(n, mask) BY <2>5, <3>4 DEF Codes
      <4>2. d \notin Codes(n, m) BY <1>2, <2>1, <2>5, <3>4 DEF Codes
      <4>. QED BY <4>1, <4>2, FileFacts
    <3>. QED BY <2>5, <3>1, <3>2, <3>3, <3>4 DEF Parts
  <2>7. /\ g.language \in {f.language} /\ g.territory \in {f.territory, L10nNull}
        /\ g.modifier \in {f.modifier, L10nNull}
        /\ g.codesets \in {C \in SUBSET f.codesets : Cardinality(C) < 2}
    BY <2>1, <2>2, <2>4, FileFacts
  <2>8. g = [language |-> g.language, territory |-> g.territory,
             codesets |-> g.codesets, modifier |-> g.modifier]
    BY DEF Filename
  <2>. HIDE DEF g, f
  <2>9. g \in [language : {f.language}, territory : {f.territory, L10nNull},
               modifier : {f.modifier, L10nNull},
               codesets : {C \in SUBSET f.codesets : Cardinality(C) < 2}]
    BY <2>7, <2>8
  <2>. QED BY <2>6, <2>9 DEF g, f, Generalizations
<1>4. ASSUME NEW g \in Generalizations(f) PROVE \E m \in Dominated(mask) : g = Filename(n, m)
  <2>1. /\ g \in [language : {f.language}, territory : {f.territory, L10nNull},
                  modifier : {f.modifier, L10nNull},
                  codesets : {C \in SUBSET f.codesets : Cardinality(C) < 2}]
        /\ g # f
    BY DEF Generalizations
  <2>. DEFINE m == {p \in mask :
                      \/ p = "modifier" /\ g.modifier # L10nNull
                      \/ p = "territory" /\ g.territory # L10nNull
                      \/ p = "codeset" /\ c \in g.codesets
                      \/ p = "norm_codeset" /\ d \in g.codesets}
  <2>2. /\ g.language = n.language
        /\ g.territory \in {f.territory, L10nNull} /\ g.modifier \in {f.modifier, L10nNull}
        /\ g.codesets \in SUBSET Codes(n, mask) /\ Cardinality(g.codesets) < 2
        /\ g = [language |-> g.language, territory |-> g.territory,
                codesets |-> g.codesets, modifier |-> g.modifier]
    BY <2>1, FileFacts
  <2>3. g.territory = IF "territory" \in m THEN n.territory ELSE L10nNull
    BY <2>2, FileFacts, NameFacts
  <2>4. g.modifier = IF "modifier" \in m THEN n.modifier ELSE L10nNull
    BY <2>2, FileFacts, NameFacts
  <2>5. ("codeset" \in m <=> "codeset" \in mask /\ c \in g.codesets)
        /\ ("norm_codeset" \in m <=> "norm_codeset" \in mask /\ d \in g.codesets)
    OBVIOUS
  <2>6. g.codesets = Codes(n, m)
    <3>1. ASSUME NEW x \in g.codesets PROVE x \in Codes(n, m)
      BY <2>2, <2>5 DEF Codes
    <3>2. ASSUME NEW x \in Codes(n, m) PROVE x \in g.codesets
      BY <2>5 DEF Codes
    <3>. QED BY <3>1, <3>2
  <2>7. m \in SUBSET mask OBVIOUS
  <2>. HIDE DEF m
  <2>8. g = Filename(n, m) BY <2>2, <2>3, <2>4, <2>6 DEF Filename, Codes
  <2>9. m # mask BY <2>1, <2>8
  <2>10. ~({"codeset", "norm_codeset"} \subseteq m)
    <3>. SUFFICES ASSUME "codeset" \in m, "norm_codeset" \in m PROVE FALSE
      OBVIOUS
    <3>1. c # d BY <1>2, <2>7
    <3>2. g.codesets = {c, d} BY <2>6 DEF Codes
    <3>3. ~(Cardinality({c, d}) < 2)
      <4>1. {c, d} \in SUBSET {c, d} OBVIOUS
      <4>. HIDE DEF c, d
      <4>. QED BY <3>1, <4>1, Pairs
    <3>. QED BY <2>2, <3>2, <3>3
  <2>. QED BY <2>7, <2>8, <2>9, <2>10 DEF Dominated
<1>. QED BY <1>1, <1>3, <1>4

(* The order of the masks is that of preference.                           *)
LEMMA PreferenceOrder ==
  ASSUME NEW n \in LocaleNames, NEW a \in SUBSET Explode(n), NEW b \in SUBSET Explode(n),
         ~({"codeset", "norm_codeset"} \subseteq a), ~({"codeset", "norm_codeset"} \subseteq b)
  PROVE  /\ Preferred(Filename(n, a), Filename(n, b)) <=> Value(a) > Value(b)
         /\ Filename(n, a) = Filename(n, b) => a = b
<1>. DEFINE c == n.codeset
            d == Normalized[n.codeset]
            f == Filename(n, a)
            g == Filename(n, b)
<1>1. a \in SUBSET Parts /\ b \in SUBSET Parts BY NameFacts
<1>2. /\ f.modifier # g.modifier <=> ("modifier" \in a <=> "modifier" \notin b)
      /\ g.modifier = L10nNull <=> "modifier" \notin b
      /\ f.territory # g.territory <=> ("territory" \in a <=> "territory" \notin b)
      /\ g.territory = L10nNull <=> "territory" \notin b
  BY FileFacts, NameFacts
<1>3. ASSUME NEW m \in {a, b}
      PROVE  /\ "codeset" \in m => Codes(n, m) = {c} /\ c \in DOMAIN Normalized
             /\ "norm_codeset" \in m => Codes(n, m) = {d} /\ c # d /\ d \in DOMAIN Normalized
                                         /\ Normalized[d] = d /\ c \in DOMAIN Normalized
             /\ "codeset" \notin m /\ "norm_codeset" \notin m => Codes(n, m) = {}
  BY NameFacts DEF Codes
<1>. DEFINE Pref == \/ g.codesets = {} /\ f.codesets # {}
                    \/ \E e \in DOMAIN Normalized :
                         f.codesets = {e} /\ Normalized[e] # e /\ g.codesets = {Normalized[e]}
            Val(m) == (IF "codeset" \in m THEN 2 ELSE 0) + (IF "norm_codeset" \in m THEN 1 ELSE 0)
<1>4. Pref <=> Val(a) > Val(b)
  <2>1. f.codesets = Codes(n, a) /\ g.codesets = Codes(n, b) BY FileFacts
  <2>2. CASE "codeset" \in a /\ "codeset" \in b
    <3>1. f.codesets = {c} /\ g.codesets = {c} BY <1>3, <2>1, <2>2
    <3>. QED BY <2>2, <3>1
  <2>3. CASE "codeset" \in a /\ "norm_codeset" \in b
    <3>1. f.codesets = {c} /\ g.codesets = {d} /\ c # d /\ c \in DOMAIN Normalized
      BY <1>3, <2>1, <2>3
    <3>. QED BY <2>3, <3>1
  <2>4. CASE "norm_codeset" \in a /\ "codeset" \in b
    <3>1. f.codesets = {d} /\ g.codesets = {c} /\ Normalized[d] = d BY <1>3, <2>1, <2>4
    <3>. QED BY <2>4, <3>1
  <2>5. CASE "norm_codeset" \in a /\ "norm_codeset" \in b
    <3>1. f.codesets = {d} /\ g.codesets = {d} BY <1>3, <2>1, <2>5
    <3>. QED BY <2>5, <3>1
  <2>6. CASE "codeset" \notin b /\ "norm_codeset" \notin b
    <3>1. g.codesets = {} BY <1>3, <2>1, <2>6
    <3>2. f.codesets # {} <=> "codeset" \in a \/ "norm_codeset" \in a BY <1>3, <2>1
    <3>. QED BY <2>6, <3>1, <3>2
  <2>7. CASE "codeset" \notin a /\ "norm_codeset" \notin a
    <3>1. f.codesets = {} BY <1>3, <2>1, <2>7
    <3>. QED BY <2>7, <3>1
  <2>. QED BY <2>2, <2>3, <2>4, <2>5, <2>6, <2>7
<1>5. Preferred(f, g) <=> IF f.modifier # g.modifier THEN g.modifier = L10nNull
                          ELSE IF f.territory # g.territory THEN g.territory = L10nNull
                          ELSE Pref
  BY Zenon DEF Preferred
<1>6. /\ Val(a) \in 0..3 /\ Val(b) \in 0..3
      /\ \A m \in SUBSET Parts : Value(m) = (IF "modifier" \in m THEN 8 ELSE 0)
                                + (IF "territory" \in m THEN 4 ELSE 0) + Val(m)
  BY DEF Value
<1>. HIDE DEF Pref, f, g, Val
<1>7. Preferred(f, g) <=> Value(a) > Value(b) BY <1>1, <1>2, <1>4, <1>5, <1>6
<1>8. f = g => a = b
  <2>. SUFFICES ASSUME f = g PROVE a = b
    OBVIOUS
  <2>1. ("modifier" \in a <=> "modifier" \in b) /\ ("territory" \in a <=> "territory" \in b)
    BY <1>2
  <2>2. Codes(n, a) = Codes(n, b) BY FileFacts DEF f, g
  <2>3. ("codeset" \in a <=> "codeset" \in b) /\ ("norm_codeset" \in a <=> "norm_codeset" \in b)
    BY <1>3, <2>2
  <2>4. \A p \in Parts : p \in a <=> p \in b BY <2>1, <2>3 DEF Parts
  <2>. QED BY <1>1, <2>4
<1>. QED BY <1>7, <1>8 DEF f, g

(* The successors of a file are the files of the masks below its mask.     *)
LEMMA FileInherits ==
  ASSUME NEW n \in LocaleNames, NEW mask \in SUBSET Explode(n)
  PROVE  /\ Filename(n, mask) \in Files /\ mask \in SUBSET Parts
         /\ Len(Inheritance[Filename(n, mask)]) = Len(Below[mask])
         /\ Inheritance[Filename(n, mask)] \in Seq(Files)
         /\ \A i \in 1..Len(Below[mask]) :
              /\ Below[mask][i] \in SUBSET mask /\ Below[mask][i] # mask
              /\ Inheritance[Filename(n, mask)][i] = Filename(n, Below[mask][i])
<1>. DEFINE f == Filename(n, mask)
            S == Dominated(mask)
            T == Generalizations(f)
            v == [m \in S |-> Value(m)]
            h == [m \in S |-> Filename(n, m)]
            P == {q \in T \X T : Preferred(q[1], q[2])}
            rank(x) == Cardinality({t \in T : Preferred(t, x)})
<1>1. f \in Files BY DEF Files
<1>2. /\ mask \in SUBSET Parts
      /\ \A m \in S : Filename(n, m) \in T
      /\ \A t \in T : \E m \in S : t = Filename(n, m)
  BY Generalized
<1>3. \A m \in S : m \in SUBSET Explode(n) /\ m \in SUBSET mask /\ m # mask
                  /\ ~({"codeset", "norm_codeset"} \subseteq m)
  BY DEF Dominated
<1>4. IsFiniteSet(S) /\ v \in [S -> Nat] /\ \A x, y \in S : v[x] = v[y] => x = y
  BY <1>2, MaskFacts DEF Dominated
<1>5. \A x, y \in S : Preferred(Filename(n, x), Filename(n, y)) <=> Value(x) > Value(y)
  BY <1>3, PreferenceOrder
<1>14. \A x, y \in S : Filename(n, x) = Filename(n, y) => x = y
  BY <1>3, PreferenceOrder
<1>. HIDE DEF S, T
<1>6. h \in [S -> T] /\ (\A t \in T : \E x \in S : h[x] = t) /\ \A x, y \in S : h[x] = h[y] => x = y
  <2>1. \A x \in S : h[x] = Filename(n, x) OBVIOUS
  <2>2. h \in [S -> T] BY <1>2
  <2>. HIDE DEF h
  <2>4. \A t \in T : \E x \in S : h[x] = t BY <1>2, <2>1
  <2>5. \A x, y \in S : h[x] = h[y] => x = y BY <1>14, <2>1
  <2>. QED BY <2>2, <2>4, <2>5
<1>7. P \in SUBSET (T \X T) /\ \A x, y \in S : <<h[x], h[y]>> \in P <=> v[x] > v[y]
  <2>1. P \in SUBSET (T \X T) OBVIOUS
  <2>2. ASSUME NEW x \in S, NEW y \in S PROVE <<h[x], h[y]>> \in P <=> v[x] > v[y]
    <3>1. h[x] \in T /\ h[y] \in T BY <1>6
    <3>2. <<h[x], h[y]>> \in P <=> Preferred(h[x], h[y]) BY <3>1, Zenon
    <3>4. h[x] = Filename(n, x) /\ h[y] = Filename(n, y) /\ v[x] = Value(x) /\ v[y] = Value(y)
      OBVIOUS
    <3>3. Preferred(h[x], h[y]) <=> v[x] > v[y] BY <1>5, <3>4, Zenon
    <3>. QED BY <3>2, <3>3
  <2>. QED BY <2>1, <2>2
<1>8. /\ Cardinality(T) = Cardinality(S)
      /\ \A x \in S : Cardinality(Preceding(T, P, h[x])) = Cardinality(Ahead(S, v, x))
  <2>. HIDE DEF v, h, P
  <2>1. OrderedAlike(S, v, T, h, P) BY <1>4, <1>6, <1>7, Zenon DEF OrderedAlike
  <2>2. RankedAlike(S, v, T, h, P) BY <2>1, SameOrder, Zenon
  <2>. QED BY <2>2, Zenon DEF RankedAlike
<1>9. ASSUME NEW x \in S
      PROVE  rank(Filename(n, x)) = Cardinality(Ahead(S, v, x))
  <2>1. Filename(n, x) \in T BY <1>2
  <2>2. Preceding(T, P, h[x]) = {t \in T : Preferred(t, Filename(n, x))}
    BY <2>1 DEF Preceding
  <2>. QED BY <1>8, <2>2
<1>10. /\ Cardinality(S) \in Nat /\ Len(Below[mask]) = Cardinality(S)
       /\ \A i \in 1..Len(Below[mask]) :
            /\ Below[mask][i] \in S
            /\ Cardinality({m \in S : Value(m) > Value(Below[mask][i])}) = i - 1
  BY <1>2, BelowFacts DEF S
<1>11. Inheritance[f] = [i \in 1..Cardinality(T) |-> CHOOSE x \in T : rank(x) = i - 1]
  BY <1>1 DEF Inheritance, Ordered, T
<1>12. ASSUME NEW i \in 1..Cardinality(S)
       PROVE  Inheritance[f][i] = Filename(n, Below[mask][i]) /\ Inheritance[f][i] \in Files
  <2>1. PICK m \in S : m = Below[mask][i] BY <1>10
  <2>2. Ahead(S, v, m) = {x \in S : Value(x) > Value(m)} BY DEF Ahead
  <2>3. rank(Filename(n, m)) = i - 1 BY <1>9, <1>10, <2>1, <2>2
  <2>4. Inheritance[f][i] = CHOOSE x \in T : rank(x) = i - 1 BY <1>8, <1>11
  <2>5. Filename(n, m) \in T BY <1>2
  <2>6. PICK g : g = Inheritance[f][i] OBVIOUS
  <2>7. g \in T /\ rank(g) = i - 1
    <3>. HIDE DEF rank
    <3>. QED BY <2>3, <2>4, <2>5, <2>6
  <2>8. PICK k \in S : g = Filename(n, k) BY <1>2, <2>7
  <2>9. Cardinality(Ahead(S, v, k)) = Cardinality(Ahead(S, v, m))
    BY <1>9, <2>3, <2>7, <2>8
  <2>10. k = m
    <3>. HIDE DEF v
    <3>. QED BY <1>4, <2>9, Ranking
  <2>11. Filename(n, m) \in Files BY <1>3, <2>1 DEF Files
  <2>. QED BY <2>1, <2>6, <2>8, <2>10, <2>11
<1>13. Inheritance[f] \in Seq(Files) /\ Len(Inheritance[f]) = Cardinality(S)
  <2>1. PICK b : b = Inheritance[f] OBVIOUS
  <2>. DEFINE c == Cardinality(S)
  <2>2. c \in Nat /\ \A i \in 1..c : b[i] \in Files BY <1>10, <1>12, <2>1
  <2>3. b = [i \in 1..c |-> b[i]] BY <1>8, <1>11, <2>1
  <2>. HIDE DEF c
  <2>4. b \in [1..c -> Files] BY <2>2, <2>3
  <2>5. b \in Seq(Files) /\ Len(b) = c BY <2>2, <2>4
  <2>. QED BY <2>1, <2>5 DEF c
<1>. QED BY <1>1, <1>2, <1>3, <1>10, <1>12, <1>13

(* The array has room for them.                                            *)
LEMMA EnoughSlots ==
  ASSUME NEW n \in LocaleNames, NEW mask \in SUBSET Explode(n)
  PROVE  Slots(Filename(n, mask)) \in Nat /\ Len(Below[mask]) < Slots(Filename(n, mask))
<1>. DEFINE f == Filename(n, mask)
            S == Dominated(mask)
            A == mask \cap {"territory", "modifier"}
            B == mask \cap {"codeset", "norm_codeset"}
            s == Cardinality(mask)
<1>1. mask \in SUBSET Parts /\ IsFiniteSet(mask) /\ IsFiniteSet(S) BY NameFacts, MaskFacts
<1>2. s \in Nat BY <1>1, FS_CardinalityType
<1>3. IsFiniteSet(SUBSET mask) /\ Cardinality(SUBSET mask) = 2 ^ s BY <1>1, FS_SUBSET
<1>4. 2 ^ s \in Nat BY <1>3, FS_CardinalityType
<1>5. Cardinality(S) < 2 ^ s
  <2>1. S \in SUBSET (SUBSET mask) /\ mask \in SUBSET mask /\ mask \notin S BY DEF Dominated
  <2>2. Cardinality(S) <= 2 ^ s /\ Cardinality(S) # 2 ^ s BY <1>3, <2>1, FS_Subset
  <2>3. Cardinality(S) \in Nat BY <1>1, FS_CardinalityType
  <2>. QED BY <1>4, <2>2, <2>3
<1>6. {p \in {"territory", "modifier"} : f[p] # L10nNull} = A
  <2>1. f["territory"] = f.territory /\ f["modifier"] = f.modifier OBVIOUS
  <2>2. (f.territory # L10nNull <=> "territory" \in mask)
        /\ (f.modifier # L10nNull <=> "modifier" \in mask)
    BY FileFacts, NameFacts
  <2>. HIDE DEF f
  <2>. QED BY <2>1, <2>2
<1>7. Cardinality(f.codesets) = Cardinality(B)
  <2>1. f.codesets = Codes(n, mask) BY FileFacts
  <2>2. CASE "codeset" \in mask /\ "norm_codeset" \in mask
    <3>1. PICK c, d : c = n.codeset /\ d = Normalized[n.codeset] OBVIOUS
    <3>2. c # d /\ f.codesets = {c} \cup {d} BY <2>1, <2>2, <3>1, NameFacts DEF Codes
    <3>3. B = {"codeset"} \cup {"norm_codeset"} BY <2>2
    <3>4. \A x : IsFiniteSet({x}) /\ Cardinality({x}) = 1 BY FS_Singleton
    <3>5. ASSUME NEW x, NEW y, x # y PROVE Cardinality({x} \cup {y}) = 1 + 1
      <4>1. y \notin {x} BY <3>5
      <4>2. PICK X : X = {x} OBVIOUS
      <4>3. IsFiniteSet(X) /\ Cardinality(X) = 1 /\ y \notin X BY <3>4, <4>1, <4>2
      <4>4. Cardinality(X \cup {y}) = 1 + 1 BY <4>3, FS_AddElement
      <4>. QED BY <4>2, <4>4
    <3>6. Cardinality(f.codesets) = 1 + 1 BY <3>2, <3>5
    <3>7. Cardinality(B) = 1 + 1
      <4>. HIDE DEF B
      <4>. QED BY <3>3, <3>5
    <3>. QED BY <3>6, <3>7
  <2>3. CASE "codeset" \in mask /\ "norm_codeset" \notin mask
    <3>1. f.codesets = {n.codeset} /\ B = {"codeset"} BY <2>1, <2>3 DEF Codes
    <3>. QED BY <3>1, FS_Singleton
  <2>4. CASE "codeset" \notin mask /\ "norm_codeset" \in mask
    <3>1. f.codesets = {Normalized[n.codeset]} /\ B = {"norm_codeset"} BY <2>1, <2>4 DEF Codes
    <3>. QED BY <3>1, FS_Singleton
  <2>5. CASE "codeset" \notin mask /\ "norm_codeset" \notin mask
    <3>1. f.codesets = {} /\ B = {} BY <2>1, <2>5 DEF Codes
    <3>. QED BY <3>1
  <2>. QED BY <2>2, <2>3, <2>4, <2>5
<1>8. Cardinality(A) + Cardinality(B) = s
  <2>1. IsFiniteSet(A) /\ IsFiniteSet(B) BY <1>1, FS_Intersection
  <2>2. A \cup B = mask /\ A \cap B = {} BY <1>1 DEF Parts
  <2>3. Cardinality(A) \in Nat /\ Cardinality(B) \in Nat BY <2>1, FS_CardinalityType
  <2>4. Cardinality(A \cup B) = Cardinality(A) + Cardinality(B) - Cardinality(A \cap B)
    BY <2>1, FS_Union
  <2>5. Cardinality(A \cap B) = 0 BY <2>2, FS_EmptySet
  <2>. QED BY <2>2, <2>3, <2>4, <2>5
<1>9. Slots(f) = 2 ^ s BY <1>6, <1>7, <1>8 DEF Slots
<1>10. Len(Below[mask]) = Cardinality(S) BY <1>1, BelowFacts
<1>. QED BY <1>4, <1>5, <1>9, <1>10

-----------------------------------------------------------------------------
(* The state of the list.                                                  *)
L10nLabels == {"idle", "search", "make", "inherit", "walk", "return"}

\* The file that a lookup makes, with its generalizations.
Full(l) == Filename(Expanded(l), Explode(Expanded(l)))

L10nTypeOK ==
  /\ DOMAIN list \in SUBSET Files /\ list \in [DOMAIN list -> Seq(Files \cup {L10nNull})]
  /\ calls \in Seq([retval : Files, mask : SUBSET Parts])
  /\ shortages \in Nat
  /\ l10npc \in [L10nThreads -> L10nLabels]
  /\ locale \in [L10nThreads -> Locales \cup {L10nNull}]
  /\ \A t \in L10nThreads : l10npc[t] # "idle" => locale[t] \in Locales
  /\ domain \in [L10nThreads -> Files \cup {L10nNull}]
  /\ DOMAIN answer = L10nThreads

\* One thread at most holds the lock for writing, and else no call is pending.
HolderInv ==
  /\ \A t, u \in L10nThreads : l10npc[t] = "inherit" /\ l10npc[u] = "inherit" => t = u
  /\ calls = <<>> <=> ~ Locked

\* Each call has come to the mask of the next one.
CallInv(n, i) ==
  /\ calls[i].mask \in SUBSET Explode(n) /\ calls[i].retval = Filename(n, calls[i].mask)
  /\ calls[i].retval \in DOMAIN list
  /\ i < Len(calls) =>
       /\ Len(list[calls[i].retval]) < Len(Below[calls[i].mask])
       /\ calls[i + 1].mask = Below[calls[i].mask][Len(list[calls[i].retval]) + 1]

CallsInv ==
  /\ \A t \in L10nThreads : l10npc[t] = "inherit" =>
       /\ calls[1].mask = Explode(Expanded(locale[t]))
       /\ \A i \in 1..Len(calls) : CallInv(Expanded(locale[t]), i)
  /\ \A i, j \in 1..Len(calls) : calls[i].retval = calls[j].retval => i = j

\* A file has the successors that it inherits from, as far as it has them.
SuccessorsInv(f) ==
  /\ Len(list[f]) <= Len(Inheritance[f])
  /\ f \notin Unfinished => Len(list[f]) = Len(Inheritance[f])
  /\ \A i \in 1..Len(list[f]) :
       \/ list[f][i] = Inheritance[f][i] /\ list[f][i] \in DOMAIN list
       \/ list[f][i] = L10nNull /\ shortages > 0

DomainInv(t) ==
  /\ l10npc[t] \in {"idle", "search", "make", "inherit"} => domain[t] = L10nNull
  /\ l10npc[t] = "walk" =>
       \/ domain[t] = L10nNull /\ shortages > 0
       \/ /\ domain[t] \in {Searched(locale[t]), Full(locale[t])}
          /\ domain[t] \in DOMAIN list \ Unfinished

L10nInv ==
  /\ L10nTypeOK /\ HolderInv /\ CallsInv
  /\ \A f \in DOMAIN list : SuccessorsInv(f)
  /\ \A t \in L10nThreads : DomainInv(t)

\* No name of an alias is that of a file that other names give.
AliasesApart == \A a \in DOMAIN Aliases : Searched(a) \notin Files

-----------------------------------------------------------------------------
(* Each action keeps it.                                                   *)
LEMMA ExpandedName ==
  ASSUME NEW l \in Locales
  PROVE  /\ Expanded(l) \in LocaleNames /\ Explode(Expanded(l)) \in SUBSET Parts
         /\ Full(l) \in Files
<1>1. Expanded(l) \in LocaleNames BY DEF LocaleNames
<1>. QED BY <1>1, NameFacts DEF Full, Files

\* A step that leaves the list and the calls alone.
LEMMA ListKept ==
  ASSUME L10nInv, NEW t \in L10nThreads, UNCHANGED <<list, calls>>,
         shortages' \in Nat, shortages' >= shortages,
         l10npc[t] # "inherit", l10npc'[t] # "inherit",
         \A u \in L10nThreads \ {t} :
           l10npc'[u] = l10npc[u] /\ locale'[u] = locale[u] /\ domain'[u] = domain[u]
  PROVE  /\ HolderInv' /\ CallsInv' /\ \A f \in DOMAIN list' : SuccessorsInv(f)'
         /\ \A u \in L10nThreads \ {t} : DomainInv(u)'
<1>1. shortages \in Nat BY DEF L10nInv, L10nTypeOK
<1>2. \A u \in L10nThreads : l10npc'[u] = "inherit" <=> l10npc[u] = "inherit" OBVIOUS
<1>3. HolderInv' BY <1>2 DEF L10nInv, HolderInv, Locked
<1>4. CallsInv' BY <1>2 DEF L10nInv, CallsInv, CallInv
<1>5. \A f \in DOMAIN list' : SuccessorsInv(f)'
  BY <1>1 DEF L10nInv, SuccessorsInv, Unfinished
<1>6. \A u \in L10nThreads \ {t} : DomainInv(u)'
  BY <1>1 DEF L10nInv, DomainInv, Unfinished
<1>. QED BY <1>3, <1>4, <1>5, <1>6

\* Without the lock held for writing, all files have their successors.
LEMMA NoneUnfinished ==
  ASSUME L10nInv, ~ Locked
  PROVE  calls = <<>> /\ Unfinished = {}
<1>1. calls = <<>> BY DEF L10nInv, HolderInv
<1>. QED BY <1>1 DEF Unfinished

LEMMA CallStep ==
  ASSUME L10nInv, NEW t \in L10nThreads, Call(t)
  PROVE  L10nInv'
<1>1. L10nTypeOK' BY DEF Call, L10nInv, L10nTypeOK, Goto, L10nLabels
<1>2. DomainInv(t)' BY DEF Call, L10nInv, L10nTypeOK, Goto, DomainInv
<1>3. /\ HolderInv' /\ CallsInv' /\ \A f \in DOMAIN list' : SuccessorsInv(f)'
      /\ \A u \in L10nThreads \ {t} : DomainInv(u)'
  BY ListKept DEF Call, L10nInv, L10nTypeOK, Goto
<1>. QED BY <1>1, <1>2, <1>3 DEF L10nInv

LEMMA SearchListStep ==
  ASSUME L10nInv, NEW t \in L10nThreads, SearchList(t)
  PROVE  L10nInv'
<1>1. L10nTypeOK' BY DEF SearchList, Short, L10nInv, L10nTypeOK, Goto, L10nLabels
<1>2. DomainInv(t)'
  BY NoneUnfinished DEF SearchList, Short, L10nInv, L10nTypeOK, Goto, DomainInv, Unfinished
<1>3. /\ HolderInv' /\ CallsInv' /\ \A f \in DOMAIN list' : SuccessorsInv(f)'
      /\ \A u \in L10nThreads \ {t} : DomainInv(u)'
  BY ListKept DEF SearchList, Short, L10nInv, L10nTypeOK, Goto
<1>. QED BY <1>1, <1>2, <1>3 DEF L10nInv

LEMMA WalkStep ==
  ASSUME L10nInv, NEW t \in L10nThreads, Walk(t)
  PROVE  L10nInv'
<1>1. L10nTypeOK' BY DEF Walk, L10nInv, L10nTypeOK, Goto, L10nLabels
<1>2. DomainInv(t)' BY DEF Walk, L10nInv, L10nTypeOK, Goto, DomainInv
<1>3. /\ HolderInv' /\ CallsInv' /\ \A f \in DOMAIN list' : SuccessorsInv(f)'
      /\ \A u \in L10nThreads \ {t} : DomainInv(u)'
  BY ListKept DEF Walk, L10nInv, L10nTypeOK, Goto
<1>. QED BY <1>1, <1>2, <1>3 DEF L10nInv

LEMMA ReturnDomainStep ==
  ASSUME L10nInv, NEW t \in L10nThreads, ReturnDomain(t)
  PROVE  L10nInv'
<1>1. L10nTypeOK' BY DEF ReturnDomain, L10nInv, L10nTypeOK, Goto, L10nLabels
<1>2. DomainInv(t)' BY DEF ReturnDomain, L10nInv, L10nTypeOK, Goto, DomainInv
<1>3. /\ HolderInv' /\ CallsInv' /\ \A f \in DOMAIN list' : SuccessorsInv(f)'
      /\ \A u \in L10nThreads \ {t} : DomainInv(u)'
  BY ListKept DEF ReturnDomain, L10nInv, L10nTypeOK, Goto
<1>. QED BY <1>1, <1>2, <1>3 DEF L10nInv

LEMMA NewEntryFacts ==
  ASSUME L10nInv, NEW f \in Files, f \notin DOMAIN list, list' = NewEntry(f)
  PROVE  /\ DOMAIN list' = DOMAIN list \cup {f} /\ list'[f] = <<>>
         /\ \A g \in DOMAIN list : list'[g] = list[g]
         /\ DOMAIN list' \in SUBSET Files
         /\ list' \in [DOMAIN list' -> Seq(Files \cup {L10nNull})]
<1>1. /\ DOMAIN list' = DOMAIN list \cup {f} /\ list'[f] = <<>>
      /\ \A g \in DOMAIN list : list'[g] = list[g]
  BY DEF NewEntry
<1>2. DOMAIN list \in SUBSET Files /\ \A g \in DOMAIN list : list[g] \in Seq(Files \cup {L10nNull})
  BY DEF L10nInv, L10nTypeOK
<1>3. list' = [g \in DOMAIN list' |-> list'[g]] BY DEF NewEntry
<1>4. \A g \in DOMAIN list' : list'[g] \in Seq(Files \cup {L10nNull})
  <2>1. <<>> \in Seq(Files \cup {L10nNull}) OBVIOUS
  <2>. QED BY <1>1, <1>2, <2>1
<1>. QED BY <1>1, <1>2, <1>3, <1>4

LEMMA MakeListStep ==
  ASSUME L10nInv, NEW t \in L10nThreads, MakeList(t)
  PROVE  L10nInv'
<1>. DEFINE n == Expanded(locale[t])
            f == Full(locale[t])
            m == Explode(n)
<1>1. /\ locale[t] \in Locales /\ domain[t] = L10nNull /\ ~ Locked /\ l10npc[t] = "make"
      /\ UNCHANGED <<locale, answer>> /\ calls = <<>> /\ Unfinished = {}
  BY NoneUnfinished DEF MakeList, L10nInv, L10nTypeOK, DomainInv
<1>2. n \in LocaleNames /\ f = Filename(n, m) /\ f \in Files /\ m \in SUBSET Parts
      /\ m = Explode(n)
  BY <1>1, ExpandedName DEF Full
<1>. HIDE DEF n, f, m
<1>3. CASE f \in DOMAIN list /\ domain' = [domain EXCEPT ![t] = f] /\ Goto(t, "walk")
           /\ UNCHANGED <<list, calls, shortages>>
  <2>1. L10nTypeOK' BY <1>1, <1>2, <1>3 DEF L10nInv, L10nTypeOK, Goto, L10nLabels
  <2>2. DomainInv(t)'
    BY <1>1, <1>2, <1>3 DEF L10nInv, L10nTypeOK, Goto, DomainInv, Unfinished, f
  <2>3. /\ HolderInv' /\ CallsInv' /\ \A g \in DOMAIN list' : SuccessorsInv(g)'
        /\ \A u \in L10nThreads \ {t} : DomainInv(u)'
    BY <1>1, <1>3, ListKept DEF L10nInv, L10nTypeOK, Goto
  <2>. QED BY <2>1, <2>2, <2>3 DEF L10nInv
<1>4. CASE Short /\ Goto(t, "walk") /\ UNCHANGED <<list, calls, domain>>
  <2>1. L10nTypeOK' BY <1>1, <1>2, <1>4 DEF Short, L10nInv, L10nTypeOK, Goto, L10nLabels
  <2>2. DomainInv(t)'
    BY <1>1, <1>2, <1>4 DEF Short, L10nInv, L10nTypeOK, Goto, DomainInv
  <2>3. /\ HolderInv' /\ CallsInv' /\ \A g \in DOMAIN list' : SuccessorsInv(g)'
        /\ \A u \in L10nThreads \ {t} : DomainInv(u)'
    BY <1>1, <1>4, ListKept DEF Short, L10nInv, L10nTypeOK, Goto
  <2>. QED BY <2>1, <2>2, <2>3 DEF L10nInv
<1>5. CASE /\ f \notin DOMAIN list /\ list' = NewEntry(f) /\ calls' = <<Pending(f, m)>>
           /\ Goto(t, "inherit") /\ UNCHANGED <<domain, shortages>>
  <2>1. /\ DOMAIN list' = DOMAIN list \cup {f} /\ list'[f] = <<>>
        /\ \A g \in DOMAIN list : list'[g] = list[g]
        /\ DOMAIN list' \in SUBSET Files
        /\ list' \in [DOMAIN list' -> Seq(Files \cup {L10nNull})]
    BY <1>2, <1>5, NewEntryFacts
  <2>2. Len(calls') = 1 /\ calls'[1] = Pending(f, m) BY <1>5
  <2>3. Unfinished' = {f} BY <2>2, <1>5 DEF Unfinished, Pending
  <2>4. l10npc' = [l10npc EXCEPT ![t] = "inherit"] /\ l10npc \in [L10nThreads -> L10nLabels]
    BY <1>5 DEF Goto, L10nInv, L10nTypeOK
  <2>5. \A u \in L10nThreads : l10npc'[u] = "inherit" <=> u = t BY <1>1, <2>4 DEF Locked
  <2>6. L10nTypeOK'
    <3>1. calls' \in Seq([retval : Files, mask : SUBSET Parts]) BY <1>2, <1>5 DEF Pending
    <3>. QED BY <1>1, <1>2, <1>5, <2>1, <2>4, <3>1 DEF L10nInv, L10nTypeOK, L10nLabels
  <2>7. HolderInv' BY <2>2, <2>5, <1>5 DEF HolderInv, Locked
  <2>8. CallsInv'
    <3>1. \A i \in 1..Len(calls') : i = 1 BY <2>2
    <3>2. n' = n BY <1>1 DEF n
    <3>3. CallInv(n, 1)'
      <4>1. calls'[1].mask = m /\ calls'[1].retval = f BY <2>2 DEF Pending
      <4>. QED BY <1>2, <2>1, <2>2, <3>2, <4>1 DEF CallInv
    <3>4. \A u \in L10nThreads : l10npc'[u] = "inherit" => u = t BY <2>5
    <3>5. calls'[1].mask = Explode(Expanded(locale'[t])) BY <1>1, <2>2 DEF Pending, m, n
    <3>6. n' = Expanded(locale'[t]) BY DEF n
    <3>. QED BY <3>1, <3>2, <3>3, <3>4, <3>5, <3>6 DEF CallsInv, n
  <2>9. ASSUME NEW g \in DOMAIN list' PROVE SuccessorsInv(g)'
    <3>1. CASE g = f
      <4>1. Len(Inheritance[f]) \in Nat
        <5>1. m \in SUBSET Explode(n) BY DEF m
        <5>. QED BY <1>2, <5>1, FileInherits
      <4>. QED BY <2>1, <2>3, <3>1, <4>1 DEF SuccessorsInv
    <3>2. CASE g # f
      <4>1. g \in DOMAIN list /\ SuccessorsInv(g) BY <2>1, <3>2 DEF L10nInv
      <4>. QED BY <1>1, <1>5, <2>1, <2>3, <4>1 DEF SuccessorsInv
    <3>. QED BY <3>1, <3>2
  <2>10. ASSUME NEW u \in L10nThreads PROVE DomainInv(u)'
    <3>1. DomainInv(u) BY DEF L10nInv
    <3>. QED BY <1>1, <1>5, <2>1, <2>3, <2>4, <3>1 DEF DomainInv
  <2>. QED BY <2>6, <2>7, <2>8, <2>9, <2>10 DEF L10nInv
<1>. QED BY <1>3, <1>4, <1>5, Zenon DEF MakeList, Full, f, n, m

\* The innermost call.
LEMMA LastCall ==
  ASSUME L10nInv, NEW t \in L10nThreads, l10npc[t] = "inherit"
  PROVE  LET n == Expanded(locale[t])
             k == Len(calls)
             m == calls[k].mask
         IN  /\ n \in LocaleNames /\ k \in Nat \ {0} /\ Last(calls) = calls[k]
             /\ m \in SUBSET Explode(n) /\ retval = calls[k].retval /\ retval = Filename(n, m)
             /\ retval \in DOMAIN list /\ retval \in Unfinished
             /\ entries \in Nat /\ entries <= Len(Below[m])
             /\ Len(Below[m]) \in Nat /\ Len(Inheritance[retval]) = Len(Below[m])
             /\ ~ AtEnd => /\ entries + 1 \in 1..Len(Below[m]) /\ cnt = Below[m][entries + 1]
                           /\ cnt \in SUBSET Explode(n) /\ Filename(n, cnt) \in Files
                           /\ Inheritance[retval][entries + 1] = Filename(n, cnt)
<1>. DEFINE n == Expanded(locale[t])
            k == Len(calls)
            m == calls[k].mask
<1>1. n \in LocaleNames BY ExpandedName DEF L10nInv, L10nTypeOK
<1>2. k \in Nat \ {0}
  <2>1. calls \in Seq([retval : Files, mask : SUBSET Parts]) /\ calls # <<>>
    BY DEF L10nInv, L10nTypeOK, HolderInv, Locked
  <2>. QED BY <2>1
<1>3. Last(calls) = calls[k] /\ retval = calls[k].retval BY DEF Last, retval
<1>4. CallInv(n, k) BY <1>2 DEF L10nInv, CallsInv
<1>5. m \in SUBSET Explode(n) /\ retval = Filename(n, m) /\ retval \in DOMAIN list
  BY <1>3, <1>4 DEF CallInv
<1>6. retval \in Unfinished
  <2>1. k \in DOMAIN calls BY <1>2 DEF L10nInv, L10nTypeOK
  <2>. QED BY <1>3, <2>1, Zenon DEF Unfinished
<1>7. SuccessorsInv(retval) /\ list[retval] \in Seq(Files \cup {L10nNull})
  BY <1>5 DEF L10nInv, L10nTypeOK
<1>. HIDE DEF n, k, m
<1>8. /\ Len(Inheritance[retval]) = Len(Below[m])
      /\ \A i \in 1..Len(Below[m]) :
           /\ Below[m][i] \in SUBSET m
           /\ Inheritance[retval][i] = Filename(n, Below[m][i])
  BY <1>1, <1>5, FileInherits
<1>9. Len(Below[m]) \in Nat
  <2>1. m \in SUBSET Parts BY <1>1, <1>5, NameFacts
  <2>. QED BY <2>1, BelowFacts
<1>10. entries \in Nat /\ entries <= Len(Below[m]) BY <1>7, <1>8 DEF entries, SuccessorsInv
<1>11. ASSUME ~ AtEnd
       PROVE  /\ entries + 1 \in 1..Len(Below[m]) /\ cnt = Below[m][entries + 1]
              /\ cnt \in SUBSET Explode(n) /\ Filename(n, cnt) \in Files
              /\ Inheritance[retval][entries + 1] = Filename(n, cnt)
  <2>1. entries # Len(Below[m]) BY <1>3, <1>11 DEF AtEnd, m
  <2>2. entries + 1 \in 1..Len(Below[m]) BY <1>9, <1>10, <2>1
  <2>3. cnt = Below[m][entries + 1] BY <1>3 DEF cnt, m
  <2>4. cnt \in SUBSET Explode(n) BY <1>5, <1>8, <2>2, <2>3
  <2>5. Filename(n, cnt) \in Files BY <1>1, <2>4 DEF Files
  <2>. QED BY <1>8, <2>2, <2>3, <2>4, <2>5
<1>. QED BY <1>1, <1>2, <1>3, <1>5, <1>6, <1>8, <1>9, <1>10, <1>11 DEF n, k, m

LEMMA SuccessorAdded ==
  ASSUME L10nInv, NEW f \in DOMAIN list, NEW x \in Files \cup {L10nNull},
         list' = Successor(f, x)
  PROVE  /\ DOMAIN list' = DOMAIN list /\ Len(list[f]) \in Nat
         /\ Len(list'[f]) = Len(list[f]) + 1
         /\ \A i \in 1..Len(list[f]) : list'[f][i] = list[f][i]
         /\ list'[f][Len(list[f]) + 1] = x
         /\ \A g \in DOMAIN list \ {f} : list'[g] = list[g]
         /\ list' \in [DOMAIN list' -> Seq(Files \cup {L10nNull})]
<1>1. list \in [DOMAIN list -> Seq(Files \cup {L10nNull})] BY DEF L10nInv, L10nTypeOK
<1>2. list' = [list EXCEPT ![f] = Append(list[f], x)] BY DEF Successor
<1>3. list[f] \in Seq(Files \cup {L10nNull}) BY <1>1
<1>4. Append(list[f], x) \in Seq(Files \cup {L10nNull}) BY <1>3
<1>5. /\ DOMAIN list' = DOMAIN list /\ list'[f] = Append(list[f], x)
      /\ \A g \in DOMAIN list \ {f} : list'[g] = list[g]
      /\ list' \in [DOMAIN list' -> Seq(Files \cup {L10nNull})]
  BY <1>1, <1>2, <1>4
<1>6. /\ Len(list[f]) \in Nat
      /\ Len(Append(list[f], x)) = Len(list[f]) + 1
      /\ \A i \in 1..Len(list[f]) : Append(list[f], x)[i] = list[f][i]
      /\ Append(list[f], x)[Len(list[f]) + 1] = x
  BY <1>3
<1>. QED BY <1>5, <1>6

\* The innermost call has found the next successor, or lacked the memory for it.
LEMMA InheritFound ==
  ASSUME L10nInv, NEW t \in L10nThreads, l10npc[t] = "inherit", ~ AtEnd,
         NEW x, list' = Successor(retval, x), calls' = calls,
         UNCHANGED <<l10npc, locale, domain, answer>>,
         \/ /\ x = Filename(Expanded(locale[t]), cnt) /\ x \in DOMAIN list
            /\ shortages' = shortages
         \/ x = L10nNull /\ shortages' = shortages + 1
  PROVE  L10nInv'
<1>. DEFINE n == Expanded(locale[t])
            k == Len(calls)
            m == calls[k].mask
            r == calls[k].retval
<1>1. /\ n \in LocaleNames /\ k \in Nat \ {0} /\ retval = r
      /\ m \in SUBSET Explode(n) /\ r = Filename(n, m)
      /\ r \in DOMAIN list /\ r \in Unfinished
      /\ entries = Len(list[r]) /\ entries + 1 \in 1..Len(Below[m])
      /\ Len(Below[m]) \in Nat /\ Len(Inheritance[r]) = Len(Below[m])
      /\ Inheritance[r][entries + 1] = Filename(n, cnt)
  BY LastCall DEF entries
<1>2. /\ shortages \in Nat /\ shortages' \in Nat /\ shortages' >= shortages
      /\ x \in Files \cup {L10nNull}
  BY DEF L10nInv, L10nTypeOK
<1>. HIDE DEF n, k, m, r
<1>3. /\ DOMAIN list' = DOMAIN list /\ Len(list[r]) \in Nat
      /\ Len(list'[r]) = Len(list[r]) + 1
      /\ \A i \in 1..Len(list[r]) : list'[r][i] = list[r][i]
      /\ list'[r][Len(list[r]) + 1] = x
      /\ \A g \in DOMAIN list \ {r} : list'[g] = list[g]
      /\ list' \in [DOMAIN list' -> Seq(Files \cup {L10nNull})]
  BY <1>1, <1>2, SuccessorAdded
<1>4. Unfinished' = Unfinished BY DEF Unfinished
<1>5. L10nTypeOK' BY <1>2, <1>3 DEF L10nInv, L10nTypeOK
<1>6. HolderInv' BY DEF L10nInv, HolderInv, Locked
<1>7. CallsInv'
  <2>1. \A i, j \in 1..k : calls[i].retval = calls[j].retval => i = j
    BY DEF L10nInv, CallsInv, k
  <2>2. \A u \in L10nThreads : l10npc[u] = "inherit" => u = t BY DEF L10nInv, HolderInv
  <2>3. calls[1].mask = Explode(n) /\ \A i \in 1..k : CallInv(n, i)
    BY DEF L10nInv, CallsInv, n, k
  <2>4. n' = n BY DEF n
  <2>5. ASSUME NEW i \in 1..k PROVE CallInv(n, i)'
    <3>1. CallInv(n, i) BY <2>3
    <3>2. i < k => calls[i].retval # r
      <4>1. k \in 1..k BY <1>1
      <4>. QED BY <2>1, <4>1 DEF r
    <3>. QED BY <1>3, <2>4, <3>1, <3>2 DEF CallInv, k
  <2>6. n' = Expanded(locale'[t]) /\ k = Len(calls') BY DEF n, k
  <2>. QED BY <2>1, <2>2, <2>3, <2>4, <2>5, <2>6 DEF CallsInv
<1>8. ASSUME NEW g \in DOMAIN list' PROVE SuccessorsInv(g)'
  <2>1. SuccessorsInv(g) BY <1>3 DEF L10nInv
  <2>2. CASE g = r
    <3>1. Len(list'[r]) <= Len(Inheritance[r]) BY <1>1, <1>3
    <3>2. ASSUME NEW i \in 1..Len(list'[r])
          PROVE  \/ list'[r][i] = Inheritance[r][i] /\ list'[r][i] \in DOMAIN list'
                 \/ list'[r][i] = L10nNull /\ shortages' > 0
      <4>1. CASE i = Len(list[r]) + 1
        <5>1. list'[r][i] = x BY <1>3, <4>1
        <5>2. Inheritance[r][i] = Filename(n, cnt) BY <1>1, <4>1
        <5>. QED BY <1>2, <1>3, <5>1, <5>2 DEF n
      <4>2. CASE i # Len(list[r]) + 1
        <5>1. i \in 1..Len(list[r]) BY <1>3, <4>2
        <5>. QED BY <1>2, <1>3, <2>1, <2>2, <5>1 DEF SuccessorsInv
      <4>. QED BY <4>1, <4>2
    <3>. QED BY <1>1, <1>4, <2>2, <3>1, <3>2 DEF SuccessorsInv
  <2>3. CASE g # r BY <1>2, <1>3, <1>4, <2>1, <2>3 DEF SuccessorsInv
  <2>. QED BY <2>2, <2>3
<1>9. ASSUME NEW u \in L10nThreads PROVE DomainInv(u)'
  <2>1. DomainInv(u) BY DEF L10nInv
  <2>. QED BY <1>2, <1>3, <1>4, <2>1 DEF DomainInv
<1>. QED BY <1>5, <1>6, <1>7, <1>8, <1>9 DEF L10nInv

\* It calls the next one.
LEMMA InheritCalls ==
  ASSUME L10nInv, NEW t \in L10nThreads, l10npc[t] = "inherit", ~ AtEnd,
         NEW f, f = Filename(Expanded(locale[t]), cnt), f \notin DOMAIN list,
         list' = NewEntry(f), calls' = Append(calls, Pending(f, cnt)),
         UNCHANGED <<shortages, l10npc, locale, domain, answer>>
  PROVE  L10nInv'
<1>. DEFINE n == Expanded(locale[t])
            k == Len(calls)
            m == calls[k].mask
            r == calls[k].retval
<1>1. /\ n \in LocaleNames /\ k \in Nat \ {0}
      /\ r \in DOMAIN list
      /\ entries = Len(list[r]) /\ entries + 1 \in 1..Len(Below[m])
      /\ Len(Below[m]) \in Nat /\ cnt = Below[m][entries + 1]
      /\ cnt \in SUBSET Explode(n) /\ f \in Files
  BY LastCall DEF entries
<1>2. f = Filename(n, cnt) /\ n = Expanded(locale[t]) /\ n' = n /\ n' = Expanded(locale'[t])
  OBVIOUS
<1>3. k = Len(calls) /\ m = calls[k].mask /\ r = calls[k].retval OBVIOUS
<1>. HIDE DEF n, k, m, r
<1>4. /\ DOMAIN list' = DOMAIN list \cup {f} /\ list'[f] = <<>>
      /\ \A g \in DOMAIN list : list'[g] = list[g]
      /\ DOMAIN list' \in SUBSET Files
      /\ list' \in [DOMAIN list' -> Seq(Files \cup {L10nNull})]
  BY <1>1, NewEntryFacts
<1>5. /\ calls \in Seq([retval : Files, mask : SUBSET Parts])
      /\ Pending(f, cnt) \in [retval : Files, mask : SUBSET Parts]
  BY <1>1, NameFacts DEF L10nInv, L10nTypeOK, Pending
<1>6. /\ calls' \in Seq([retval : Files, mask : SUBSET Parts])
      /\ Len(calls') = k + 1 /\ calls'[k + 1] = Pending(f, cnt)
      /\ \A i \in 1..k : calls'[i] = calls[i]
  BY <1>3, <1>5
<1>7. calls'[k + 1].retval = f /\ calls'[k + 1].mask = cnt BY <1>6 DEF Pending
<1>8. /\ DOMAIN calls = 1..k /\ DOMAIN calls' = 1..(k + 1) BY <1>3, <1>5, <1>6
<1>9. Unfinished' = Unfinished \cup {f}
  <2>1. \A i \in 1..(k + 1) : i = k + 1 \/ i \in 1..k BY <1>1
  <2>2. \A i \in 1..k : i \in 1..(k + 1) BY <1>1
  <2>3. k + 1 \in 1..(k + 1) BY <1>1
  <2>. QED BY <1>6, <1>7, <1>8, <2>1, <2>2, <2>3 DEF Unfinished
<1>10. L10nTypeOK' BY <1>4, <1>6 DEF L10nInv, L10nTypeOK
<1>11. HolderInv'
  <2>1. calls' # <<>> BY <1>1, <1>6
  <2>2. Locked' BY DEF Locked
  <2>. QED BY <2>1, <2>2 DEF L10nInv, HolderInv, Locked
<1>12. CallsInv'
  <2>1. /\ \A i, j \in 1..k : calls[i].retval = calls[j].retval => i = j
        /\ calls[1].mask = Explode(n) /\ \A i \in 1..k : CallInv(n, i)
    BY <1>2, <1>3 DEF L10nInv, CallsInv
  <2>2. \A u \in L10nThreads : l10npc[u] = "inherit" => u = t BY DEF L10nInv, HolderInv
  <2>3. ASSUME NEW i \in 1..(k + 1) PROVE CallInv(n, i)'
    <3>1. CASE i = k + 1
      <4>1. ~(i < Len(calls')) BY <1>1, <1>6, <3>1
      <4>. QED BY <1>1, <1>2, <1>4, <1>7, <3>1, <4>1 DEF CallInv
    <3>2. CASE i = k
      <4>1. CallInv(n, k) BY <1>1, <2>1
      <4>2. calls'[i] = calls[k] /\ k \in 1..k BY <1>1, <1>6, <3>2
      <4>3. list'[r] = list[r] BY <1>1, <1>4
      <4>4. Len(list[r]) < Len(Below[m]) BY <1>1
      <4>. QED BY <1>1, <1>2, <1>3, <1>4, <1>7, <3>2, <4>1, <4>2, <4>3, <4>4 DEF CallInv
    <3>3. CASE i \in 1..k /\ i # k
      <4>1. CallInv(n, i) /\ i < k /\ calls'[i] = calls[i] BY <1>1, <1>6, <2>1, <3>3
      <4>2. i + 1 \in 1..k /\ i < Len(calls) BY <1>1, <1>3, <4>1
      <4>3. calls'[i + 1] = calls[i + 1] BY <1>6, <4>2
      <4>4. calls[i].retval \in DOMAIN list BY <4>1 DEF CallInv
      <4>5. list'[calls[i].retval] = list[calls[i].retval] BY <1>4, <4>4
      <4>. QED BY <1>2, <1>4, <4>1, <4>2, <4>3, <4>4, <4>5 DEF CallInv
    <3>. QED BY <1>1, <3>1, <3>2, <3>3
  <2>4. ASSUME NEW i \in 1..(k + 1), NEW j \in 1..(k + 1), calls'[i].retval = calls'[j].retval
        PROVE  i = j
    <3>1. \A q \in 1..k : calls'[q].retval \in DOMAIN list /\ calls'[q].retval = calls[q].retval
      BY <1>6, <2>1 DEF CallInv
    <3>2. (i = k + 1 \/ i \in 1..k) /\ (j = k + 1 \/ j \in 1..k) BY <1>1
    <3>3. CASE i \in 1..k /\ j \in 1..k
      <4>1. calls[i].retval = calls[j].retval BY <2>4, <3>1, <3>3
      <4>. QED BY <2>1, <3>3, <4>1
    <3>4. \A q \in 1..k : calls'[q].retval # calls'[k + 1].retval BY <1>7, <3>1
    <3>. QED BY <2>4, <3>2, <3>3, <3>4
  <2>5. calls'[1].mask = Explode(n) /\ Len(calls') = k + 1
    <3>1. 1 \in 1..k BY <1>1
    <3>. QED BY <1>6, <2>1, <3>1
  <2>. QED BY <1>2, <2>2, <2>3, <2>4, <2>5 DEF CallsInv
<1>13. ASSUME NEW g \in DOMAIN list' PROVE SuccessorsInv(g)'
  <2>1. CASE g = f
    <3>1. Len(Inheritance[f]) \in Nat BY <1>1, <1>2, FileInherits
    <3>. QED BY <1>4, <1>9, <2>1, <3>1 DEF SuccessorsInv
  <2>2. CASE g # f
    <3>1. g \in DOMAIN list /\ SuccessorsInv(g) BY <1>4, <2>2 DEF L10nInv
    <3>. QED BY <1>4, <1>9, <2>2, <3>1 DEF SuccessorsInv
  <2>. QED BY <2>1, <2>2
<1>14. ASSUME NEW u \in L10nThreads PROVE DomainInv(u)'
  <2>1. DomainInv(u) BY DEF L10nInv
  <2>. QED BY <1>4, <1>9, <2>1 DEF DomainInv
<1>. QED BY <1>10, <1>11, <1>12, <1>13, <1>14 DEF L10nInv

LEMMA InheritStep ==
  ASSUME L10nInv, NEW t \in L10nThreads, Inherit(t)
  PROVE  L10nInv'
<1>1. l10npc[t] = "inherit" /\ ~ AtEnd /\ UNCHANGED <<l10npc, locale, domain, answer>>
  BY DEF Inherit
<1>2. PICK f : f = Filename(Expanded(locale[t]), cnt) OBVIOUS
<1>3. \/ f \in DOMAIN list /\ list' = Successor(retval, f) /\ UNCHANGED <<calls, shortages>>
      \/ /\ f \notin DOMAIN list
         /\ list' = NewEntry(f) /\ calls' = Append(calls, Pending(f, cnt))
         /\ UNCHANGED shortages
      \/ Short /\ list' = Successor(retval, L10nNull) /\ UNCHANGED calls
  BY <1>2, Zenon DEF Inherit
<1>4. CASE f \in DOMAIN list /\ list' = Successor(retval, f) /\ UNCHANGED <<calls, shortages>>
  BY <1>1, <1>2, <1>4, InheritFound
<1>5. CASE /\ f \notin DOMAIN list
           /\ list' = NewEntry(f) /\ calls' = Append(calls, Pending(f, cnt))
           /\ UNCHANGED shortages
  BY <1>1, <1>2, <1>5, InheritCalls
<1>6. CASE Short /\ list' = Successor(retval, L10nNull) /\ UNCHANGED calls
  BY <1>1, <1>6, InheritFound DEF Short
<1>. QED BY <1>3, <1>4, <1>5, <1>6

LEMMA ReturnEntryStep ==
  ASSUME L10nInv, NEW t \in L10nThreads, ReturnEntry(t)
  PROVE  L10nInv'
<1>. DEFINE n == Expanded(locale[t])
            k == Len(calls)
            m == calls[k].mask
            r == calls[k].retval
            g == calls[k - 1].retval
<1>1. /\ l10npc[t] = "inherit" /\ AtEnd /\ calls' = Front(calls)
      /\ UNCHANGED <<shortages, locale, answer>>
      /\ \/ k > 1 /\ list' = Successor(g, retval) /\ UNCHANGED <<l10npc, domain>>
         \/ /\ k = 1 /\ domain' = [domain EXCEPT ![t] = retval] /\ Goto(t, "walk")
            /\ UNCHANGED list
  BY DEF ReturnEntry
<1>2. /\ n \in LocaleNames /\ k \in Nat \ {0} /\ retval = r
      /\ m \in SUBSET Explode(n) /\ r = Filename(n, m)
      /\ r \in DOMAIN list /\ r \in Unfinished
      /\ entries = Len(list[r]) /\ Last(calls) = calls[k]
      /\ Len(Inheritance[r]) = Len(Below[m])
  BY <1>1, LastCall DEF entries
<1>3. Len(list[r]) = Len(Inheritance[r]) BY <1>1, <1>2 DEF AtEnd
<1>4. n = Expanded(locale[t]) /\ n' = n /\ n' = Expanded(locale'[t]) BY <1>1
<1>5. k = Len(calls) /\ m = calls[k].mask /\ r = calls[k].retval /\ g = calls[k - 1].retval
  OBVIOUS
<1>. HIDE DEF n, k, m, r, g
<1>6. /\ calls \in Seq([retval : Files, mask : SUBSET Parts])
      /\ shortages \in Nat /\ DOMAIN list \in SUBSET Files
  BY DEF L10nInv, L10nTypeOK
<1>7. /\ calls' \in Seq([retval : Files, mask : SUBSET Parts])
      /\ Len(calls') = k - 1 /\ \A i \in 1..(k - 1) : calls'[i] = calls[i]
  <2>. DEFINE Q == [retval : Files, mask : SUBSET Parts]
  <2>1. calls' = SubSeq(calls, 1, k - 1) BY <1>1, <1>5 DEF Front
  <2>2. \A i \in 1..(k - 1) : calls[i] \in Q
    <3>3. calls \in Seq(Q) BY <1>6
    <3>. HIDE DEF Q
    <3>1. \A i \in 1..k : calls[i] \in Q BY <1>5, <3>3
    <3>2. \A i \in 1..(k - 1) : i \in 1..k BY <1>2
    <3>. QED BY <3>1, <3>2
  <2>3. k - 1 \in Int /\ 1 \in Int BY <1>2
  <2>. HIDE DEF Q
  <2>4. /\ SubSeq(calls, 1, k - 1) \in Seq(Q)
        /\ Len(SubSeq(calls, 1, k - 1)) = IF 1 <= k - 1 THEN k - 1 - 1 + 1 ELSE 0
        /\ \A i \in 1..(k - 1 - 1 + 1) : SubSeq(calls, 1, k - 1)[i] = calls[1 + i - 1]
    BY <2>2, <2>3, SubSeqProperties
  <2>5. k - 1 - 1 + 1 = k - 1 /\ \A i \in 1..(k - 1) : 1 + i - 1 = i BY <1>2
  <2>. QED BY <1>2, <2>1, <2>4, <2>5 DEF Q
<1>8. DOMAIN calls = 1..k /\ DOMAIN calls' = 1..(k - 1) BY <1>5, <1>6, <1>7
<1>9. /\ \A i, j \in 1..k : calls[i].retval = calls[j].retval => i = j
      /\ calls[1].mask = Explode(n) /\ \A i \in 1..k : CallInv(n, i)
  BY <1>1, <1>4, <1>5 DEF L10nInv, CallsInv
<1>10. Unfinished' = Unfinished \ {r}
  <2>1. \A i \in 1..k : i = k \/ i \in 1..(k - 1) BY <1>2
  <2>2. \A i \in 1..(k - 1) : i \in 1..k /\ i # k BY <1>2
  <2>3. k \in 1..k BY <1>2
  <2>4. \A i \in 1..(k - 1) : calls[i].retval # r BY <1>5, <1>9, <2>2, <2>3
  <2>. QED BY <1>5, <1>7, <1>8, <2>1, <2>2, <2>3, <2>4 DEF Unfinished
<1>11. \A u \in L10nThreads : l10npc[u] = "inherit" => u = t BY <1>1 DEF L10nInv, HolderInv
<1>12. CASE k > 1 /\ list' = Successor(g, retval) /\ UNCHANGED <<l10npc, domain>>
  <2>1. k - 1 \in 1..k /\ k - 1 < k /\ k \in 1..k /\ k - 1 # k BY <1>2, <1>12
  <2>2. CallInv(n, k - 1) /\ g # r BY <1>5, <1>9, <2>1
  <2>3. (k - 1) + 1 = k BY <1>2
  <2>. DEFINE b == calls[k - 1].mask
  <2>4. /\ b \in SUBSET Explode(n) /\ g = Filename(n, b) /\ g \in DOMAIN list
        /\ Len(list[g]) < Len(Below[b]) /\ m = Below[b][Len(list[g]) + 1]
    BY <1>5, <2>1, <2>2, <2>3 DEF CallInv
  <2>. HIDE DEF b
  <2>5. /\ DOMAIN list' = DOMAIN list /\ Len(list[g]) \in Nat
        /\ Len(list'[g]) = Len(list[g]) + 1
        /\ \A i \in 1..Len(list[g]) : list'[g][i] = list[g][i]
        /\ list'[g][Len(list[g]) + 1] = r
        /\ \A f \in DOMAIN list \ {g} : list'[f] = list[f]
        /\ list' \in [DOMAIN list' -> Seq(Files \cup {L10nNull})]
    BY <1>2, <1>6, <1>12, <2>4, SuccessorAdded
  <2>6. Len(Below[b]) \in Nat
    <3>1. b \in SUBSET Parts BY <1>2, <2>4, NameFacts
    <3>. QED BY <3>1, BelowFacts
  <2>7. /\ Len(Inheritance[g]) = Len(Below[b])
        /\ Inheritance[g][Len(list[g]) + 1] = r
    <3>1. Len(list[g]) + 1 \in 1..Len(Below[b]) BY <2>4, <2>5, <2>6
    <3>2. /\ Len(Inheritance[g]) = Len(Below[b])
          /\ \A i \in 1..Len(Below[b]) : Inheritance[g][i] = Filename(n, Below[b][i])
      BY <1>2, <2>4, FileInherits
    <3>. QED BY <1>2, <2>4, <3>1, <3>2
  <2>8. L10nTypeOK' BY <1>1, <1>7, <1>12, <2>5 DEF L10nInv, L10nTypeOK
  <2>9. HolderInv'
    <3>1. calls' # <<>> BY <1>2, <1>7, <1>12
    <3>2. Locked' BY <1>1, <1>12 DEF Locked
    <3>. QED BY <1>12, <3>1, <3>2 DEF L10nInv, HolderInv, Locked
  <2>10. CallsInv'
    <3>1. ASSUME NEW i \in 1..(k - 1) PROVE CallInv(n, i)'
      <4>1. CallInv(n, i) /\ calls'[i] = calls[i] /\ i \in 1..k BY <1>2, <1>7, <1>9
      <4>2. CASE i = k - 1
        <5>1. ~(i < Len(calls')) BY <1>2, <1>7, <4>2
        <5>. QED BY <1>4, <2>5, <4>1, <5>1 DEF CallInv
      <4>3. CASE i # k - 1
        <5>1. i + 1 \in 1..(k - 1) /\ i < Len(calls) BY <1>2, <1>5, <4>3
        <5>2. calls'[i + 1] = calls[i + 1] BY <1>7, <5>1
        <5>3. calls[i].retval # g BY <1>5, <1>9, <2>1, <4>1, <4>3
        <5>. QED BY <1>4, <2>5, <4>1, <5>1, <5>2, <5>3 DEF CallInv
      <4>. QED BY <4>2, <4>3
    <3>2. \A i \in 1..(k - 1) : i \in 1..k BY <1>2
    <3>3. 1 \in 1..(k - 1) BY <1>2, <1>12
    <3>4. calls'[1].mask = Explode(n) BY <1>7, <1>9, <3>3
    <3>5. \A i, j \in 1..(k - 1) : calls'[i].retval = calls'[j].retval => i = j
      BY <1>7, <1>9, <3>2
    <3>. QED BY <1>4, <1>7, <1>11, <1>12, <3>1, <3>4, <3>5 DEF CallsInv
  <2>11. ASSUME NEW f \in DOMAIN list' PROVE SuccessorsInv(f)'
    <3>1. SuccessorsInv(f) BY <2>5 DEF L10nInv
    <3>2. CASE f = g
      <4>1. g \in Unfinished'
        <5>1. k - 1 \in DOMAIN calls BY <1>8, <2>1
        <5>2. g \in Unfinished BY <1>5, <5>1, Zenon DEF Unfinished
        <5>. QED BY <1>10, <2>2, <5>2
      <4>2. Len(list'[g]) <= Len(Inheritance[g]) BY <2>4, <2>5, <2>6, <2>7
      <4>3. ASSUME NEW i \in 1..Len(list'[g])
            PROVE  \/ list'[g][i] = Inheritance[g][i] /\ list'[g][i] \in DOMAIN list'
                   \/ list'[g][i] = L10nNull /\ shortages' > 0
        <5>1. CASE i = Len(list[g]) + 1 BY <1>2, <2>5, <2>7, <5>1
        <5>2. CASE i # Len(list[g]) + 1
          <6>1. i \in 1..Len(list[g]) BY <2>5, <5>2
          <6>. QED BY <1>1, <2>5, <3>1, <3>2, <6>1 DEF SuccessorsInv
        <5>. QED BY <5>1, <5>2
      <4>. QED BY <3>2, <4>1, <4>2, <4>3 DEF SuccessorsInv
    <3>3. CASE f = r BY <1>1, <1>3, <2>2, <2>5, <3>1, <3>3 DEF SuccessorsInv
    <3>4. CASE f # g /\ f # r BY <1>1, <1>10, <2>5, <3>1, <3>4 DEF SuccessorsInv
    <3>. QED BY <3>2, <3>3, <3>4
  <2>12. ASSUME NEW u \in L10nThreads PROVE DomainInv(u)'
    <3>1. DomainInv(u) BY DEF L10nInv
    <3>. QED BY <1>1, <1>10, <1>12, <2>5, <3>1 DEF DomainInv
  <2>. QED BY <2>8, <2>9, <2>10, <2>11, <2>12 DEF L10nInv
<1>13. CASE /\ k = 1 /\ domain' = [domain EXCEPT ![t] = retval] /\ Goto(t, "walk")
            /\ UNCHANGED list
  <2>1. calls' = <<>> /\ Len(calls') = 0 BY <1>7, <1>13
  <2>2. l10npc' = [l10npc EXCEPT ![t] = "walk"] /\ l10npc \in [L10nThreads -> L10nLabels]
    BY <1>13 DEF Goto, L10nInv, L10nTypeOK
  <2>3. \A u \in L10nThreads : l10npc'[u] # "inherit" BY <1>11, <2>2
  <2>4. r = Full(locale[t]) BY <1>2, <1>4, <1>5, <1>9, <1>13 DEF Full
  <2>5. L10nTypeOK' BY <1>1, <1>2, <1>6, <1>7, <1>13, <2>2 DEF L10nInv, L10nTypeOK, L10nLabels
  <2>6. HolderInv' BY <2>1, <2>3 DEF HolderInv, Locked
  <2>7. CallsInv' BY <2>1, <2>3 DEF CallsInv
  <2>8. ASSUME NEW f \in DOMAIN list' PROVE SuccessorsInv(f)'
    <3>1. SuccessorsInv(f) BY <1>13 DEF L10nInv
    <3>. QED BY <1>1, <1>3, <1>10, <1>13, <3>1 DEF SuccessorsInv
  <2>9. ASSUME NEW u \in L10nThreads PROVE DomainInv(u)'
    <3>1. DomainInv(u) BY DEF L10nInv
    <3>2. CASE u = t
      <4>1. l10npc'[t] = "walk" /\ domain'[t] = r /\ locale' = locale
        BY <1>1, <1>2, <1>13, <2>2 DEF L10nInv, L10nTypeOK
      <4>. QED BY <1>2, <1>10, <1>13, <2>4, <3>2, <4>1 DEF DomainInv, Full, Expanded
    <3>3. CASE u # t BY <1>1, <1>10, <1>13, <2>2, <3>1, <3>3 DEF DomainInv
    <3>. QED BY <3>2, <3>3
  <2>. QED BY <2>5, <2>6, <2>7, <2>8, <2>9 DEF L10nInv
<1>. QED BY <1>1, <1>5, <1>12, <1>13

(* The list at every step of the loops that fill it: who fills it, which    *)
(* calls are pending and how far each has come, and that every file has the *)
(* successors it inherits from, as far as it has any.                       *)
THEOREM L10nInvariant == L10nSpec => []L10nInv
<1>1. L10nInit => L10nInv
  <2>. SUFFICES ASSUME L10nInit PROVE L10nInv
    OBVIOUS
  <2>1. L10nTypeOK BY DEF L10nInit, L10nTypeOK, L10nLabels
  <2>. QED BY <2>1 DEF L10nInit, L10nInv, HolderInv, Locked, CallsInv, DomainInv
<1>2. L10nInv /\ [L10nNext]_l10nvars => L10nInv'
  <2>. SUFFICES ASSUME L10nInv, [L10nNext]_l10nvars PROVE L10nInv'
    OBVIOUS
  <2>1. CASE UNCHANGED l10nvars
    BY <2>1 DEF l10nvars, L10nInv, L10nTypeOK, HolderInv, Locked, CallsInv, CallInv,
                SuccessorsInv, Unfinished, DomainInv
  <2>2. ASSUME NEW t \in L10nThreads,
               \/ Call(t) \/ SearchList(t) \/ MakeList(t) \/ Inherit(t) \/ ReturnEntry(t)
               \/ Walk(t) \/ ReturnDomain(t)
        PROVE  L10nInv'
    BY <2>2, CallStep, SearchListStep, MakeListStep, InheritStep, ReturnEntryStep, WalkStep,
       ReturnDomainStep
  <2>. QED BY <2>1, <2>2 DEF L10nNext
<1>. QED BY <1>1, <1>2, PTL DEF L10nSpec

-----------------------------------------------------------------------------
(* What a lookup finds.                                                    *)
LEMMA WalkedFacts ==
  ASSUME L10nInv, NEW f \in DOMAIN list
  PROVE  \E n \in 0..Len(list[f]) :
           /\ Walked(f) \in Seq(Files) /\ Len(Walked(f)) = n
           /\ \A i \in 1..n : list[f][i] # L10nNull /\ Walked(f)[i] = list[f][i]
           /\ shortages = 0 => n = Len(list[f]) /\ Walked(f) = list[f]
<1>. DEFINE s == list[f]
            I == {i \in 1..Len(s) : s[i] = L10nNull}
<1>1. s \in Seq(Files \cup {L10nNull}) /\ SuccessorsInv(f) BY DEF L10nInv, L10nTypeOK
<1>2. Len(s) \in Nat /\ \A i \in 1..Len(s) : s[i] \in Files \cup {L10nNull} BY <1>1
<1>3. SelectInSeq(s, LAMBDA g : g = L10nNull) = IF I # {} THEN Min(I) ELSE 0
  BY DEF SelectInSeq
<1>4. Walked(f) = LET n == IF I # {} THEN Min(I) ELSE 0
                  IN  IF n = 0 THEN s ELSE SubSeq(s, 1, n - 1)
  BY <1>3 DEF Walked
<1>5. shortages = 0 => I = {}
  <2>1. \A i \in 1..Len(s) : s[i] = L10nNull => shortages > 0
    BY <1>1, FilesAssumption DEF SuccessorsInv, L10nInv, L10nTypeOK
  <2>. QED BY <2>1
<1>6. I \in SUBSET Nat OBVIOUS
<1>7. \A i \in I : i \in 1..Len(s) /\ s[i] = L10nNull OBVIOUS
<1>8. \A i \in 1..Len(s) : s[i] = L10nNull => i \in I OBVIOUS
<1>. HIDE DEF I
<1>9. CASE I = {}
  <2>1. Walked(f) = s BY <1>4, <1>9
  <2>2. \A i \in 1..Len(s) : s[i] # L10nNull BY <1>8, <1>9
  <2>3. s \in Seq(Files) BY <1>1, <1>2, <2>2
  <2>4. Len(s) \in 0..Len(s) BY <1>2
  <2>. QED BY <2>1, <2>2, <2>3, <2>4
<1>10. CASE I # {}
  <2>1. \E x \in I : \A y \in I : x <= y BY <1>6, <1>10, SmallestNumber
  <2>2. Min(I) \in I /\ \A y \in I : Min(I) <= y BY <2>1 DEF Min
  <2>3. PICK n : n = Min(I) - 1 OBVIOUS
  <2>4. n \in 0..Len(s) /\ n < Len(s) /\ Min(I) # 0 /\ \A i \in 1..n : i \in 1..Len(s) /\ i \notin I
    BY <1>2, <1>7, <2>2, <2>3
  <2>5. Walked(f) = SubSeq(s, 1, n) BY <1>4, <1>10, <2>3, <2>4
  <2>6. \A i \in 1..n : s[i] \in Files /\ s[i] # L10nNull BY <1>2, <1>8, <2>4, FilesAssumption
  <2>7. /\ SubSeq(s, 1, n) \in Seq(Files)
        /\ Len(SubSeq(s, 1, n)) = IF 1 <= n THEN n - 1 + 1 ELSE 0
        /\ \A i \in 1..(n - 1 + 1) : SubSeq(s, 1, n)[i] = s[1 + i - 1]
    BY <2>4, <2>6, SubSeqProperties
  <2>8. n - 1 + 1 = n /\ \A i \in 1..n : 1 + i - 1 = i BY <2>4
  <2>9. (IF 1 <= n THEN n - 1 + 1 ELSE 0) = n BY <2>4
  <2>10. \A i \in 1..n : SubSeq(s, 1, n)[i] = s[i] BY <2>7, <2>8
  <2>. QED BY <1>5, <1>10, <2>4, <2>5, <2>6, <2>7, <2>9, <2>10
<1>. QED BY <1>9, <1>10

\* Every file of the list that is complete has the successors it inherits from.
LEMMA FinishedFile ==
  ASSUME L10nInv, NEW f \in DOMAIN list \ Unfinished
  PROVE  /\ IsPrefix(Walked(f), Inheritance[f])
         /\ shortages = 0 => list[f] = Inheritance[f] /\ Walked(f) = Inheritance[f]
         /\ ToSet(Walked(f)) \subseteq DOMAIN list
<1>1. PICK n \in LocaleNames : \E m \in SUBSET Explode(n) : f = Filename(n, m)
  BY DEF L10nInv, L10nTypeOK, Files
<1>2. Inheritance[f] \in Seq(Files) BY <1>1, FileInherits
<1>3. SuccessorsInv(f) /\ list[f] \in Seq(Files \cup {L10nNull}) /\ shortages \in Nat
  BY DEF L10nInv, L10nTypeOK
<1>4. PICK j \in 0..Len(list[f]) :
        /\ Walked(f) \in Seq(Files) /\ Len(Walked(f)) = j
        /\ \A i \in 1..j : list[f][i] # L10nNull /\ Walked(f)[i] = list[f][i]
        /\ shortages = 0 => j = Len(list[f]) /\ Walked(f) = list[f]
  BY WalkedFacts
<1>5. Len(list[f]) = Len(Inheritance[f]) /\ Len(list[f]) \in Nat BY <1>3 DEF SuccessorsInv
<1>6. \A i \in 1..j : Walked(f)[i] = Inheritance[f][i] /\ Walked(f)[i] \in DOMAIN list
  BY <1>3, <1>4 DEF SuccessorsInv
<1>7. IsPrefix(Walked(f), Inheritance[f])
  <2>1. SubSeq(Walked(f), 1, j) = [i \in 1..j |-> Walked(f)[i]]
    BY <1>4
  <2>2. SubSeq(Inheritance[f], 1, j) = [i \in 1..j |-> Inheritance[f][i]]
    BY <1>2, <1>4, <1>5
  <2>. QED BY <1>4, <1>5, <1>6, <2>1, <2>2 DEF IsPrefix
<1>8. shortages = 0 => list[f] = Inheritance[f]
  <2>. SUFFICES ASSUME shortages = 0 PROVE list[f] = Inheritance[f]
    OBVIOUS
  <2>1. \A i \in 1..Len(list[f]) : list[f][i] = Inheritance[f][i] BY <1>4, <1>6
  <2>. QED BY <1>2, <1>3, <1>5, <2>1
<1>9. ToSet(Walked(f)) \subseteq DOMAIN list
  <2>1. DOMAIN Walked(f) = 1..j BY <1>4
  <2>. QED BY <1>6, <2>1 DEF ToSet
<1>. QED BY <1>4, <1>7, <1>8, <1>9

LEMMA ListInherits == L10nInv => Inherits
<1>. SUFFICES ASSUME L10nInv PROVE Inherits
  OBVIOUS
<1>1. ASSUME NEW f \in DOMAIN list PROVE Len(list[f]) < Slots(f)
  <2>1. PICK n \in LocaleNames : \E m \in SUBSET Explode(n) : f = Filename(n, m)
    BY DEF L10nInv, L10nTypeOK, Files
  <2>6. PICK m \in SUBSET Explode(n) : f = Filename(n, m) BY <2>1
  <2>2. Len(list[f]) <= Len(Inheritance[f]) /\ Len(list[f]) \in Nat
    BY DEF L10nInv, L10nTypeOK, SuccessorsInv
  <2>3. Len(Inheritance[f]) = Len(Below[m]) /\ m \in SUBSET Parts BY <2>6, FileInherits
  <2>4. Len(Below[m]) \in Nat BY <2>3, BelowFacts
  <2>5. Slots(f) \in Nat /\ Len(Below[m]) < Slots(f) BY <2>6, EnoughSlots
  <2>. QED BY <2>2, <2>3, <2>4, <2>5
<1>. QED BY <1>1, FinishedFile DEF Inherits

(* Whatever names have been looked up, in whatever order, and whenever      *)
(* memory was short: a file that _nl_make_l10nflist has put into the list   *)
(* inherits from the right files in the documented order, and the array of  *)
(* its successors has room for them.                                        *)
THEOREM InheritanceKept == L10nSpec => []Inherits
BY L10nInvariant, ListInherits, PTL

LEMMA WalkComplete ==
  ASSUME AliasesApart, L10nInv, NEW t \in L10nThreads, Walk(t)
  PROVE  Complete(t)'
<1>. SUFFICES ASSUME shortages = 0, "norm_codeset" \notin Explode(locale[t])
              PROVE  answer'[t] = Candidates(locale[t])
  BY DEF Complete, Walk, Candidates, Expanded, WithData
<1>1. /\ locale[t] \in Locales /\ DomainInv(t) /\ l10npc[t] = "walk"
      /\ DOMAIN answer = L10nThreads /\ DOMAIN list \in SUBSET Files
  BY DEF Walk, L10nInv, L10nTypeOK
<1>2. /\ domain[t] \in {Searched(locale[t]), Full(locale[t])}
      /\ domain[t] \in DOMAIN list \ Unfinished
  BY <1>1 DEF DomainInv
<1>3. domain[t] = Full(locale[t])
  <2>1. CASE locale[t] \in DOMAIN Aliases BY <1>1, <1>2, <2>1 DEF AliasesApart
  <2>2. CASE locale[t] \notin DOMAIN Aliases
    <3>1. Explode(locale[t]) \ {"norm_codeset"} = Explode(locale[t]) OBVIOUS
    <3>. QED BY <1>2, <2>2, <3>1 DEF Searched, Full, Expanded
  <2>. QED BY <2>1, <2>2
<1>4. Walked(domain[t]) = Inheritance[domain[t]] BY <1>2, FinishedFile
<1>5. domain[t] # L10nNull BY <1>1, <1>2, FilesAssumption
<1>6. answer'[t] = WithData(<<domain[t]>> \o Walked(domain[t])) BY <1>1, <1>5 DEF Walk
<1>. QED BY <1>3, <1>4, <1>6, Zenon DEF Candidates, Full

(* A lookup by _nl_find_domain finds the catalogs of its locale name, in    *)
(* the documented order, whatever has been looked up before; if no name of  *)
(* an alias is the name of a file that another locale name inherits from    *)
(* (finddomain.c:93 would take that file for the alias).                    *)
THEOREM AnswerFound ==
  ASSUME AliasesApart
  PROVE  L10nSpec => []AnswerComplete
<1>. DEFINE Answered == \A t \in L10nThreads : Complete(t)
<1>1. L10nInit => Answered BY DEF L10nInit, Complete
<1>2. L10nInv /\ Answered /\ [L10nNext]_l10nvars => Answered'
  <2>. SUFFICES ASSUME L10nInv, Answered, [L10nNext]_l10nvars, NEW u \in L10nThreads
                PROVE  Complete(u)'
    OBVIOUS
  <2>1. Complete(u) /\ l10npc \in [L10nThreads -> L10nLabels] /\ shortages \in Nat
    BY DEF L10nInv, L10nTypeOK
  <2>2. CASE UNCHANGED l10nvars
    BY <2>1, <2>2 DEF l10nvars, Complete, Candidates, Expanded, WithData
  <2>3. ASSUME NEW t \in L10nThreads, Walk(t) PROVE Complete(u)'
    <3>1. CASE u = t BY <2>3, <3>1, WalkComplete
    <3>2. CASE u # t BY <2>1, <2>3, <3>2 DEF Walk, Goto, Complete, Candidates, Expanded, WithData
    <3>. QED BY <3>1, <3>2
  <2>4. ASSUME NEW t \in L10nThreads,
               Call(t) \/ SearchList(t) \/ MakeList(t) \/ Inherit(t) \/ ReturnEntry(t)
                 \/ ReturnDomain(t)
        PROVE  Complete(u)'
    <3>1. CASE l10npc'[u] # "return" BY <3>1 DEF Complete
    <3>2. CASE l10npc'[u] = "return"
      <4>1. u # t BY <2>1, <2>4, <3>2
        DEF Call, SearchList, MakeList, Inherit, ReturnEntry, ReturnDomain, Goto, L10nInv
      <4>2. l10npc[u] = "return" /\ locale'[u] = locale[u] /\ answer'[u] = answer[u]
            /\ (shortages' = 0 => shortages = 0)
        <5>1. CASE Call(t) BY <2>1, <3>2, <4>1, <5>1 DEF Call, Goto
        <5>2. CASE SearchList(t) BY <2>1, <3>2, <4>1, <5>2 DEF SearchList, Goto, Short
        <5>3. CASE MakeList(t) BY <2>1, <3>2, <4>1, <5>3 DEF MakeList, Goto, Short
        <5>4. CASE Inherit(t) BY <2>1, <3>2, <4>1, <5>4 DEF Inherit, Short
        <5>5. CASE ReturnEntry(t) BY <2>1, <3>2, <4>1, <5>5 DEF ReturnEntry, Goto
        <5>6. CASE ReturnDomain(t) BY <2>1, <3>2, <4>1, <5>6 DEF ReturnDomain, Goto
        <5>. QED BY <2>4, <5>1, <5>2, <5>3, <5>4, <5>5, <5>6
      <4>. QED BY <2>1, <4>2 DEF Complete, Candidates, Expanded, WithData
    <3>. QED BY <3>1, <3>2
  <2>. QED BY <2>2, <2>3, <2>4 DEF L10nNext
<1>. HIDE DEF Answered
<1>3. L10nInv /\ Answered => AnswerComplete BY ListInherits DEF AnswerComplete, Answered
<1>. QED BY <1>1, <1>2, <1>3, L10nInvariant, PTL DEF L10nSpec
=============================================================================
