---------------------------- MODULE LocaleAlias -----------------------------
(***************************************************************************)
(* The table of locale aliases (localealias.c), shared by the threads that *)
(* look for a catalog (finddomain.c).  The alias files are read one after  *)
(* the other, as far as the lookups need them, into one pool of strings    *)
(* that grows by reallocation.                                             *)
(***************************************************************************)
EXTENDS Naturals, Sequences

CONSTANTS
  AliasThreads,
  AliasNames, AliasValues,
  AliasFiles,     \* the files of LOCALE_ALIAS_PATH: sequences of records
                  \* [alias, value]; one that cannot be opened is empty
  MapStep,        \* how many entries a new map has; it is doubled
  PoolStep,       \* how many entries the pool takes more each time
  AliasCalls,     \* how often a thread calls (a bound of the model)
  NoAlias         \* NULL; no thread

ASSUME AliasAssumption ==
  /\ AliasFiles \in Seq(Seq([alias : AliasNames, value : AliasValues]))
  /\ NoAlias \notin AliasThreads /\ NoAlias \notin [value : AliasValues, pool : Nat]

VARIABLES
  aliaslock,     \* the thread that holds lock
  alias_path,    \* how many files have been opened
  map,           \* records [alias, value, pool]: two pointers into pool
  maxmap,
  string_space,  \* the address of the pool
  pool_max,      \* how many entries it takes
  line,          \* the next line of the file that is being read
  added,
  nomemory,      \* an allocation has failed
  aliaspc, aliasname, aliasresult, aliascalls

aliasvars == <<aliaslock, alias_path, map, maxmap, string_space, pool_max, line, added,
               nomemory, aliaspc, aliasname, aliasresult, aliascalls>>
aliastable == <<map, maxmap, string_space, pool_max, nomemory>>
aliascall == <<aliasname, aliascalls>>

AliasInit ==
  /\ aliaslock = NoAlias /\ alias_path = 0
  /\ map = <<>> /\ maxmap = 0 /\ string_space = 0 /\ pool_max = 0
  /\ line = 0 /\ added = 0 /\ nomemory = FALSE
  /\ aliaspc = [t \in AliasThreads |-> "idle"]
  /\ aliasname = [t \in AliasThreads |-> NoAlias]
  /\ aliasresult = [t \in AliasThreads |-> NoAlias]
  /\ aliascalls = [t \in AliasThreads |-> 0]

AliasGoto(t, p) == aliaspc' = [aliaspc EXCEPT ![t] = p]

(* A thread calls _nl_expand_alias.                                         *)
ExpandAlias(t) ==
  /\ aliaspc[t] = "idle" /\ aliascalls[t] < AliasCalls
  /\ \E n \in AliasNames : aliasname' = [aliasname EXCEPT ![t] = n]
  /\ aliascalls' = [aliascalls EXCEPT ![t] = @ + 1]
  /\ AliasGoto(t, "lock")
  /\ UNCHANGED <<aliaslock, alias_path, aliastable, line, added, aliasresult>>

LockAlias(t) ==
  /\ aliaspc[t] = "lock" /\ aliaslock = NoAlias
  /\ aliaslock' = t
  /\ AliasGoto(t, "search")
  /\ UNCHANGED <<alias_path, aliastable, line, added, aliasresult, aliascall>>

(* bsearch returns any of the entries for the name.                         *)
Known(t) == { i \in 1..Len(map) : map[i].alias = aliasname[t] }

SearchMap(t) ==
  /\ aliaspc[t] = "search" /\ Known(t) # {}
  /\ \E i \in Known(t) :
       aliasresult' = [aliasresult EXCEPT ![t] = [value |-> map[i].value, pool |-> map[i].pool]]
  /\ AliasGoto(t, "unlock")
  /\ UNCHANGED <<aliaslock, alias_path, aliastable, line, added, aliascall>>

(* Perhaps we can find another alias file.                                  *)
NextFile(t) ==
  /\ aliaspc[t] = "search" /\ Known(t) = {}
  /\ IF alias_path < Len(AliasFiles)
     THEN /\ alias_path' = alias_path + 1 /\ line' = 1 /\ added' = 0
          /\ AliasGoto(t, "read")
          /\ UNCHANGED aliasresult
     ELSE /\ aliasresult' = [aliasresult EXCEPT ![t] = NoAlias]
          /\ AliasGoto(t, "unlock")
          /\ UNCHANGED <<alias_path, line, added>>
  /\ UNCHANGED <<aliaslock, aliastable, aliascall>>

(* read_alias_file is at its end: the map is searched again if something    *)
(* was added, otherwise another file is read, if there is one.              *)
EndFile(t) ==
  /\ line' = 0 /\ added' = 0
  /\ IF added = 0 /\ alias_path = Len(AliasFiles)
     THEN /\ aliasresult' = [aliasresult EXCEPT ![t] = NoAlias]
          /\ AliasGoto(t, "unlock")
     ELSE AliasGoto(t, "search") /\ UNCHANGED aliasresult
  /\ UNCHANGED <<aliaslock, alias_path, aliascall>>

ReadEnd(t) ==
  /\ aliaspc[t] = "read" /\ line > Len(AliasFiles[alias_path])
  /\ EndFile(t)
  /\ UNCHANGED aliastable

(* The entries of the map after realloc has moved the pool.                 *)
MovedMutant(p) ==   \* ... all but the last one
  [i \in 1..Len(map) |-> IF i < Len(map) THEN [map[i] EXCEPT !.pool = p] ELSE map[i]]
Moved(p) == [i \in 1..Len(map) |-> [map[i] EXCEPT !.pool = p]]

(* A line of the file.  extend_alias_table makes room in the map, realloc   *)
(* in the pool; if one of them fails, the rest of the file is skipped.      *)
MapFull == Len(map) >= maxmap
PoolFull == Len(map) >= pool_max
MapGrown == IF ~MapFull THEN maxmap ELSE IF maxmap = 0 THEN MapStep ELSE 2 * maxmap

ReadFails(t) ==
  /\ aliaspc[t] = "read" /\ line <= Len(AliasFiles[alias_path])
  /\ MapFull \/ PoolFull
  /\ nomemory' = TRUE
  /\ maxmap' = maxmap \/ (PoolFull /\ maxmap' = MapGrown)
  /\ EndFile(t)
  /\ UNCHANGED <<map, string_space, pool_max>>

ReadAlias(t) ==
  /\ aliaspc[t] = "read" /\ line <= Len(AliasFiles[alias_path])
  /\ maxmap' = MapGrown
  /\ IF PoolFull
     THEN pool_max' = pool_max + PoolStep /\ string_space' \in {string_space, string_space + 1}
     ELSE UNCHANGED <<pool_max, string_space>>
  /\ LET e == AliasFiles[alias_path][line]
         m == IF string_space' = string_space THEN map ELSE Moved(string_space')
     IN map' = Append(m, [alias |-> e.alias, value |-> e.value, pool |-> string_space'])
  /\ line' = line + 1 /\ added' = added + 1
  /\ UNCHANGED <<aliaslock, alias_path, nomemory, aliaspc, aliasresult, aliascall>>

UnlockAlias(t) ==
  /\ aliaspc[t] = "unlock"
  /\ aliaslock' = NoAlias
  /\ AliasGoto(t, "copy")
  /\ UNCHANGED <<alias_path, aliastable, line, added, aliasresult, aliascall>>

(* _nl_find_domain copies the value it was given.                           *)
CopyAlias(t) ==
  /\ aliaspc[t] = "copy"
  /\ aliasresult' = [aliasresult EXCEPT ![t] = NoAlias]
  /\ AliasGoto(t, "idle")
  /\ UNCHANGED <<aliaslock, alias_path, aliastable, line, added, aliascall>>

AliasNext ==
  \E t \in AliasThreads :
    \/ ExpandAlias(t) \/ LockAlias(t) \/ SearchMap(t) \/ NextFile(t)
    \/ ReadAlias(t) \/ ReadFails(t) \/ ReadEnd(t) \/ UnlockAlias(t) \/ CopyAlias(t)

AliasSpec == AliasInit /\ [][AliasNext]_aliasvars

----------------------------------------------------------------------------
(* Properties.                                                              *)

LinesFor(f, n) == { i \in 1..Len(AliasFiles[f]) : AliasFiles[f][i].alias = n }

Defined(n) ==
  UNION { { AliasFiles[f][i].value : i \in LinesFor(f, n) } : f \in 1..Len(AliasFiles) }

(* _nl_expand_alias returns a value that one of the files gives the name,   *)
(* as a pointer into the pool there is, however often the pool has moved    *)
(* and wherever reading was broken off; and it returns NULL only for a name *)
(* that no file defines, unless there was no memory.                        *)
ExpandSound ==
  \A t \in AliasThreads : aliaspc[t] = "unlock" =>
    IF aliasresult[t] = NoAlias THEN Defined(aliasname[t]) = {} \/ nomemory
    ELSE /\ aliasresult[t].value \in Defined(aliasname[t])
         /\ aliasresult[t].pool = string_space
=============================================================================
