----------------------------- MODULE HashTable ------------------------------
(***************************************************************************)
(* The hash tables of the gettext tools (gnulib-local/lib/hash.c): open    *)
(* addressing with double hashing in a table whose size is a prime, which  *)
(* is enlarged when more than three quarters of it are filled, and a       *)
(* circular list of the entries.  The order of the list is not that of the *)
(* insertions after an enlargement: resize inserts the entries anew, in    *)
(* the order of their indices.                                             *)
(*                                                                         *)
(* A step of the model is an iteration of one of its loops.                *)
(***************************************************************************)
EXTENDS Primes, Sequences, FiniteSets

CONSTANTS
  HashKeys,
  HashData,
  HashFunctions,  \* compute_hashval may be any of these
  HashRequests,   \* the calls: records [op, key, data]
  InitSize,       \* the argument of hash_init
  MaxSize,        \* no larger table is enlarged (a bound of the model)
  Free,           \* an entry with used = 0
  NoCall, Absent

HashEntries == [key : HashKeys, data : HashData]

ASSUME HashAssumption ==
  /\ \A f \in HashFunctions : f \in [HashKeys -> Nat \ {0}]
  /\ \A c \in HashRequests :
       c.op \in {"insert", "set", "find"} /\ c.key \in HashKeys /\ c.data \in HashData
  /\ Free \notin HashEntries
  /\ NoCall \notin HashData /\ NoCall \notin HashRequests /\ NoCall # Absent

(* next_prime finds a number up to twice its argument (Bertrand's postulate, *)
(* which the proofs take for granted for the sizes that tables come to).    *)
ASSUME SizeAssumption ==
  /\ InitSize \in Nat /\ InitSize > 1 /\ MaxSize \in Nat
  /\ \A n \in {InitSize} \cup { 2 * s : s \in 3..MaxSize } :
       \E p \in Odd(n)..(2 * n + 3) : p % 2 = 1 /\ is_prime(p)

VARIABLES
  hashval,   \* compute_hashval, fixed in the initial state
  size,      \* htab->size
  filled,    \* htab->filled
  table,     \* htab->table
  link,      \* the field next of its entries: the index of another one
  first,     \* htab->first: the entry inserted last, 0 for NULL
  hpc,       \* the point the program is at
  call,      \* the call that is executed
  ret,       \* its result, or NoCall
  idx,       \* the index lookup has come to
  probed,    \* the indices it has been at before
  old,       \* resize: the old table
  oldsize,   \* resize: old_size
  oldidx,    \* resize: the index in the old table
  ptr,       \* hash_iterate: the entry *ptr points to, 0 for NULL
  seen       \* the keys it has returned

tablevars == <<size, filled, table, link, first>>
lookupvars == <<idx, probed>>
resizevars == <<old, oldsize, oldidx>>
iteratevars == <<ptr, seen>>
hashvars == <<hashval, tablevars, hpc, call, ret, lookupvars, resizevars, iteratevars>>

Empty(n) == [i \in 1..n |-> Free]

HashInit ==
  /\ hashval \in HashFunctions
  /\ size = next_prime(InitSize) /\ filled = 0 /\ first = 0
  /\ table = Empty(size) /\ link = [i \in 1..size |-> 0]
  /\ hpc = "idle" /\ call = NoCall /\ ret = NoCall
  /\ idx = 0 /\ probed = {} /\ old = Empty(0) /\ oldsize = 0 /\ oldidx = 0
  /\ ptr = 0 /\ seen = <<>>

----------------------------------------------------------------------------
(* lookup.                                                                  *)

(* The key lookup is called with: by a call, or by resize.                  *)
Sought == IF hpc = "move" THEN old[oldidx].key ELSE call.key

Home(k) == 1 + (hashval[k] % size)
StepMutant(k) == hashval[k] % (size - 2)
Step(k) == 1 + (hashval[k] % (size - 2))
Next_(k, i) == IF i <= Step(k) THEN (size + i) - Step(k) ELSE i - Step(k)

Hit == table[idx] # Free /\ table[idx].key = Sought

Begin(c) ==
  /\ hpc = "idle" /\ size <= MaxSize
  /\ hpc' = "probe" /\ call' = c
  /\ idx' = Home(c.key) /\ probed' = {}
  /\ UNCHANGED <<hashval, tablevars, ret, resizevars, iteratevars>>

Probe ==
  /\ hpc \in {"probe", "move"} /\ table[idx] # Free /\ ~Hit
  /\ idx' = Next_(Sought, idx)
  /\ probed' = probed \cup {idx}
  /\ UNCHANGED <<hashval, tablevars, hpc, call, ret, resizevars, iteratevars>>

----------------------------------------------------------------------------
(* hash_find_entry, hash_insert_entry, hash_set_value.                      *)

(* insert_entry_2, which puts the entry into the circular list.             *)
LinkedMutant(i) ==
  IF first = 0 THEN [link EXCEPT ![i] = i] ELSE [link EXCEPT ![i] = first, ![first] = i]

Linked(i) ==
  IF first = 0 THEN [link EXCEPT ![i] = i]
  ELSE [link EXCEPT ![i] = link[first], ![first] = i]

InsertEntry(k, d, i) ==
  /\ table' = [table EXCEPT ![i] = [key |-> k, data |-> d]]
  /\ link' = Linked(i)
  /\ first' = i
  /\ filled' = filled + 1
  /\ UNCHANGED size

Crowded(n) == 100 * n > 75 * size

Found ==
  /\ hpc = "probe" /\ Hit
  /\ \/ /\ call.op = "find"
        /\ ret' = table[idx].data /\ UNCHANGED table
     \/ /\ call.op = "insert"
        /\ ret' = Absent /\ UNCHANGED table
     \/ /\ call.op = "set"
        /\ table' = [table EXCEPT ![idx].data = call.data]
        /\ ret' = call.data
  /\ hpc' = "return"
  /\ UNCHANGED <<hashval, size, filled, link, first, call, lookupvars, resizevars, iteratevars>>

NotFound ==
  /\ hpc = "probe" /\ table[idx] = Free
  /\ \/ /\ call.op = "find"
        /\ ret' = Absent /\ hpc' = "return" /\ UNCHANGED tablevars
     \/ /\ call.op # "find"
        /\ InsertEntry(call.key, call.data, idx)
        /\ ret' = call.data
        /\ hpc' = IF Crowded(filled + 1) THEN "resize" ELSE "return"
  /\ UNCHANGED <<hashval, call, lookupvars, resizevars, iteratevars>>

Return ==
  /\ hpc = "return"
  /\ hpc' = "idle" /\ call' = NoCall /\ ret' = NoCall
  /\ UNCHANGED <<hashval, tablevars, lookupvars, resizevars, iteratevars>>

----------------------------------------------------------------------------
(* resize.                                                                  *)

Resize ==
  /\ hpc = "resize"
  /\ size' = next_prime(2 * size) /\ filled' = 0 /\ first' = 0
  /\ table' = Empty(size') /\ link' = [i \in 1..size' |-> 0]
  /\ old' = table /\ oldsize' = size /\ oldidx' = 1
  /\ hpc' = "scan"
  /\ UNCHANGED <<hashval, call, ret, lookupvars, iteratevars>>

(* The head of its loop, and the end.                                       *)
MoreMutant == oldidx < oldsize
More == oldidx <= oldsize

Scan ==
  /\ hpc = "scan" /\ More
  /\ IF old[oldidx] = Free
     THEN oldidx' = oldidx + 1 /\ UNCHANGED <<hpc, lookupvars>>
     ELSE /\ idx' = Home(old[oldidx].key) /\ probed' = {}
          /\ hpc' = "move" /\ UNCHANGED oldidx
  /\ UNCHANGED <<hashval, tablevars, call, ret, old, oldsize, iteratevars>>

Resized ==
  /\ hpc = "scan" /\ ~More
  /\ hpc' = "return" /\ old' = Empty(0) /\ oldsize' = 0 /\ oldidx' = 0
  /\ UNCHANGED <<hashval, tablevars, call, ret, lookupvars, iteratevars>>

Move ==
  /\ hpc = "move" /\ (table[idx] = Free \/ Hit)
  /\ InsertEntry(old[oldidx].key, old[oldidx].data, idx)
  /\ oldidx' = oldidx + 1
  /\ hpc' = "scan"
  /\ UNCHANGED <<hashval, call, ret, lookupvars, old, oldsize, iteratevars>>

----------------------------------------------------------------------------
(* hash_iterate, called until it returns -1.                                *)

BeginIterate ==
  /\ hpc = "idle"
  /\ hpc' = "iterate" /\ ptr' = 0 /\ seen' = <<>>
  /\ UNCHANGED <<hashval, tablevars, call, ret, lookupvars, resizevars>>

AtLast == IF ptr = 0 THEN first = 0 ELSE ptr = first

Iterate_ ==
  /\ hpc = "iterate" /\ ~AtLast
  /\ ptr' = link[IF ptr = 0 THEN first ELSE ptr]
  /\ seen' = Append(seen, table[ptr'].key)
  /\ UNCHANGED <<hashval, tablevars, hpc, call, ret, lookupvars, resizevars>>

EndIterate ==
  /\ hpc = "iterate" /\ AtLast
  /\ hpc' = "idle" /\ ptr' = 0 /\ seen' = <<>>
  /\ UNCHANGED <<hashval, tablevars, call, ret, lookupvars, resizevars>>

HashNext ==
  \/ (\E c \in HashRequests : Begin(c))
  \/ Probe \/ Found \/ NotFound \/ Return
  \/ Resize \/ Scan \/ Move \/ Resized
  \/ BeginIterate \/ Iterate_ \/ EndIterate

HashSpec == HashInit /\ [][HashNext]_hashvars

----------------------------------------------------------------------------
(* Properties.                                                              *)

(* The entries of the table and those resize has still to move.             *)
Moving == { i \in 1..oldsize : i >= oldidx }
Stored == ({ table[i] : i \in 1..size } \cup { old[i] : i \in Moving }) \ {Free}

Dict == INSTANCE Dictionary
          WITH Keys <- HashKeys, Data <- HashData, Requests <- HashRequests,
               None <- NoCall, Missing <- Absent,
               entries <- Stored, request <- call, answer <- ret

(* Through collisions, insertions and enlargements a caller sees a          *)
(* dictionary: every key has one entry, which every lookup finds, and a     *)
(* lookup of another key finds nothing.                                     *)
ImplementsDictionary == Dict!DSpec

(* lookup never comes back to an entry it has seen, and so it ends: there   *)
(* is always a free entry, and the second hash function reaches all of      *)
(* them.                                                                    *)
ProbesAdvance == hpc \in {"probe", "move"} => idx \notin probed

(* hash_iterate goes through the circular list once, and returns every key  *)
(* of the table once.                                                       *)
IterationComplete ==
  hpc = "iterate" /\ AtLast =>
    /\ { seen[n] : n \in 1..Len(seen) } = { e.key : e \in Stored }
    /\ Len(seen) = Cardinality(Stored)

----------------------------------------------------------------------------
(* The inductive invariant.                                                 *)

HashTypeOK ==
  /\ hashval \in [HashKeys -> Nat]
  /\ size \in Nat /\ size > 2
  /\ table \in [1..size -> HashEntries \cup {Free}]
  /\ hpc \in {"idle", "probe", "return", "resize", "scan", "move", "iterate"}
  /\ IF hpc \in {"idle", "iterate"} THEN call = NoCall ELSE call \in HashRequests
  /\ IF hpc \in {"idle", "iterate", "probe"} THEN ret = NoCall
     ELSE ret \in HashData \cup {Absent}
  /\ hpc \in {"probe", "resize"} => size <= MaxSize
  /\ hpc \in {"probe", "move"} => idx \in 1..size
  /\ oldsize \in Nat /\ oldidx \in Nat
  /\ old \in [1..oldsize -> HashEntries \cup {Free}]
  /\ hpc \notin {"scan", "move"} => oldsize = 0
  /\ hpc = "scan" => oldidx > 0
  /\ hpc = "move" => oldidx \in 1..oldsize /\ old[oldidx] # Free

(* A key has one entry.                                                     *)
UniqueKeys ==
  /\ \A i, j \in 1..size :
       table[i] # Free /\ table[j] # Free /\ table[i].key = table[j].key => i = j
  /\ \A i, j \in Moving :
       old[i] # Free /\ old[j] # Free /\ old[i].key = old[j].key => i = j
  /\ \A i \in 1..size, j \in Moving :
       table[i] # Free /\ old[j] # Free => table[i].key # old[j].key

(* From its first index on, lookup comes to index i by way of the indices   *)
(* in P, which are used for other keys.                                     *)
Path(k, i, P) ==
  /\ Home(k) \in P \cup {i}
  /\ \A x \in P : /\ x \in 1..size /\ Next_(k, x) \in P \cup {i}
                  /\ table[x] # Free /\ table[x].key # k

Reachable ==
  \A i \in 1..size : table[i] # Free => \E P \in SUBSET (1..size) : Path(table[i].key, i, P)

(* A lookup has come along such a path, and is on the path to the entry of  *)
(* its key, if there is one.                                                *)
OnPath ==
  hpc \in {"probe", "move"} =>
    /\ Path(Sought, idx, probed)
    /\ \A i \in 1..size : table[i] # Free /\ table[i].key = Sought =>
         \E P \in SUBSET (1..size) : Path(Sought, i, P) /\ idx \in P \cup {i}

(* What has been probed are the indices the probe sequence begins with.     *)
NthProbe(k, n, i) ==
  i \in 1..size /\ \E q \in 0..n : i + n * Step(k) = Home(k) + q * size

ProbeOrder ==
  hpc \in {"probe", "move"} =>
    /\ NthProbe(Sought, Cardinality(probed), idx)
    /\ \A x \in probed : \E n \in 0..(Cardinality(probed) - 1) : NthProbe(Sought, n, x)

(* Some entry is always free.                                               *)
LoadFactor ==
  /\ IsPrime(size)
  /\ hpc \in {"idle", "probe", "return", "iterate"} => ~Crowded(filled)
  /\ hpc \in {"scan", "move"} =>
       filled < oldidx /\ oldidx <= oldsize + 1 /\ 2 * oldsize <= size

(* The circular list links all entries, in some order o, and hash_iterate   *)
(* has come to one of them.                                                 *)
LinkedAs(o) ==
  /\ o \in [1..filled -> 1..size]
  /\ \A m, n \in 1..filled : o[m] = o[n] => m = n
  /\ \A i \in 1..size : table[i] # Free <=> \E n \in 1..filled : o[n] = i
  /\ \A n \in 1..filled : link[o[n]] = IF n = filled THEN o[1] ELSE o[n + 1]
  /\ first = IF filled = 0 THEN 0 ELSE o[filled]

CameTo(o) ==
  hpc = "iterate" =>
    \E m \in 0..filled : /\ ptr = IF m = 0 THEN 0 ELSE o[m]
                         /\ seen = [n \in 1..m |-> table[o[n]].key]

Listed ==
  /\ filled \in Nat /\ link \in [1..size -> 0..size]
  /\ \E o \in [1..filled -> 1..size] : LinkedAs(o) /\ CameTo(o)

HashInv == HashTypeOK /\ UniqueKeys /\ Reachable /\ OnPath
HashOrderInv == HashInv /\ ProbeOrder /\ LoadFactor /\ Listed
=============================================================================
