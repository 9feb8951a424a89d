------------------------------- MODULE MoFile -------------------------------
(***************************************************************************)
(* The strings of an MO file: msgfmt writes them and their hash table      *)
(* (write-mo.c), libintl loads the file and enters the system dependent    *)
(* strings into a copy of the table (loadmsgcat.c), and _nl_find_msg looks *)
(* for a string in it (dcigettext.c).                                      *)
(*                                                                         *)
(* A key is a msgid, together with its msgctxt, as a number; the order is  *)
(* that of strcmp.                                                         *)
(***************************************************************************)
EXTENDS Primes, Sequences, FiniteSets

CONSTANTS
  MoKeys,      \* the keys: a set of numbers
  MoHashes,    \* what hash_string may be
  MoInputs     \* records [static, sysdep, no_hash_table]: the keys of the
               \* static messages; of each system dependent one what its key
               \* is on this system, or 0 if the system lacks a segment

ASSUME MoAssumption ==
  /\ MoKeys \subseteq Nat \ {0}
  /\ \A h \in MoHashes : h \in [MoKeys -> Nat]
  /\ \A in \in MoInputs :
       /\ in.static \subseteq MoKeys /\ IsFiniteSet(in.static)
       /\ in.sysdep \in Seq(MoKeys \cup {0})

(* Bertrand's postulate, as in HashTable, for the sizes of these files.     *)
ASSUME MoSizeAssumption ==
  \A in \in MoInputs :
    LET n == ((Cardinality(in.static) + Len(in.sysdep)) * 4) \div 3
    IN n > 1 => \E p \in Odd(n)..(2 * n + 3) : p % 2 = 1 /\ is_prime(p)

VARIABLES
  mo,             \* the member of MoInputs
  hash_string,
  mopc,           \* "write", "load", "ready", "probe", "bisect", "invalid"
  hash_tab,       \* from 0 on: the number of a string, or 0
  string,         \* the number of the string that is entered
  moidx,          \* idx
  visited,        \* the indices at which the search has been before
  query,          \* what _nl_find_msg looks for
  bottom, top,    \* where it looks for it if there is no hash table
  act             \* the string it has found, 0 if none

movars == <<mo, hash_string, mopc, hash_tab, string, moidx, visited, query, bottom, top, act>>
searchvars == <<query, bottom, top, act>>

Nitems == Cardinality(mo.static) + Len(mo.sysdep)

(* In minor revision 1, that is with system dependent strings, the hash     *)
(* table is obligatory.                                                     *)
Hashed == ~(mo.no_hash_table /\ mo.sysdep = <<>>)

TableSizeMutant(nitems) == IF next_prime(nitems) <= 2 THEN 3 ELSE next_prime(nitems)
TableSize(nitems) ==
  IF next_prime((nitems * 4) \div 3) <= 2 THEN 3 ELSE next_prime((nitems * 4) \div 3)

hash_tab_size == TableSize(Nitems)

(* The sorted static strings, and after them those system dependent ones    *)
(* that exist on this system.                                               *)
nstrings == Cardinality(mo.static)
Present == { i \in 1..Len(mo.sysdep) : mo.sysdep[i] # 0 }
Strings == nstrings + Cardinality(Present)

\* The n-th of a set of numbers.
NthOf(S, n) == CHOOSE k \in S : Cardinality({ x \in S : x <= k }) = n

Orig(n) ==
  IF n <= nstrings THEN NthOf(mo.static, n) ELSE mo.sysdep[NthOf(Present, n - nstrings)]

Home_(k) == hash_string[k] % hash_tab_size
Incr(k) == 1 + (hash_string[k] % (hash_tab_size - 2))
Advance(k, i) ==
  IF i >= hash_tab_size - Incr(k) THEN i - (hash_tab_size - Incr(k)) ELSE i + Incr(k)

(* Where the search for the place of string n starts.                       *)
Start(n) == IF n <= Strings /\ Hashed THEN Home_(Orig(n)) ELSE 0

MoInit ==
  /\ mo \in MoInputs /\ hash_string \in MoHashes
  /\ mopc = "write"
  /\ hash_tab = [i \in 0..(hash_tab_size - 1) |-> 0]
  /\ string = 1 /\ moidx = Start(1) /\ visited = {}
  /\ query = 0 /\ bottom = 0 /\ top = 0 /\ act = 0

----------------------------------------------------------------------------
(* write_table, and the end of _nl_load_domain.  The search for a free      *)
(* entry, which is that of _nl_find_msg too.                                *)
Entering == mopc = "write" /\ Hashed /\ string <= nstrings
Loading == mopc = "load" /\ string <= Strings

Key == IF mopc = "probe" THEN query ELSE Orig(string)
Match == mopc = "probe" /\ hash_tab[moidx] # 0 /\ Orig(hash_tab[moidx]) = query

MoProbe ==
  /\ Entering \/ Loading \/ mopc = "probe"
  /\ hash_tab[moidx] # 0 /\ ~Match
  /\ moidx' = Advance(Key, moidx)
  /\ visited' = visited \cup {moidx}
  /\ UNCHANGED <<mo, hash_string, mopc, hash_tab, string, searchvars>>

Entry(n) == n

Enter ==
  /\ Entering \/ Loading
  /\ hash_tab[moidx] = 0
  /\ hash_tab' = [hash_tab EXCEPT ![moidx] = Entry(string)]
  /\ string' = string + 1
  /\ moidx' = Start(string + 1) /\ visited' = {}
  /\ UNCHANGED <<mo, hash_string, mopc, searchvars>>

(* The file is written, and loaded.                                         *)
Load ==
  /\ mopc = "write" /\ ~Entering
  /\ mopc' = "load"
  /\ string' = nstrings + 1 /\ moidx' = Start(nstrings + 1) /\ visited' = {}
  /\ UNCHANGED <<mo, hash_string, hash_tab, searchvars>>

(* There may be no memory for the strings and the table.                    *)
LoadFails ==
  /\ mopc = "load" /\ string = nstrings + 1 /\ Present # {}
  /\ mopc' = "invalid"
  /\ UNCHANGED <<mo, hash_string, hash_tab, string, moidx, visited, searchvars>>

Loaded ==
  /\ mopc = "load" /\ ~Loading
  /\ mopc' = "ready"
  /\ UNCHANGED <<mo, hash_string, hash_tab, string, moidx, visited, searchvars>>

----------------------------------------------------------------------------
(* _nl_find_msg.                                                            *)
Look(k) ==
  /\ mopc = "ready"
  /\ query' = k /\ act' = 0
  /\ IF Hashed
     THEN mopc' = "probe" /\ moidx' = Home_(k) /\ visited' = {} /\ UNCHANGED <<bottom, top>>
     ELSE mopc' = "bisect" /\ bottom' = 0 /\ top' = nstrings /\ UNCHANGED <<moidx, visited>>
  /\ UNCHANGED <<mo, hash_string, hash_tab, string>>

Looked ==
  /\ mopc = "probe" /\ (hash_tab[moidx] = 0 \/ Match)
  /\ act' = hash_tab[moidx]
  /\ mopc' = "found"
  /\ UNCHANGED <<mo, hash_string, hash_tab, string, moidx, visited, query, bottom, top>>

(* The binary search; its indices start from 0.                             *)
Bisect ==
  /\ mopc = "bisect" /\ bottom < top
  /\ LET n == (bottom + top) \div 2
     IN \/ query < Orig(n + 1) /\ top' = n /\ UNCHANGED <<bottom, act, mopc>>
        \/ query > Orig(n + 1) /\ bottom' = n + 1 /\ UNCHANGED <<top, act, mopc>>
        \/ query = Orig(n + 1) /\ act' = n + 1 /\ mopc' = "found" /\ UNCHANGED <<bottom, top>>
  /\ UNCHANGED <<mo, hash_string, hash_tab, string, moidx, visited, query>>

Bisected ==
  /\ mopc = "bisect" /\ bottom >= top
  /\ mopc' = "found"
  /\ UNCHANGED <<mo, hash_string, hash_tab, string, moidx, visited, searchvars>>

MoReturn ==
  /\ mopc = "found"
  /\ mopc' = "ready" /\ query' = 0 /\ act' = 0 /\ bottom' = 0 /\ top' = 0
  /\ moidx' = 0 /\ visited' = {}
  /\ UNCHANGED <<mo, hash_string, hash_tab, string>>

MoNext ==
  \/ MoProbe \/ Enter \/ Load \/ LoadFails \/ Loaded
  \/ (\E k \in MoKeys : Look(k))
  \/ Looked \/ Bisect \/ Bisected \/ MoReturn

MoSpec == MoInit /\ [][MoNext]_movars

----------------------------------------------------------------------------
(* Properties.                                                              *)

(* The table that msgfmt has written and libintl has completed, and in a    *)
(* file without a table the binary search, find every message whose msgid   *)
(* exists on this system, and no other.  The search for a free entry in     *)
(* writer and loader, and the one for a string in _nl_find_msg, never come  *)
(* back to an entry: they end, which rests on the size of the table.        *)
FindsMessage ==
  /\ mopc = "found" =>
       IF act = 0 THEN \A n \in 1..Strings : Orig(n) # query
       ELSE act \in 1..Strings /\ Orig(act) = query
  /\ Entering \/ Loading \/ mopc = "probe" => moidx \notin visited
=============================================================================
