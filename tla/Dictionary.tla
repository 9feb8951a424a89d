----------------------------- MODULE Dictionary -----------------------------
(***************************************************************************)
(* What a hash table of gnulib-local/lib/hash.c promises to its callers: a *)
(* set of entries with distinct keys, to which an entry can be added, of   *)
(* which one can be replaced, and in which one can be found.               *)
(***************************************************************************)
CONSTANTS
  Keys, Data,
  Requests,   \* records [op, key, data]; op is "insert", "set" or "find"
  None,       \* no request, no answer
  Missing     \* the answer of a failed search, and of a refused insertion

Entries == [key : Keys, data : Data]

VARIABLES
  entries,    \* the contents of the dictionary
  request,    \* the request that is being served, or None
  answer      \* its answer, or None

dvars == <<entries, request, answer>>

With(k) == { e \in entries : e.key = k }

DInit == entries = {} /\ request = None /\ answer = None

Ask(c) ==
  /\ request = None
  /\ request' = c
  /\ UNCHANGED <<entries, answer>>

(* hash_find_entry.                                                        *)
Find(k) ==
  /\ UNCHANGED entries
  /\ \/ With(k) = {} /\ answer' = Missing
     \/ \E e \in With(k) : answer' = e.data

(* hash_insert_entry, which does not overwrite.                            *)
Insert(e) ==
  IF With(e.key) = {}
  THEN entries' = entries \cup {e} /\ answer' = e.data
  ELSE UNCHANGED entries /\ answer' = Missing

(* hash_set_value, which does.                                             *)
Put(e) ==
  /\ entries' = (entries \ With(e.key)) \cup {e}
  /\ answer' = e.data

Serve ==
  /\ request # None /\ answer = None
  /\ LET e == [key |-> request.key, data |-> request.data]
     IN \/ request.op = "find" /\ Find(request.key)
        \/ request.op = "insert" /\ Insert(e)
        \/ request.op = "set" /\ Put(e)
  /\ UNCHANGED request

Reply ==
  /\ answer # None
  /\ request' = None /\ answer' = None
  /\ UNCHANGED entries

DNext == (\E c \in Requests : Ask(c)) \/ Serve \/ Reply

DSpec == DInit /\ [][DNext]_dvars
=============================================================================
