---------------------------- MODULE MessageList -----------------------------
(***************************************************************************)
(* A list of messages (message.c) and its hash index, in the hands of the  *)
(* programs that use it: reading of a PO file (read-catalog.c), conversion *)
(* of its character set (msgl-iconv.c), and what the programs then do.     *)
(*                                                                         *)
(* A message is a record on the heap, the list and the index hold pointers *)
(* to it.  A program may change the key of a message that is in the list:  *)
(* the index does not notice.  The index is a dictionary (Dictionary,      *)
(* which HashTable implements).                                            *)
(***************************************************************************)
EXTENDS Naturals, SequencesExt

CONSTANTS
  Keys,         \* the pairs of msgctxt and msgid
  HeaderKey,    \* no msgctxt and an empty msgid
  Ascii,        \* the keys in ASCII
  ListInputs    \* records [program, file, allow_duplicates, conversion]

(* What the programs do with a list of messages.                            *)
Plan ==
  [msgconv   |-> <<"read", "convert">>,
   msgattrib |-> <<"read", "remove">>,
   msgcmp    |-> <<"read", "remove", "convert">>,
   msgcat    |-> <<"read", "remove", "convert">>,
   msgmerge  |-> <<"read", "header">>,
   msginit   |-> <<"read", "fill_header">>,
   msgfmt    |-> <<"read", "remove">>,
   html      |-> <<"read", "copy", "convert">>,
   library   |-> <<"read", "edit", "edit", "edit">>]

(* A program that uses libgettextpo fills a list that po_file_create has    *)
(* made, without an index.                                                  *)
ASSUME ListAssumption ==
  /\ HeaderKey \in Ascii /\ Ascii \subseteq Keys
  /\ \A in \in ListInputs :
       /\ in.program \in DOMAIN Plan
       /\ in.program = "library" => in.allow_duplicates
       /\ in.file \in Seq([key : Keys, obsolete : BOOLEAN])
       /\ in.conversion \in [Keys -> Keys]
       /\ \A k \in Ascii : in.conversion[k] = k

VARIABLES
  input,          \* the member of ListInputs
  todo,           \* what the program still has to do
  rest,           \* what the reader still has to read
  errors,         \* the reader has found an error
  heap,           \* all messages: records [key, obsolete]
  item,           \* mlp->item: indices of heap
  use_hashtable,  \* mlp->use_hashtable
  index,          \* mlp->htable: an index of heap for each key, or 0
  changed,        \* iconv_message_list_internal: msgids_changed
  pos,            \* the number of messages it has converted
  outcome         \* "running", "done", "fatal", "abort"

listvars == <<input, todo, rest, errors, heap, item, use_hashtable, index, changed, pos, outcome>>
readvars == <<input, rest, errors>>
iconvvars == <<changed, pos>>

EmptyIndex == [k \in Keys |-> 0]

ListInit ==
  /\ input \in ListInputs
  /\ todo = Plan[input.program] /\ outcome = "running"
  /\ rest = input.file /\ errors = FALSE
  /\ heap = <<>> /\ item = <<>>
  /\ use_hashtable = ~input.allow_duplicates
  /\ index = EmptyIndex
  /\ changed = FALSE /\ pos = 0

----------------------------------------------------------------------------
(* message.c.                                                               *)

(* message_list_search without an index.                                    *)
FirstWith(k, l, h) ==
  LET n == SelectInSeq(l, LAMBDA p : h[p].key = k)
  IN IF n = 0 THEN 0 ELSE l[n]

Linear(k) == FirstWith(k, item, heap)

Search(k) == IF use_hashtable THEN index[k] ELSE Linear(k)

(* message_list_append, _prepend and _insert_at put a new message m at      *)
(* position n; they abort if the index has its key.                         *)
InsertAtPos(m, n) ==
  LET p == Len(heap) + 1
  IN /\ heap' = Append(heap, m)
     /\ item' = InsertAt(item, n, p)
     /\ IF ~use_hashtable THEN UNCHANGED <<index, outcome>>
        ELSE IF index[m.key] # 0 THEN outcome' = "abort" /\ UNCHANGED index
        ELSE index' = [index EXCEPT ![m.key] = p] /\ UNCHANGED outcome
     /\ UNCHANGED use_hashtable

(* The index that message_list_msgids_changed builds.                       *)
Distinct(l, h) == \A i, j \in 1..Len(l) : h[l[i]].key = h[l[j]].key => i = j
Indexed(l, h) == [k \in Keys |-> FirstWith(k, l, h)]

----------------------------------------------------------------------------
Running(op) == outcome = "running" /\ todo # <<>> /\ Head(todo) = op

(* default_add_message.  With allow_duplicates, only a header entry is      *)
(* looked for.                                                              *)
Seen(m) ==
  /\ ~(input.allow_duplicates /\ m.key # HeaderKey)
  /\ Search(m.key) # 0

Read ==
  /\ Running("read") /\ rest # <<>>
  /\ rest' = Tail(rest)
  /\ IF Seen(Head(rest))
     THEN errors' = TRUE /\ UNCHANGED <<heap, item, use_hashtable, index, outcome>>
     ELSE InsertAtPos(Head(rest), Len(item) + 1) /\ UNCHANGED errors
  /\ UNCHANGED <<input, todo, iconvvars>>

(* catalog_reader_parse exits if there was an error.                        *)
EndRead ==
  /\ Running("read") /\ rest = <<>>
  /\ IF errors THEN outcome' = "fatal" /\ UNCHANGED todo
     ELSE todo' = Tail(todo) /\ UNCHANGED outcome
  /\ UNCHANGED <<readvars, heap, item, use_hashtable, index, iconvvars>>

(* merge adds a header entry to the references.                             *)
NewHeader == [key |-> HeaderKey, obsolete |-> FALSE]
LiveHeader == \E n \in 1..Len(item) : heap[item[n]] = NewHeader

LacksHeaderMutant == ~LiveHeader
LacksHeader == Search(HeaderKey) = 0

AddHeader ==
  /\ Running("header")
  /\ todo' = Tail(todo)
  /\ IF LacksHeader THEN InsertAtPos(NewHeader, 1)
     ELSE UNCHANGED <<heap, item, use_hashtable, index, outcome>>
  /\ UNCHANGED <<readvars, iconvvars>>

(* fill_header of msginit, which looks for it in another way.               *)
FillHeader ==
  /\ Running("fill_header")
  /\ todo' = Tail(todo)
  /\ IF item # <<>> /\ ~LiveHeader THEN InsertAtPos(NewHeader, 1)
     ELSE UNCHANGED <<heap, item, use_hashtable, index, outcome>>
  /\ UNCHANGED <<readvars, iconvvars>>

(* message_list_remove_if_not, which removes the obsolete messages.  The    *)
(* hash tables do not support removal.                                      *)
Removed == { n \in 1..Len(item) : heap[item[n]].obsolete }
KeepsIndexMutant == use_hashtable
KeepsIndex == use_hashtable /\ Removed = {}

RemoveObsolete ==
  /\ Running("remove")
  /\ todo' = Tail(todo)
  /\ item' = IF Removed = {} THEN item ELSE SelectSeq(item, LAMBDA p : ~heap[p].obsolete)
  /\ use_hashtable' = KeepsIndex
  /\ UNCHANGED <<readvars, heap, index, iconvvars, outcome>>

(* msgdomain_list_copy: a list of copies of the messages, as the original   *)
(* with or without an index.                                                *)
Copy ==
  /\ Running("copy")
  /\ todo' = Tail(todo)
  /\ heap' = [n \in 1..Len(item) |-> heap[item[n]]]
  /\ item' = [n \in 1..Len(item) |-> n]
  /\ IF use_hashtable /\ ~Distinct(item', heap') THEN outcome' = "abort" /\ UNCHANGED index
     ELSE index' = Indexed(item', heap') /\ UNCHANGED outcome
  /\ UNCHANGED <<readvars, use_hashtable, iconvvars>>

(* iconv_message_list_internal converts the messages in place.              *)
Convert ==
  /\ Running("convert") /\ pos < Len(item)
  /\ LET p == item[pos + 1]
     IN /\ changed' = (changed \/ heap[p].key \notin Ascii)
        /\ heap' = [heap EXCEPT ![p].key = input.conversion[@]]
  /\ pos' = pos + 1
  /\ UNCHANGED <<readvars, todo, item, use_hashtable, index, outcome>>

(* ... and has the index renewed.  msgcat does not go on if the keys may    *)
(* have changed.                                                            *)
EndConvert ==
  /\ Running("convert") /\ pos = Len(item)
  /\ LET merged == changed /\ use_hashtable /\ ~Distinct(item, heap)
     IN /\ use_hashtable' = (use_hashtable /\ ~merged)
        /\ index' = IF changed /\ use_hashtable /\ ~merged THEN Indexed(item, heap) ELSE index
        /\ IF merged \/ (changed /\ input.program = "msgcat")
           THEN outcome' = "fatal" /\ UNCHANGED todo
           ELSE todo' = Tail(todo) /\ UNCHANGED outcome
  /\ changed' = FALSE /\ pos' = 0
  /\ UNCHANGED <<readvars, heap, item>>

(* A program that uses libgettextpo sets the key of a message, or inserts   *)
(* one.                                                                     *)
Edit ==
  /\ Running("edit")
  /\ todo' = Tail(todo)
  /\ \/ /\ \E n \in 1..Len(item), k \in Keys : heap' = [heap EXCEPT ![item[n]].key = k]
        /\ UNCHANGED <<item, use_hashtable, index, outcome>>
     \/ \E n \in 1..(Len(item) + 1), k \in Keys :
          InsertAtPos([key |-> k, obsolete |-> FALSE], n)
  /\ UNCHANGED <<readvars, iconvvars>>

Stop ==
  /\ outcome = "running" /\ todo = <<>>
  /\ outcome' = "done"
  /\ UNCHANGED <<readvars, todo, heap, item, use_hashtable, index, iconvvars>>

ListNext ==
  \/ Read \/ EndRead \/ AddHeader \/ FillHeader \/ RemoveObsolete \/ Copy
  \/ Convert \/ EndConvert \/ Edit \/ Stop

ListSpec == ListInit /\ [][ListNext]_listvars

----------------------------------------------------------------------------
(* Properties.                                                              *)

(* The index never disagrees with the list: outside of a conversion, a      *)
(* search by way of it returns what a search of the list would, whatever    *)
(* has been removed, copied or converted before.                            *)
IndexCurrent ==
  outcome = "running" /\ use_hashtable /\ pos = 0 =>
    \A k \in Keys : index[k] = Linear(k)

(* Where a list has an index, no program gives it a second message with the *)
(* same key: no insertion aborts.  message.c: "A message list has           *)
(* duplicates, although it was allocated with the assertion that it         *)
(* wouldn't have duplicates.  It is a bug."                                 *)
NeverAborts == outcome # "abort"
=============================================================================
