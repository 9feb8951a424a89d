------------------------------ MODULE FindMsg -------------------------------
(***************************************************************************)
(* A lookup in the catalogs of a locale: what DCIGETTEXT does between      *)
(* _nl_find_domain and the search through the successors of the domain     *)
(* (gettext-runtime/intl/dcigettext.c, finddomain.c), with _nl_find_msg,   *)
(* the table of conversions of each catalog, and the loader of LoadMsgCat. *)
(*                                                                         *)
(* The lookup holds _nl_state_lock for reading.  What a thread does under  *)
(* conversions_lock is one step, because the lock covers all of it: the    *)
(* search of the table, and the addition of a conversion.  But a thread    *)
(* keeps the pointer to its element of the table after the unlock, and an  *)
(* addition may move the table.                                            *)
(*                                                                         *)
(* One message stands for all: each has its own element of conv_tab.       *)
(***************************************************************************)
EXTENDS LoadMsgCat

CONSTANTS
  Encodings,
  Successors,    \* of each file: the less specific ones, as a sequence
  Translating,   \* the files that have the message
  Uselocale,     \* threads have locales, and output charsets, of their own
  NoMemory       \* (char *) -1

ASSUME FindMsgAssumption ==
  /\ Successors \in [Files -> Seq(Files)]
  /\ Translating \subseteq Files
  /\ Encodings # {} /\ Null \notin Encodings /\ NoMemory # Null
  /\ Uselocale \in BOOLEAN

VARIABLES
  charset,       \* the output charset: of the binding, or else of the locale
  first, todo,   \* of each thread: the domain, and the files left to try
  encoding,      \* ... the output charset of its lookup
  convd,         \* ... its element of conversions
  result,        \* ... Null, NoMemory, or a translation
  conversions,   \* of each file: a sequence of elements
  dangling,      \* the threads whose convd points into a table that was moved
  poolLock       \* the thread that holds the lock of the converted strings, or Null

localVars == <<first, todo, encoding, convd, result>>
tableVars == <<conversions, dangling, poolLock>>
vars == <<loadVars, pc, file, back, charset, localVars, tableVars>>

Init ==
  /\ LoadInit
  /\ charset \in Encodings
  /\ first = file
  /\ todo = [t \in Threads |-> <<>>]
  /\ encoding = [t \in Threads |-> Null]
  /\ convd = [t \in Threads |-> 0]
  /\ result = [t \in Threads |-> Null]
  /\ conversions = [f \in Files |-> <<>>]
  /\ dangling = {}
  /\ poolLock = Null

-----------------------------------------------------------------------------
(* From file to file.                                                      *)

Call(t) ==
  /\ pc[t] = "idle"
  /\ \E f \in Files, enc \in IF Uselocale THEN Encodings ELSE {charset} :
       /\ first' = [first EXCEPT ![t] = f]
       /\ file' = [file EXCEPT ![t] = f]
       /\ todo' = [todo EXCEPT ![t] = Successors[f]]
       /\ encoding' = [encoding EXCEPT ![t] = enc]
  /\ Goto(t, "find")
  /\ UNCHANGED <<loadVars, back, charset, convd, result, tableVars>>

\* _nl_find_domain loads files until one of them is a catalog.
FindDomain(t) ==
  /\ pc[t] = "find"
  /\ EnsureLoaded(t, "finddata")
  /\ UNCHANGED <<charset, localVars, tableVars>>

FindDomainData(t) ==
  /\ pc[t] = "finddata"
  /\ \/ /\ data[file[t]] # "none" \/ todo[t] = <<>>
        /\ file' = [file EXCEPT ![t] = first[t]]
        /\ todo' = [todo EXCEPT ![t] = Successors[first[t]]]
        /\ Goto(t, "msg")
     \/ /\ data[file[t]] = "none" /\ todo[t] # <<>>
        /\ file' = [file EXCEPT ![t] = Head(todo[t])]
        /\ todo' = [todo EXCEPT ![t] = Tail(todo[t])]
        /\ Goto(t, "find")
  /\ UNCHANGED <<loadVars, back, charset, first, encoding, convd, result, tableVars>>

\* _nl_find_msg has returned NULL: try the next successor.
TryNext(t) ==
  \/ /\ todo[t] = <<>>
     /\ Goto(t, "return")
     /\ UNCHANGED <<file, todo>>
  \/ /\ todo[t] # <<>>
     /\ file' = [file EXCEPT ![t] = Head(todo[t])]
     /\ todo' = [todo EXCEPT ![t] = Tail(todo[t])]
     /\ Goto(t, "msg")

Answer(t, answer) ==
  /\ result' = [result EXCEPT ![t] = answer]
  /\ convd' = [convd EXCEPT ![t] = 0]
  /\ Goto(t, "return")

\* The locals of the lookup are gone.
Return(t) ==
  /\ pc[t] = "return"
  /\ file' = [file EXCEPT ![t] = Null]
  /\ first' = [first EXCEPT ![t] = Null]
  /\ todo' = [todo EXCEPT ![t] = <<>>]
  /\ encoding' = [encoding EXCEPT ![t] = Null]
  /\ result' = [result EXCEPT ![t] = Null]
  /\ back' = [back EXCEPT ![t] = "finddata"]
  /\ Goto(t, "idle")
  /\ UNCHANGED <<loadVars, charset, convd, tableVars>>

(* bind_textdomain_codeset waits for the lookups to end; a program does    *)
(* not call setlocale while another thread looks up messages.              *)
SetCharsetMutant ==
  /\ charset' \in Encodings \ {charset}
  /\ UNCHANGED <<loadVars, pc, file, back, localVars, tableVars>>
SetCharset ==
  /\ \A t \in Threads : pc[t] = "idle"
  /\ charset' \in Encodings \ {charset}
  /\ UNCHANGED <<loadVars, pc, file, back, localVars, tableVars>>

-----------------------------------------------------------------------------
(* _nl_find_msg                                                            *)

FindMsg(t) ==
  /\ pc[t] = "msg"
  /\ EnsureLoaded(t, "msgdata")
  /\ UNCHANGED <<charset, localVars, tableVars>>

(* The thread that loads the file gets the header entry, unconverted.      *)
Locate(t) ==
  /\ pc[t] = "msgdata"
  /\ \/ /\ Loading(t)
        /\ Goto(t, "decide")
        /\ UNCHANGED <<file, todo>>
     \/ /\ ~ Loading(t) /\ data[file[t]] # "none" /\ file[t] \in Translating
        /\ Goto(t, "conversion")
        /\ UNCHANGED <<file, todo>>
     \/ /\ ~ Loading(t) /\ (data[file[t]] = "none" \/ file[t] \notin Translating)
        /\ TryNext(t)
  /\ UNCHANGED <<loadVars, back, charset, first, encoding, convd, result, tableVars>>

ConvertedMutant(t) == DOMAIN conversions[file[t]]
Converted(t) ==
  {i \in DOMAIN conversions[file[t]] : conversions[file[t]][i].encoding = encoding[t]}
\* There is but one (UniqueEncodings).
Found(t) == CHOOSE i \in Converted(t) : TRUE

SearchConversion(t) ==
  /\ pc[t] = "conversion"
  /\ \/ /\ Converted(t) # {}
        /\ convd' = [convd EXCEPT ![t] = Found(t)]
        /\ Goto(t, "use")
     \/ /\ Converted(t) = {}
        /\ Goto(t, "new")
        /\ UNCHANGED convd
  /\ UNCHANGED <<loadVars, file, back, charset, first, todo, encoding, result, tableVars>>

\* The threads with a pointer into the table of file f.
Using == {"use", "tab", "alloc", "act", "lock", "convert", "converted"}
Users(f) == {t \in Threads : pc[t] \in Using /\ file[t] = f}

Elements == [encoding : Encodings, conv : {"none", "iconv"},
             conv_tab : {"null", "failed", "empty", "full"}]

(* The search is repeated under the lock for writing.  Else the table is   *)
(* allocated, or reallocated at the same place or another; then the copy   *)
(* of the encoding may fail, or the new element gets its descriptor, which *)
(* is none if the catalog names no charset or iconv_open fails.            *)
AddedMeanwhileMutant(t) == FALSE
AddedMeanwhile(t) == Converted(t) # {}

NewConversion(t) ==
  LET f == file[t]
  IN  /\ pc[t] = "new"
      /\ \/ /\ AddedMeanwhile(t)
            /\ convd' = [convd EXCEPT ![t] = Found(t)]
            /\ Goto(t, "use")
            /\ UNCHANGED <<result, tableVars>>
         \/ /\ ~ AddedMeanwhile(t)
            /\ Answer(t, NoMemory)
            /\ dangling' \in {dangling, dangling \cup Users(f)}
            /\ UNCHANGED <<conversions, poolLock>>
         \/ /\ ~ AddedMeanwhile(t)
            /\ \E conv \in {"none", "iconv"} :
                 conversions' = [conversions EXCEPT ![f] =
                   Append(@, [encoding |-> encoding[t], conv |-> conv, conv_tab |-> "null"])]
            /\ convd' = [convd EXCEPT ![t] = Len(conversions[f]) + 1]
            /\ dangling' \in {dangling, dangling \cup Users(f)}
            /\ Goto(t, "use")
            /\ UNCHANGED <<result, poolLock>>
      /\ UNCHANGED <<loadVars, file, back, charset, first, todo, encoding>>

-----------------------------------------------------------------------------
(* The conversion of the string.  What a thread with a dangling pointer    *)
(* does is undefined and not modelled.                                     *)

At(t, label) == pc[t] = label /\ t \notin dangling
Element(t)   == conversions[file[t]][convd[t]]

\* *convd is changed in its conv_tab only.
SetTab(t, tab) ==
  conversions' = [conversions EXCEPT ![file[t]][convd[t]].conv_tab = tab]

Use(t) ==
  /\ At(t, "use")
  /\ \/ /\ Element(t).conv = "none"
        /\ Answer(t, [file |-> file[t], encoding |-> Null])
     \/ /\ Element(t).conv # "none"
        /\ Goto(t, "tab")
        /\ UNCHANGED <<convd, result>>
  /\ UNCHANGED <<loadVars, file, back, charset, first, todo, encoding, tableVars>>

\* The first look at conv_tab, without a lock.
ReadTab(t) ==
  /\ At(t, "tab")
  /\ Goto(t, IF Element(t).conv_tab = "null" THEN "alloc" ELSE "act")
  /\ UNCHANGED <<loadVars, file, back, charset, localVars, tableVars>>

(* conv_tab is allocated under the lock, which is then kept for the        *)
(* conversion, or marked as not to be had.                                 *)
StillNullMutant(t) == TRUE
StillNull(t) == Element(t).conv_tab = "null"

AllocTab(t) ==
  /\ At(t, "alloc")
  /\ poolLock = Null
  /\ \/ /\ StillNull(t)
        /\ SetTab(t, "empty")
        /\ poolLock' = t
        /\ Goto(t, "convert")
     \/ /\ StillNull(t)
        /\ SetTab(t, "failed")
        /\ Goto(t, "act")
        /\ UNCHANGED poolLock
     \/ /\ ~ StillNull(t)
        /\ Goto(t, "act")
        /\ UNCHANGED <<conversions, poolLock>>
  /\ UNCHANGED <<loadVars, file, back, charset, localVars, dangling>>

\* The look at conv_tab[act], without a lock, and not repeated under it.
ReadAct(t) ==
  /\ At(t, "act")
  /\ \/ /\ Element(t).conv_tab = "failed"
        /\ Answer(t, NoMemory)
     \/ /\ Element(t).conv_tab = "empty"
        /\ Goto(t, "lock")
        /\ UNCHANGED <<convd, result>>
     \/ /\ Element(t).conv_tab = "full"
        /\ Goto(t, "converted")
        /\ UNCHANGED <<convd, result>>
  /\ UNCHANGED <<loadVars, file, back, charset, first, todo, encoding, tableVars>>

LockPool(t) ==
  /\ At(t, "lock")
  /\ poolLock = Null
  /\ poolLock' = t
  /\ Goto(t, "convert")
  /\ UNCHANGED <<loadVars, file, back, charset, localVars, conversions, dangling>>

(* iconv succeeds, or the string is not valid in its charset, or the pool  *)
(* cannot grow.                                                            *)
Convert(t) ==
  /\ At(t, "convert")
  /\ \/ /\ SetTab(t, "full")
        /\ Goto(t, "converted")
        /\ UNCHANGED <<file, todo, convd, result>>
     \/ /\ TryNext(t)
        /\ convd' = [convd EXCEPT ![t] = 0]
        /\ UNCHANGED <<result, conversions>>
     \/ /\ Answer(t, NoMemory)
        /\ UNCHANGED <<file, todo, conversions>>
  /\ poolLock' = Null
  /\ UNCHANGED <<loadVars, back, charset, first, encoding, dangling>>

TakeConverted(t) ==
  /\ At(t, "converted")
  /\ Answer(t, [file |-> file[t], encoding |-> Element(t).encoding])
  /\ UNCHANGED <<loadVars, file, back, charset, first, todo, encoding, tableVars>>

-----------------------------------------------------------------------------
Search(t) == FindDomain(t) \/ FindDomainData(t) \/ FindMsg(t) \/ Locate(t)
LoadFile(t) == Load(t) /\ UNCHANGED <<charset, localVars, tableVars>>
Conversion(t) ==
  \/ SearchConversion(t) \/ NewConversion(t) \/ Use(t) \/ ReadTab(t) \/ AllocTab(t)
  \/ ReadAct(t) \/ LockPool(t) \/ Convert(t) \/ TakeConverted(t)

Step(t) == Search(t) \/ LoadFile(t) \/ Conversion(t) \/ Return(t)

Next == \/ \E t \in Threads : Call(t) \/ Step(t)
        \/ ~ Uselocale /\ SetCharset

Spec == Init /\ [][Next]_vars

(* A thread that can run again and again does: the scheduler passes over   *)
(* none, and one that waits for a mutex gets it in the end.                *)
Fairness == \A t \in Threads : SF_vars(Step(t))
FairSpec == Spec /\ Fairness

-----------------------------------------------------------------------------
(* Properties.                                                             *)

\* Of a catalog that is used, other than by its loader, the plural formula
\* is known.
InUse == {"conversion", "new"} \cup Using
CatalogComplete ==
  \A t \in Threads : pc[t] \in InUse => data[file[t]] = "complete"

(* A catalog is loaded once: what the threads have begun to use stays.     *)
LoadedOnce ==
  [][\A f \in Files : decided[f] = 1 =>
       decided'[f] = 1 /\ data'[f] = data[f]]_vars

\* The table has one element for an encoding.
UniqueEncodings ==
  \A f \in Files : \A i, j \in DOMAIN conversions[f] :
    conversions[f][i].encoding = conversions[f][j].encoding => i = j

(* "Protect against reallocation of the table" (dcigettext.c:1027): no     *)
(* thread works with a pointer into a table that was moved.                *)
PointersValid == \A t \in Threads : pc[t] \in Using => t \notin dangling

\* A translation is in the charset that was current at the call, or as it
\* is in the catalog.
AnswerEncoded ==
  \A t \in Threads : pc[t] = "return" /\ result[t] \notin {Null, NoMemory} =>
    result[t].encoding \in {encoding[t], Null}

(* Converted strings are kept for the callers that have got them, and an   *)
(* allocation is not repeated.                                             *)
StringsStay ==
  [][\A f \in Files : \A i \in DOMAIN conversions[f] :
       LET old == conversions[f][i]  new == conversions'[f][i]
       IN  /\ new.encoding = old.encoding /\ new.conv = old.conv
           /\ old.conv_tab \in {"failed", "full"} => new.conv_tab = old.conv_tab
           /\ old.conv_tab = "empty" => new.conv_tab \in {"empty", "full"}]_vars

\* Every lookup returns, although loading a catalog looks one up.
LookupsReturn == \A t \in Threads : pc[t] = "find" ~> pc[t] = "idle"
=============================================================================
