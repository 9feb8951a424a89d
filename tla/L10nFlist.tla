----------------------------- MODULE L10nFlist ------------------------------
(***************************************************************************)
(* The catalogs that a locale name stands for: _nl_find_domain             *)
(* (gettext-runtime/intl/finddomain.c), _nl_explode_name (explodename.c)   *)
(* and _nl_make_l10nflist (l10nflist.c).                                   *)
(*                                                                         *)
(* An entry of the list of loaded domains stands for a file, named by some *)
(* of the parts of a locale name; its successors are the entries it        *)
(* inherits from.  The list only grows, under a lock that is held for      *)
(* writing while _nl_make_l10nflist calls itself; a thread that has got an *)
(* entry walks through the successors without one.                         *)
(*                                                                         *)
(* One directory and one domain stand for all.  The list is searched by    *)
(* the name of the file only; that it is sorted is left out.               *)
(***************************************************************************)
EXTENDS Integers, Sequences, FiniteSets, SequencesExt

CONSTANTS
  L10nThreads,
  Locales,      \* locale names: records of their parts, L10nNull for none
  Aliases,      \* locale names that stand for others
  Normalized,   \* of each codeset, its normalized name
  Catalogs,     \* the files on disk
  MaxShort,     \* bound: how often an allocation fails
  L10nNull

\* What is looked for in the files: an alias is replaced.
Expanded(l) == IF l \in DOMAIN Aliases THEN Aliases[l] ELSE l
LocaleNames == {Expanded(l) : l \in Locales}

\* _nl_normalize_codeset changes no name that it has made.
ASSUME L10nAssumption ==
  /\ \A n \in Locales \cup LocaleNames :
       /\ n = [language |-> n.language, territory |-> n.territory,
               codeset |-> n.codeset, modifier |-> n.modifier]
       /\ n.language # L10nNull
       /\ n.codeset # L10nNull => n.codeset \in DOMAIN Normalized
  /\ \A c \in DOMAIN Normalized :
       /\ Normalized[c] \in DOMAIN Normalized \ {L10nNull}
       /\ Normalized[Normalized[c]] = Normalized[c]
  /\ DOMAIN Aliases \subseteq Locales
  /\ MaxShort \in Nat

VARIABLES
  list,     \* of each file in the list, its successors; L10nNull ends them too
  calls,    \* the calls of _nl_make_l10nflist that have not returned
  shortages,   \* how many allocations have failed
  l10npc,
  locale,   \* of each thread: what it looks for,
  domain,   \* ... the entry it has got, or L10nNull,
  answer    \* ... the catalogs it finds there, in this order

l10nvars == <<list, calls, shortages, l10npc, locale, domain, answer>>

-----------------------------------------------------------------------------
(* The parts of a name.                                                    *)

\* A mask has a bit for each part: XPG_MODIFIER, XPG_TERRITORY, XPG_CODESET,
\* XPG_NORM_CODESET.
Parts == {"modifier", "territory", "codeset", "norm_codeset"}

Value(mask) ==
  (IF "modifier" \in mask THEN 8 ELSE 0) + (IF "territory" \in mask THEN 4 ELSE 0)
    + (IF "codeset" \in mask THEN 2 ELSE 0) + (IF "norm_codeset" \in mask THEN 1 ELSE 0)

\* _nl_explode_name: the parts there are.
Explode(name) ==
  {p \in {"modifier", "territory", "codeset"} : name[p] # L10nNull}
    \cup {p \in {"norm_codeset"} : /\ name.codeset # L10nNull
                                   /\ Normalized[name.codeset] # name.codeset}

\* The name of the file for the parts in mask.
Filename(name, mask) ==
  [language  |-> name.language,
   territory |-> IF "territory" \in mask THEN name.territory ELSE L10nNull,
   codesets  |-> (IF "codeset" \in mask THEN {name.codeset} ELSE {})
                   \cup (IF "norm_codeset" \in mask THEN {Normalized[name.codeset]} ELSE {}),
   modifier  |-> IF "modifier" \in mask THEN name.modifier ELSE L10nNull]

\* The elements of S in the (total) order Before.
Ordered(S, Before(_, _)) ==
  [i \in 1 .. Cardinality(S) |-> CHOOSE x \in S : Cardinality({y \in S : Before(y, x)}) = i - 1]

Higher(a, b) == Value(a) > Value(b)

\* The masks dominated by mask, from mask - 1 down to 0, without those with
\* two codesets.
Below ==
  [mask \in SUBSET Parts |->
     Ordered({m \in SUBSET mask : m # mask /\ ~ {"codeset", "norm_codeset"} \subseteq m}, Higher)]

-----------------------------------------------------------------------------
(* _nl_find_domain                                                         *)

L10nInit ==
  /\ list = [f \in {} |-> <<>>] /\ calls = <<>>
  /\ shortages = 0
  /\ l10npc = [t \in L10nThreads |-> "idle"]
  /\ locale = [t \in L10nThreads |-> L10nNull]
  /\ domain = [t \in L10nThreads |-> L10nNull]
  /\ answer = [t \in L10nThreads |-> <<>>]

Goto(t, label) == l10npc' = [l10npc EXCEPT ![t] = label]

\* The lock is held for writing.
Locked == \E t \in L10nThreads : l10npc[t] = "inherit"

\* malloc fails.
Short == shortages < MaxShort /\ shortages' = shortages + 1

Call(t) ==
  /\ l10npc[t] = "idle"
  /\ \E l \in Locales : locale' = [locale EXCEPT ![t] = l]
  /\ Goto(t, "search")
  /\ UNCHANGED <<list, calls, shortages, domain, answer>>

\* The locale name as it is.
SearchedMutant(l) == Filename(l, {})
Searched(l) == Filename(l, Explode(l) \ {"norm_codeset"})

SearchList(t) ==
  /\ l10npc[t] = "search" /\ ~ Locked
  /\ \/ /\ Searched(locale[t]) \in DOMAIN list
        /\ domain' = [domain EXCEPT ![t] = Searched(locale[t])]
        /\ Goto(t, "walk")
        /\ UNCHANGED shortages
     \/ /\ Searched(locale[t]) \notin DOMAIN list
        /\ Goto(t, "make")
        /\ UNCHANGED <<domain, shortages>>
     \/ Short /\ Goto(t, "make") /\ UNCHANGED domain
  /\ UNCHANGED <<list, calls, locale, answer>>

-----------------------------------------------------------------------------
(* _nl_make_l10nflist.  A call finds the file in the list, or puts it there *)
(* and fills its successors by a loop of further calls; a call that lacks   *)
(* memory returns NULL.                                                     *)

NewEntry(f)       == [g \in DOMAIN list \cup {f} |-> IF g = f THEN <<>> ELSE list[g]]
Successor(f, g)  == [list EXCEPT ![f] = Append(@, g)]
Pending(f, mask) == [retval |-> f, mask |-> mask]

\* The outermost call.  The copy of an alias or of a codeset may lack memory too.
MakeList(t) ==
  /\ l10npc[t] = "make" /\ ~ Locked
  /\ LET name == Expanded(locale[t])
         f    == Filename(name, Explode(name))
     IN  \/ /\ f \in DOMAIN list
            /\ domain' = [domain EXCEPT ![t] = f]
            /\ Goto(t, "walk")
            /\ UNCHANGED <<list, calls, shortages>>
         \/ /\ f \notin DOMAIN list
            /\ list' = NewEntry(f) /\ calls' = <<Pending(f, Explode(name))>>
            /\ Goto(t, "inherit")
            /\ UNCHANGED <<domain, shortages>>
         \/ Short /\ Goto(t, "walk") /\ UNCHANGED <<list, calls, domain>>
  /\ UNCHANGED <<locale, answer>>

\* The innermost call, and the mask for which it calls the next one.
retval  == Last(calls).retval
entries == Len(list[retval])
cnt     == Below[Last(calls).mask][entries + 1]
AtEnd   == entries = Len(Below[Last(calls).mask])

Inherit(t) ==
  /\ l10npc[t] = "inherit" /\ ~ AtEnd
  /\ LET f == Filename(Expanded(locale[t]), cnt)
     IN  \/ f \in DOMAIN list /\ list' = Successor(retval, f) /\ UNCHANGED <<calls, shortages>>
         \/ /\ f \notin DOMAIN list
            /\ list' = NewEntry(f) /\ calls' = Append(calls, Pending(f, cnt))
            /\ UNCHANGED shortages
         \/ Short /\ list' = Successor(retval, L10nNull) /\ UNCHANGED calls
  /\ UNCHANGED <<l10npc, locale, domain, answer>>

ReturnEntry(t) ==
  /\ l10npc[t] = "inherit" /\ AtEnd
  /\ calls' = Front(calls)
  /\ \/ /\ Len(calls) > 1
        /\ list' = Successor(calls[Len(calls) - 1].retval, retval)
        /\ UNCHANGED <<l10npc, domain>>
     \/ /\ Len(calls) = 1
        /\ domain' = [domain EXCEPT ![t] = retval]
        /\ Goto(t, "walk")
        /\ UNCHANGED list
  /\ UNCHANGED <<shortages, locale, answer>>

-----------------------------------------------------------------------------
(* The use of the entry.                                                    *)

\* An entry for a file with two codesets is decided, without data, from the start.
HasData(f) == f \in Catalogs /\ Cardinality(f.codesets) < 2

WithData(files) == SelectSeq(files, HasData)

\* The successors that are reached: the first null pointer ends them.
Walked(f) ==
  LET n == SelectInSeq(list[f], LAMBDA g : g = L10nNull)
  IN  IF n = 0 THEN list[f] ELSE SubSeq(list[f], 1, n - 1)

Walk(t) ==
  /\ l10npc[t] = "walk"
  /\ answer' = [answer EXCEPT ![t] =
       IF domain[t] = L10nNull THEN <<>> ELSE WithData(<<domain[t]>> \o Walked(domain[t]))]
  /\ Goto(t, "return")
  /\ UNCHANGED <<list, calls, shortages, locale, domain>>

ReturnDomain(t) ==
  /\ l10npc[t] = "return"
  /\ locale' = [locale EXCEPT ![t] = L10nNull]
  /\ domain' = [domain EXCEPT ![t] = L10nNull]
  /\ answer' = [answer EXCEPT ![t] = <<>>]
  /\ Goto(t, "idle")
  /\ UNCHANGED <<list, calls, shortages>>

L10nNext ==
  \E t \in L10nThreads :
    \/ Call(t) \/ SearchList(t) \/ MakeList(t) \/ Inherit(t) \/ ReturnEntry(t)
    \/ Walk(t) \/ ReturnDomain(t)

L10nSpec == L10nInit /\ [][L10nNext]_l10nvars
-----------------------------------------------------------------------------
(* Properties.                                                             *)

\* The files that the parts of a locale name give.
Files ==
  UNION { {Filename(name, mask) : mask \in SUBSET Explode(name)} : name \in LocaleNames }

\* A null pointer is none of them.
ASSUME FilesAssumption == L10nNull \notin Files

\* The files that are less specific than f.
Generalizations(f) ==
  [language : {f.language}, territory : {f.territory, L10nNull}, modifier : {f.modifier, L10nNull},
   codesets : {C \in SUBSET f.codesets : Cardinality(C) < 2}] \ {f}

(* "The various parts will be stripped off according to the following      *)
(* order" (finddomain.c:62): codeset, normalized codeset, territory,       *)
(* modifier.  What is stripped off last counts most.  (The comment at      *)
(* l10nflist.c:311 names the opposite order; the code follows this one.)   *)
Preferred(f, g) ==
  IF f.modifier # g.modifier THEN g.modifier = L10nNull
  ELSE IF f.territory # g.territory THEN g.territory = L10nNull
  ELSE \/ g.codesets = {} /\ f.codesets # {}
       \/ \E c \in DOMAIN Normalized :
            f.codesets = {c} /\ Normalized[c] # c /\ g.codesets = {Normalized[c]}

Inheritance == [f \in Files |-> Ordered(Generalizations(f), Preferred)]

\* The room that is allocated for the successors and the NULL at their end
\* (the structure itself has room for one more).
Slots(f) ==
  2 ^ (Cardinality({p \in {"territory", "modifier"} : f[p] # L10nNull}) + Cardinality(f.codesets))

Unfinished == {calls[i].retval : i \in DOMAIN calls}

(* Whoever has put a file into the list, and for whatever locale name, it  *)
(* inherits from the less specific files, all of them and in the           *)
(* documented order; when memory was short, from the first of them.  And   *)
(* the array that was allocated has room for them, also for those that the *)
(* call in progress has come to so far.                                    *)
Inherits ==
  /\ \A f \in DOMAIN list : Len(list[f]) < Slots(f)
  /\ \A f \in DOMAIN list \ Unfinished :
       /\ IsPrefix(Walked(f), Inheritance[f])
       /\ shortages = 0 => list[f] = Inheritance[f]
       /\ ToSet(Walked(f)) \subseteq DOMAIN list

\* All files that the parts of a locale name give.
Candidates(l) ==
  LET full == Filename(Expanded(l), Explode(Expanded(l)))
  IN  WithData(<<full>> \o Inheritance[full])

(* A lookup finds the catalogs for its locale name in the documented       *)
(* order, whatever has been looked up before; unless the codeset of its    *)
(* name is normalized, for then the list is searched by another name than  *)
(* the one it is filled with.  And the list is as Inherits says.           *)
Complete(t) ==
  l10npc[t] = "return" /\ shortages = 0 /\ "norm_codeset" \notin Explode(locale[t]) =>
    answer[t] = Candidates(locale[t])

AnswerComplete == Inherits /\ \A t \in L10nThreads : Complete(t)
=============================================================================
