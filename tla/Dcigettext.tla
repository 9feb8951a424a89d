----------------------------- MODULE Dcigettext -----------------------------
(***************************************************************************)
(* The message lookup of libintl and the calls that change its settings:   *)
(* DCIGETTEXT (gettext-runtime/intl/dcigettext.c), TEXTDOMAIN              *)
(* (textdomain.c) and set_binding_values (bindtextdom.c), run by several   *)
(* threads.                                                                *)
(*                                                                         *)
(* They share the default domain, the bindings, the catalog counter        *)
(* _nl_msg_cat_cntr (all under _nl_state_lock), and the search tree of     *)
(* known translations (tree_lock).  An entry of the tree is valid while    *)
(* its counter equals _nl_msg_cat_cntr; an outdated entry is overwritten   *)
(* in place, with _nl_state_lock held for reading only, so its fields      *)
(* change one at a time under the eyes of the other readers.               *)
(*                                                                         *)
(* Finding and loading the catalogs (_nl_find_domain, _nl_load_domain,     *)
(* _nl_find_msg) is abstracted to three parameters: the catalogs that are  *)
(* tried for a locale name (Tried), the messages they have                 *)
(* (Installed), and those of them that a search may fail to get all the    *)
(* same (Failing): for lack of memory, because the catalog cannot be       *)
(* loaded, or because the message cannot be converted.                     *)
(***************************************************************************)
EXTENDS Naturals, Sequences, FiniteSets

CONSTANTS
  Threads,
  Domains, DefaultDomain,  \* domain names; _nl_default_default_domain
  Dirs, DefaultDir,        \* directory names; _nl_default_dirname
  RelativeDirs,            \* the directory names that need getcwd
  Codesets,
  Locales, CLocale,        \* locale names; "C" or "POSIX"
  CatalogNames,            \* names of catalogs: language_territory.codeset@modifier
  PathLocales, Secure,     \* locale names with a '/'; ENABLE_SECURE
  Languages,               \* the values of LANGUAGE: lists of locale names
  ThreadNames,             \* guess_category_value looks at the thread's locale
  Msgids,
  Tried,                   \* the names of the catalogs to try for a locale name
  Installed,               \* what the catalogs on disk translate
  Failing,                 \* and what of it a search may or may not get
  MaxCntr,                 \* bound: changes of the settings
  Null                     \* the null pointer

-----------------------------------------------------------------------------
(* Data.                                                                   *)

Catalogs     == [dir : Dirs, loc : CatalogNames, dom : Domains]
Translations == [cat : Catalogs, codeset : Codesets \cup {Null}]

\* What a lookup has found: a message and the loaded domain it stems from.
Results == [domain : Catalogs, translation : Translations]

\* struct known_translation_t: what transcmp compares, and the rest.
Keys    == [msgid : Msgids, domainname : Domains, localename : Locales]
Entries == [counter : Nat, domain : Catalogs, translation : Translations]
Fields  == {"counter", "domain", "translation"}

Bindings == [bound : BOOLEAN, dirname : Dirs, codeset : Codesets \cup {Null}]
Unbound  == [bound |-> FALSE, dirname |-> DefaultDir, codeset |-> Null]

\* A domain name in memory: alloc = 0 is storage of the caller or of the
\* program, any other a copy made by strdup in TEXTDOMAIN.
Pointers == [name : Domains, alloc : Nat]
StaticDomain == [name |-> DefaultDomain, alloc |-> 0]

\* The arguments of a call: of dcgettext, textdomain, or set_binding_values.
Args == [domainname : Domains \cup {Null}, dirname : Dirs \cup {Null},
         codeset : Codesets \cup {Null}, msgid : Msgids \cup {Null}, localename : Locales]
\* categoryvalue, the place in this list, and the directory.
Searches == [list : Seq(Locales), pos : Nat, dirname : Dirs]
\* newp->counter or its value in **foundp, and what is yet to be stored there.
Updates == [stamp : Nat, todo : SUBSET Fields]

NoArgs   == [domainname |-> Null, dirname |-> Null, codeset |-> Null, msgid |-> Null,
             localename |-> CLocale]
NoSearch == [list |-> <<>>, pos |-> 1, dirname |-> DefaultDir]
NoUpdate == [stamp |-> 0, todo |-> {}]

ASSUME ConstantsAssumption ==
  /\ DefaultDomain \in Domains
  /\ DefaultDir \in Dirs /\ RelativeDirs \subseteq Dirs \ {DefaultDir}
  /\ CLocale \in Locales /\ PathLocales \subseteq Locales
  /\ Languages \subseteq Seq(Locales) /\ <<>> \in Languages
  /\ {Secure, ThreadNames} \subseteq BOOLEAN
  /\ Tried \in [Locales -> Seq(CatalogNames)]
  /\ Installed \subseteq Catalogs \X Msgids /\ Failing \subseteq Installed
  /\ MaxCntr \in Nat

ASSUME NullAssumption ==
  /\ Null \notin Threads /\ Null \notin Domains /\ Null \notin Dirs
  /\ Null \notin Codesets /\ Null \notin Msgids
  /\ Null \notin Keys /\ Null \notin Entries /\ Null \notin Results

-----------------------------------------------------------------------------
VARIABLES
  stateReaders, stateWriter,  \* _nl_state_lock
  treeReaders, treeWriter,    \* tree_lock
  cntr,           \* _nl_msg_cat_cntr
  defaultDomain,  \* _nl_current_default_domain
  freed,          \* the copies of domain names given back to the heap
  bindings,       \* _nl_domain_bindings, by domain name
  language,       \* the environment variable LANGUAGE
  globalLocale,   \* what setlocale (category, NULL) returns
  tree,           \* the known translations, by key
  pc,             \* what each thread is about to do
  args,           \* the arguments of its call
  domainname,     \* and the local variables
  foundp,         \* the node found in the tree, or Null
  search,
  update,
  result          \* what was found, or Null

stateLockVars == <<stateReaders, stateWriter>>
treeLockVars  == <<treeReaders, treeWriter>>
lockVars      == <<stateReaders, stateWriter, treeReaders, treeWriter>>
domainVars    == <<defaultDomain, freed>>
settingVars   == <<cntr, defaultDomain, freed, bindings>>
envVars       == <<language, globalLocale>>
localVars     == <<args, domainname, foundp, search, update, result>>
vars == <<stateReaders, stateWriter, treeReaders, treeWriter, cntr, defaultDomain, freed,
          bindings, language, globalLocale, tree, pc, args, domainname, foundp, search, update,
          result>>

StateLock == INSTANCE RwLock WITH readers <- stateReaders, writer <- stateWriter
TreeLock  == INSTANCE RwLock WITH readers <- treeReaders, writer <- treeWriter

KeyMutant(t) == [msgid |-> args[t].msgid, domainname |-> domainname[t].name,
                 localename |-> CLocale]  \* without the thread's locale
Key(t) == [msgid |-> args[t].msgid, domainname |-> domainname[t].name,
           localename |-> args[t].localename]

\* guess_category_value: the list of the locale names to try.
CategoryValue(localename) ==
  LET locale == IF ThreadNames THEN localename ELSE globalLocale
  IN  IF locale = CLocale \/ language = <<>> THEN <<locale>> ELSE language

Catalog(dir, loc, dom) == [dir |-> dir, loc |-> loc, dom |-> dom]

\* The catalogs for a locale name, in the order in which they are tried: domain
\* and domain->successor[].  A secure program ignores names of files.
CatalogsFor(dirname, locale, domain) ==
  IF Secure /\ locale \in PathLocales THEN <<>>
  ELSE [n \in DOMAIN Tried[locale] |-> Catalog(dirname, Tried[locale][n], domain)]

\* A search may come to its end without what this catalog has for msgid.
MayMiss(catalog, msgid) == <<catalog, msgid>> \in Installed => <<catalog, msgid>> \in Failing

\* The catalogs among these in which a search may find msgid: the first one that
\* has it, or one behind others that fail.
Answering(catalogs, msgid) ==
  {catalogs[n] : n \in {m \in DOMAIN catalogs :
     /\ <<catalogs[m], msgid>> \in Installed
     /\ \A j \in 1..(m - 1) : MayMiss(catalogs[j], msgid)}}

\* A search may find msgid in none of them.
MayMissAll(catalogs, msgid) == \A n \in DOMAIN catalogs : MayMiss(catalogs[n], msgid)

\* What _nl_find_msg makes of a message of this catalog: it is converted to the
\* codeset bound to the domain, or to that of the locale.
FindMsg(catalog, codeset) ==
  [domain |-> catalog, translation |-> [cat |-> catalog, codeset |-> codeset]]

Goto(t, label) == pc' = [pc EXCEPT ![t] = label]
Return(t) == /\ Goto(t, "idle")
             /\ args' = [args EXCEPT ![t] = NoArgs]
             /\ domainname' = [domainname EXCEPT ![t] = StaticDomain]
             /\ foundp' = [foundp EXCEPT ![t] = Null]
             /\ search' = [search EXCEPT ![t] = NoSearch]
             /\ update' = [update EXCEPT ![t] = NoUpdate]
             /\ result' = [result EXCEPT ![t] = Null]

Init ==
  /\ StateLock!Init /\ TreeLock!Init
  /\ cntr = 0
  /\ defaultDomain = StaticDomain
  /\ freed = {}
  /\ bindings = [d \in Domains |-> Unbound]
  /\ language \in Languages /\ globalLocale = CLocale  \* until the first setlocale
  /\ tree = [k \in Keys |-> Null]
  /\ pc = [t \in Threads |-> "idle"]
  /\ args = [t \in Threads |-> NoArgs]
  /\ domainname = [t \in Threads |-> StaticDomain]
  /\ foundp = [t \in Threads |-> Null]
  /\ search = [t \in Threads |-> NoSearch]
  /\ update = [t \in Threads |-> NoUpdate]
  /\ result = [t \in Threads |-> Null]

-----------------------------------------------------------------------------
(* Looking up a message.                                                   *)

(* A thread calls dcgettext (domain, msgid, category) in the locale it has *)
(* chosen by setlocale or uselocale; domain may be NULL.                   *)
Call(t) ==
  /\ pc[t] = "idle"
  /\ \E d \in Domains \cup {Null}, m \in Msgids, l \in Locales :
       args' = [args EXCEPT ![t].domainname = d, ![t].msgid = m, ![t].localename = l]
  /\ Goto(t, "enter")
  /\ UNCHANGED <<lockVars, settingVars, envVars, tree, domainname, foundp, search, update,
                 result>>

Enter(t) ==
  /\ pc[t] = "enter"
  /\ StateLock!RdLock(t)
  /\ domainname' = [domainname EXCEPT ![t] =
       IF args[t].domainname = Null THEN defaultDomain
       ELSE [name |-> args[t].domainname, alloc |-> 0]]
  /\ Goto(t, "lookup")
  /\ UNCHANGED <<treeLockVars, settingVars, envVars, tree, args, foundp, search, update,
                 result>>

TreeRdlock(t) ==
  /\ pc[t] = "lookup"
  /\ TreeLock!RdLock(t)
  /\ Goto(t, "tfind")
  /\ UNCHANGED <<stateLockVars, settingVars, envVars, tree, localVars>>

Tfind(t) ==
  /\ pc[t] = "tfind"
  /\ foundp' = [foundp EXCEPT ![t] = IF tree[Key(t)] = Null THEN Null ELSE Key(t)]
  /\ TreeLock!Unlock(t)
  /\ Goto(t, "check")
  /\ UNCHANGED <<stateLockVars, settingVars, envVars, tree, args, domainname, search,
                 update, result>>

CurrentMutant(t) == foundp[t] # Null
Current(t) == foundp[t] # Null /\ tree[foundp[t]].counter = cntr

CheckCounter(t) ==
  /\ pc[t] = "check"
  /\ IF Current(t)
     THEN Goto(t, "hit") ELSE Goto(t, "resolve")
  /\ UNCHANGED <<lockVars, settingVars, envVars, tree, localVars>>

(* The entry is used without a second look at its counter.                 *)
ReadHit(t) ==
  /\ pc[t] = "hit"
  /\ result' = [result EXCEPT ![t] = [domain |-> tree[foundp[t]].domain,
                                      translation |-> tree[foundp[t]].translation]]
  /\ Goto(t, "leave")
  /\ UNCHANGED <<lockVars, settingVars, envVars, tree, args, domainname, foundp, search,
                 update>>

(* The binding, an absolute directory name (getcwd may fail), and the list *)
(* of locale names.                                                        *)
Resolve(t) ==
  /\ pc[t] = "resolve"
  /\ LET dir == bindings[domainname[t].name].dirname
     IN  \/ /\ search' = [search EXCEPT ![t] =
                 [list |-> CategoryValue(args[t].localename), pos |-> 1, dirname |-> dir]]
            /\ Goto(t, "search")
         \/ /\ dir \in RelativeDirs
            /\ Goto(t, "leave")
            /\ UNCHANGED search
  /\ UNCHANGED <<lockVars, settingVars, envVars, tree, args, domainname, foundp, update,
                 result>>

NextLocaleMutant(s) == s
NextLocale(s) == [s EXCEPT !.pos = @ + 1]

(* One turn of the loop over the list; past its end comes an implicit "C". *)
(* If _nl_find_domain or _nl_find_msg return NULL, the loop goes on, be it *)
(* that the message is not there or that it failed; -1 ends the loop.      *)
TryLocale(t) ==
  /\ pc[t] = "search"
  /\ LET s        == search[t]
         locale   == IF s.pos \in DOMAIN s.list THEN s.list[s.pos] ELSE CLocale
         catalogs == CatalogsFor(s.dirname, locale, domainname[t].name)
         msgid    == args[t].msgid
     IN  \/ /\ locale # CLocale
            /\ \E catalog \in Answering(catalogs, msgid) :
                 result' = [result EXCEPT ![t] =
                              FindMsg(catalog, bindings[domainname[t].name].codeset)]
            /\ Goto(t, "found")
            /\ UNCHANGED search
         \/ /\ locale # CLocale /\ MayMissAll(catalogs, msgid)
            /\ search' = [search EXCEPT ![t] = NextLocale(s)]
            /\ UNCHANGED <<pc, result>>
         \/ /\ locale = CLocale \/ Answering(catalogs, msgid) # {}
            /\ Goto(t, "leave")
            /\ UNCHANGED <<search, result>>
  /\ UNCHANGED <<lockVars, settingVars, envVars, tree, args, domainname, foundp, update>>

(* The counter is read once the translation is known.  Without an entry to *)
(* update a new one is allocated, which may fail.                          *)
Stamp(t) ==
  /\ pc[t] = "found"
  /\ update' = [update EXCEPT ![t] =
       [stamp |-> cntr, todo |-> IF foundp[t] = Null THEN {} ELSE Fields]]
  /\ \/ foundp[t] # Null /\ Goto(t, "update")
     \/ foundp[t] = Null /\ Goto(t, "insert")
     \/ foundp[t] = Null /\ Goto(t, "leave")
  /\ UNCHANGED <<lockVars, settingVars, envVars, tree, args, domainname, foundp, search,
                 result>>

TreeWrlockMutant(t) ==
  /\ pc[t] = "insert" /\ TreeLock!RdLock(t) /\ Goto(t, "tsearch")
  /\ UNCHANGED <<stateLockVars, settingVars, envVars, tree, localVars>>

TreeWrlock(t) ==
  /\ pc[t] = "insert"
  /\ TreeLock!WrLock(t)
  /\ Goto(t, "tsearch")
  /\ UNCHANGED <<stateLockVars, settingVars, envVars, tree, localVars>>

(* tsearch inserts the new entry, or it finds the one that another thread  *)
(* has inserted meanwhile or fails for lack of memory.                     *)
Tsearch(t) ==
  /\ pc[t] = "tsearch"
  /\ \/ /\ tree[Key(t)] = Null
        /\ tree' = [tree EXCEPT ![Key(t)] =
                      [counter |-> update[t].stamp, domain |-> result[t].domain,
                       translation |-> result[t].translation]]
     \/ UNCHANGED tree
  /\ TreeLock!Unlock(t)
  /\ Goto(t, "leave")
  /\ UNCHANGED <<stateLockVars, settingVars, envVars, localVars>>

(* The assignments to **foundp are plain stores, with no lock that keeps   *)
(* the readers of the entry away: they land in any order.                  *)
UpdateField(t) ==
  /\ pc[t] = "update"
  /\ \E f \in update[t].todo :
       /\ tree' = [tree EXCEPT ![foundp[t]] =
            CASE f = "counter"     -> [@ EXCEPT !.counter = update[t].stamp]
              [] f = "domain"      -> [@ EXCEPT !.domain = result[t].domain]
              [] f = "translation" -> [@ EXCEPT !.translation = result[t].translation]]
       /\ update' = [update EXCEPT ![t].todo = @ \ {f}]
       /\ IF update[t].todo = {f} THEN Goto(t, "leave") ELSE UNCHANGED pc
  /\ UNCHANGED <<lockVars, settingVars, envVars, args, domainname, foundp, search, result>>

\* No unlock on the way to return_untranslated.
LeaveMutant(t) ==
  /\ pc[t] = "leave" /\ Return(t)
  /\ IF result[t] = Null THEN UNCHANGED stateLockVars ELSE StateLock!Unlock(t)
  /\ UNCHANGED <<treeLockVars, settingVars, envVars, tree>>

(* An untranslated message may be logged, after the unlock.                *)
Leave(t) ==
  /\ pc[t] = "leave"
  /\ StateLock!Unlock(t)
  /\ \/ Return(t)
     \/ /\ result[t] = Null
        /\ Goto(t, "log")
        /\ UNCHANGED localVars
  /\ UNCHANGED <<treeLockVars, settingVars, envVars, tree>>

(* _nl_log_untranslated reads the domain name.                             *)
Log(t) ==
  /\ pc[t] = "log"
  /\ Return(t)
  /\ UNCHANGED <<lockVars, settingVars, envVars, tree>>

Lookup(t) ==
  \/ Enter(t) \/ TreeRdlock(t) \/ Tfind(t) \/ CheckCounter(t) \/ ReadHit(t)
  \/ Resolve(t) \/ TryLocale(t) \/ Stamp(t) \/ TreeWrlock(t) \/ Tsearch(t)
  \/ UpdateField(t) \/ Leave(t) \/ Log(t)

-----------------------------------------------------------------------------
(* Changing the settings.                                                  *)

Configurers == {t \in Threads : pc[t] \in {"wantTextdomain", "wantBinding", "textdomain",
                                           "binding", "bump"}}

(* textdomain (name), bindtextdomain (name, dir) or                        *)
(* bind_textdomain_codeset (name, codeset), with non-NULL arguments: the   *)
(* others change nothing.                                                  *)
Configure(t) ==
  /\ pc[t] = "idle"
  /\ cntr + Cardinality(Configurers) < MaxCntr
  /\ \E d \in Domains :
       \/ /\ args' = [args EXCEPT ![t].domainname = d]
          /\ Goto(t, "wantTextdomain")
       \/ /\ \E dir \in Dirs :
               args' = [args EXCEPT ![t].domainname = d, ![t].dirname = dir]
          /\ Goto(t, "wantBinding")
       \/ /\ \E c \in Codesets :
               args' = [args EXCEPT ![t].domainname = d, ![t].codeset = c]
          /\ Goto(t, "wantBinding")
  /\ UNCHANGED <<lockVars, settingVars, envVars, tree, domainname, foundp, search, update,
                 result>>

WriteEnter(t) ==
  /\ \/ pc[t] = "wantTextdomain" /\ Goto(t, "textdomain")
     \/ pc[t] = "wantBinding" /\ Goto(t, "binding")
  /\ StateLock!WrLock(t)
  /\ UNCHANGED <<treeLockVars, settingVars, envVars, tree, localVars>>

Done(t)     == Return(t) /\ StateLock!Unlock(t)
Modified(t) == Goto(t, "bump") /\ UNCHANGED <<stateLockVars, localVars>>

\* The old name freed also when it is the new one.
SetDefaultDomainMutant(t, new) ==
  /\ defaultDomain' = new
  /\ freed' = freed \cup ({defaultDomain.alloc} \ {0})
  /\ Modified(t)

SetDefaultDomain(t, new) ==
  /\ defaultDomain' = new
  /\ freed' = freed \cup ({defaultDomain.alloc} \ {0, new.alloc})
  /\ Modified(t)

(* The caches are flushed also when the domain stays the same.             *)
Textdomain(t) ==
  /\ pc[t] = "textdomain"
  /\ LET name == args[t].domainname
     IN  \/ /\ name = DefaultDomain
            /\ SetDefaultDomain(t, StaticDomain)
         \/ /\ name # DefaultDomain /\ name = defaultDomain.name
            /\ SetDefaultDomain(t, defaultDomain)
         \/ /\ name \notin {DefaultDomain, defaultDomain.name}
            /\ SetDefaultDomain(t, [name |-> name, alloc |-> cntr + 1])
         \/ /\ name \notin {DefaultDomain, defaultDomain.name}  \* strdup fails
            /\ Done(t)
            /\ UNCHANGED domainVars
  /\ UNCHANGED <<treeLockVars, cntr, bindings, envVars, tree>>

(* What set_binding_values leaves bound for the given pointers.            *)
Rebound(old, dir, codeset) ==
  [bound |-> TRUE,
   dirname |-> IF dir = Null THEN old.dirname ELSE dir,
   codeset |-> IF codeset = Null THEN old.codeset ELSE codeset]

(* Nothing is modified when nothing changes, and when an allocation fails: *)
(* of the binding, or of the copy of a string.                             *)
SetBindingValues(t) ==
  /\ pc[t] = "binding"
  /\ LET name == args[t].domainname
         old  == bindings[name]
         new  == Rebound(old, args[t].dirname, args[t].codeset)
     IN  \/ /\ new # old
            /\ bindings' = [bindings EXCEPT ![name] = new]
            /\ Modified(t)
         \/ /\ \/ new = old \/ ~old.bound
               \/ new.dirname \notin {old.dirname, DefaultDir}
               \/ new.codeset # old.codeset
            /\ Done(t)
            /\ UNCHANGED bindings
  /\ UNCHANGED <<treeLockVars, cntr, domainVars, envVars, tree>>

Bump(t) ==
  /\ pc[t] = "bump"
  /\ cntr' = cntr + 1
  /\ Done(t)
  /\ UNCHANGED <<treeLockVars, domainVars, bindings, envVars, tree>>

Settings(t) == WriteEnter(t) \/ Textdomain(t) \/ SetBindingValues(t) \/ Bump(t)

Next == \E t \in Threads : Call(t) \/ Lookup(t) \/ Configure(t) \/ Settings(t)

Spec == Init /\ [][Next]_vars

(* The scheduler runs every thread that can run, and a thread that waits   *)
(* for a lock gets it if the lock is free again and again.  The latter is  *)
(* an assumption on the locks: those of lock.c do not lose a wake-up and   *)
(* do not starve a writer (GlRwLock), but say nothing of readers.  No      *)
(* thread is obliged to begin a call.                                      *)
Waiting(t) == Enter(t) \/ TreeRdlock(t) \/ TreeWrlock(t) \/ WriteEnter(t)

Fairness == \A t \in Threads : /\ WF_vars(Lookup(t) \/ Settings(t))
                               /\ SF_vars(Waiting(t))

FairSpec == Spec /\ Fairness

-----------------------------------------------------------------------------
(* Properties.                                                             *)

Steps == {"idle", "enter", "lookup", "tfind", "check", "hit", "resolve", "search",
          "found", "insert", "tsearch", "update", "leave", "log",
          "wantTextdomain", "wantBinding", "textdomain", "binding", "bump"}
Reading == {"lookup", "tfind", "check", "hit", "resolve", "search", "found", "insert",
            "tsearch", "update", "leave"}
Writing == {"textdomain", "binding", "bump"}

(* The variables have the types of the C declarations, and the locks are   *)
(* held by the threads whose program point says so.                        *)
TypeOK ==
  /\ stateReaders = {t \in Threads : pc[t] \in Reading}
  /\ stateWriter \in Threads \cup {Null}
  /\ treeReaders = {t \in Threads : pc[t] = "tfind"}
  /\ treeWriter \in Threads \cup {Null}
  /\ cntr \in Nat
  /\ defaultDomain \in Pointers /\ freed \subseteq Nat \ {0}
  /\ bindings \in [Domains -> Bindings]
  /\ language \in Languages /\ globalLocale \in Locales
  /\ tree \in [Keys -> Entries \cup {Null}]
  /\ pc \in [Threads -> Steps]
  /\ args \in [Threads -> Args] /\ domainname \in [Threads -> Pointers]
  /\ foundp \in [Threads -> Keys \cup {Null}] /\ search \in [Threads -> Searches]
  /\ update \in [Threads -> Updates] /\ result \in [Threads -> Results \cup {Null}]

(* "Since tfind/tsearch manage a balanced tree, concurrent tfind and       *)
(* tsearch calls can be fatal" (dcigettext.c:583): while a thread inserts, *)
(* no other one searches or inserts.                                       *)
TreeExclusion ==
  \A t, u \in Threads :
    pc[t] = "tsearch" /\ pc[u] \in {"tfind", "tsearch"} => t = u

\* What the loop over the list of locale names may find for this key under the
\* settings in force: a message of a catalog before which all that have it fail.
\* This is one translation, if no catalog fails.
InForce(key) ==
  LET value       == CategoryValue(key.localename)
      binding     == bindings[key.domainname]
      catalogs(i) == CatalogsFor(binding.dirname, value[i], key.domainname)
      reached     == {i \in DOMAIN value :
                        /\ \A j \in 1..i : value[j] # CLocale
                        /\ \A j \in 1..(i - 1) : MayMissAll(catalogs(j), key.msgid)}
  IN  {FindMsg(c, binding.codeset) :
         c \in UNION {Answering(catalogs(i), key.msgid) : i \in reached}}

IsTranslation(key, r) == r \in InForce(key)

\* What the entry of this key says.
EntrySays(key) == [domain |-> tree[key].domain, translation |-> tree[key].translation]

\* Catalog and string of a result need not be of the same search.
Mix(a, b) == [domain |-> a.domain, translation |-> b.translation]

\* A thread is about to overwrite what the entry of this key says.
BeingUpdated(key) ==
  \E t \in Threads : pc[t] = "update" /\ foundp[t] = key /\ update[t].todo # {"counter"}

(* The cache of known translations is coherent: when no change of the      *)
(* settings is under way, an entry whose counter is current says what a    *)
(* full search may find now, unless a thread is just overwriting it.  Its  *)
(* catalog and its string may stem from two searches, one of which has had *)
(* a failure: what is found behind a failure stays in the cache.           *)
CacheCoherent ==
  stateWriter = Null =>
    \A k \in Keys :
      tree[k] # Null /\ tree[k].counter = cntr =>
        \/ \E a, b \in InForce(k) : EntrySays(k) = Mix(a, b)
        \/ BeingUpdated(k)

(* A lookup never works with a domain name that textdomain has freed.      *)
DomainNameValid ==
  \A t \in Threads : pc[t] \in Reading => domainname[t].alloc \notin freed

(* Every lookup and every change of the settings ends: the two locks do    *)
(* not deadlock, and the loop over the list of locale names terminates.    *)
CallsReturn == \A t \in Threads : pc[t] # "idle" ~> pc[t] = "idle"

(* What the program would like to rely on, and cannot.                     *)

(* A lookup returns a message that the settings in force select: the       *)
(* counter of an entry is the "state of the catalog counter at the point   *)
(* the string was found" (dcigettext.c:261).                               *)
AnswerCurrent ==
  \A t \in Threads :
    pc[t] = "leave" /\ result[t] # Null => IsTranslation(Key(t), result[t])

(* Once nobody overwrites a current entry, its catalog is the "catalog     *)
(* where the string was found" (dcigettext.c:264): plural_lookup takes the *)
(* plural formula from the one and the plural forms from the other.        *)
EntryWhole ==
  \A k \in Keys :
    tree[k] # Null /\ tree[k].counter = cntr
      /\ (\A t \in Threads : ~(pc[t] = "update" /\ foundp[t] = k)) =>
        tree[k].translation.cat = tree[k].domain
=============================================================================
