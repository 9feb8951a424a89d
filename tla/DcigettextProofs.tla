-------------------------- MODULE DcigettextProofs --------------------------
(***************************************************************************)
(* The safety properties of Dcigettext, for any threads, catalogs and      *)
(* settings.  IInv is inductive; each of its parts is kept by every step   *)
(* of a state in which all of them hold.                                   *)
(***************************************************************************)
EXTENDS DcigettextInv, TLAPS

Step(t) == Call(t) \/ Lookup(t) \/ Configure(t) \/ Settings(t)

-----------------------------------------------------------------------------
(* Types.                                                                  *)

LEMMA NoCallTypes ==
  /\ NoArgs \in Args /\ StaticDomain \in Pointers /\ Null \in Keys \cup {Null}
  /\ NoSearch \in Searches /\ NoUpdate \in Updates /\ Null \in Results \cup {Null}
  BY ConstantsAssumption
  DEF NoArgs, Args, StaticDomain, Pointers, NoSearch, Searches, NoUpdate, Updates

LEMMA InitTypeOK == Init => TypeOK
  <1> SUFFICES ASSUME Init PROVE TypeOK OBVIOUS
  <1>1. [d \in Domains |-> Unbound] \in [Domains -> Bindings]
    BY ConstantsAssumption DEF Unbound, Bindings
  <1> QED
    BY <1>1, NoCallTypes, ConstantsAssumption
    DEF Init, TypeOK, StateLock!Init, TreeLock!Init, Steps, Reading

LEMMA ReturnTypes ==
  ASSUME TypeOK, NEW t \in Threads, Return(t)
  PROVE  /\ args' \in [Threads -> Args] /\ domainname' \in [Threads -> Pointers]
         /\ foundp' \in [Threads -> Keys \cup {Null}] /\ search' \in [Threads -> Searches]
         /\ update' \in [Threads -> Updates] /\ result' \in [Threads -> Results \cup {Null}]
  BY NoCallTypes DEF TypeOK, Return

(* The arguments keep their types.                                         *)
LEMMA ArgsType ==
  ASSUME TypeOK, NEW t \in Threads, Step(t)
  PROVE  args' \in [Threads -> Args]
  <1>0. args \in [Threads -> Args]
    BY DEF TypeOK
  <1>1. CASE Call(t)
    <2>1. PICK d \in Domains \cup {Null}, m \in Msgids, l \in Locales :
            args' = [args EXCEPT ![t].domainname = d, ![t].msgid = m, ![t].localename = l]
      BY <1>1 DEF Call
    <2> QED BY <1>0, <2>1 DEF Args
  <1>2. CASE Configure(t)
    <2>1. PICK d \in Domains :
            \/ args' = [args EXCEPT ![t].domainname = d]
            \/ \E dir \in Dirs : args' = [args EXCEPT ![t].domainname = d, ![t].dirname = dir]
            \/ \E c \in Codesets : args' = [args EXCEPT ![t].domainname = d, ![t].codeset = c]
      BY <1>2 DEF Configure
    <2> QED BY <1>0, <2>1 DEF Args
  <1>3. CASE Return(t)
    BY <1>3, ReturnTypes
  <1>4. CASE UNCHANGED args
    BY <1>0, <1>4
  <1>5. Call(t) \/ Configure(t) \/ Return(t) \/ UNCHANGED args
    BY DEF Step, Lookup, Settings, Enter, TreeRdlock, Tfind, CheckCounter, ReadHit, Resolve,
           TryLocale, Stamp, TreeWrlock, Tsearch, UpdateField, Leave, Log, WriteEnter,
           Textdomain, SetDefaultDomain, SetBindingValues, Bump, Done, Modified, localVars
  <1> QED
    BY <1>1, <1>2, <1>3, <1>4, <1>5

LEMMA KeyType ==
  ASSUME TypeOK, NEW t \in Threads, LookupInv(t), pc[t] \in Reading \cup {"enter"}
  PROVE  Key(t) \in Keys
  BY DEF TypeOK, LookupInv, Key, Keys, Args, Pointers

LEMMA CategoryValueType ==
  ASSUME TypeOK, NEW l \in Locales
  PROVE  CategoryValue(l) \in Seq(Locales)
  BY ConstantsAssumption DEF TypeOK, CategoryValue

LEMMA AnsweringType ==
  ASSUME NEW dir \in Dirs, NEW l \in Locales, NEW d \in Domains, NEW m
  PROVE  Answering(CatalogsFor(dir, l, d), m) \subseteq Catalogs
  <1>1. Tried[l] \in Seq(CatalogNames)
    BY ConstantsAssumption
  <1>2. \A n \in DOMAIN CatalogsFor(dir, l, d) : CatalogsFor(dir, l, d)[n] \in Catalogs
    BY <1>1 DEF CatalogsFor, Catalog, Catalogs
  <1> QED BY <1>2 DEF Answering

LEMMA FindMsgType ==
  ASSUME NEW catalog \in Catalogs, NEW c \in Codesets \cup {Null}
  PROVE  FindMsg(catalog, c) \in Results
  BY DEF FindMsg, Results, Translations

(* The local variables keep their types.                                   *)
LEMMA LocalsType ==
  ASSUME TypeOK, NEW t \in Threads, LookupInv(t), Step(t)
  PROVE  /\ domainname' \in [Threads -> Pointers]
         /\ foundp' \in [Threads -> Keys \cup {Null}] /\ search' \in [Threads -> Searches]
         /\ update' \in [Threads -> Updates] /\ result' \in [Threads -> Results \cup {Null}]
  <1> DEFINE Goal == /\ domainname' \in [Threads -> Pointers]
                     /\ foundp' \in [Threads -> Keys \cup {Null}]
                     /\ search' \in [Threads -> Searches]
                     /\ update' \in [Threads -> Updates]
                     /\ result' \in [Threads -> Results \cup {Null}]
  <1>1. CASE Enter(t)
    <2>1. args[t] \in Args /\ defaultDomain \in Pointers
      BY DEF TypeOK
    <2>2. (IF args[t].domainname = Null THEN defaultDomain
           ELSE [name |-> args[t].domainname, alloc |-> 0]) \in Pointers
      BY <2>1 DEF Args, Pointers
    <2> QED BY <1>1, <2>2 DEF Enter, TypeOK
  <1>2. CASE Tfind(t)
    <2>1. Key(t) \in Keys
      BY <1>2, KeyType DEF Tfind, Reading
    <2> QED BY <1>2, <2>1 DEF Tfind, TypeOK
  <1>3. CASE ReadHit(t)
    <2>1. foundp[t] \in Keys
      BY <1>3 DEF ReadHit, LookupInv, TypeOK
    <2>2. tree[foundp[t]] \in Entries
      BY <1>3, <2>1 DEF ReadHit, LookupInv, FoundInv, TypeOK, Reading
    <2>3. [domain |-> tree[foundp[t]].domain,
           translation |-> tree[foundp[t]].translation] \in Results
      BY <2>2 DEF Entries, Results
    <2> QED BY <1>3, <2>3 DEF ReadHit, TypeOK
  <1>4. CASE Resolve(t)
    <2>1. args[t].localename \in Locales /\ bindings[domainname[t].name].dirname \in Dirs
      BY DEF TypeOK, Args, Pointers, Bindings
    <2>2. [list |-> CategoryValue(args[t].localename), pos |-> 1,
           dirname |-> bindings[domainname[t].name].dirname] \in Searches
      BY <2>1, CategoryValueType DEF Searches
    <2> QED BY <1>4, <2>2 DEF Resolve, TypeOK
  <1>5. CASE TryLocale(t)
    <2> DEFINE s == search[t]
               locale == IF s.pos \in DOMAIN s.list THEN s.list[s.pos] ELSE CLocale
    <2>1. s.list \in Seq(Locales) /\ s.pos \in Nat /\ s.dirname \in Dirs
      BY DEF TypeOK, Searches
    <2>2. locale \in Locales
      BY <2>1, ConstantsAssumption
    <2>3. domainname[t].name \in Domains
          /\ bindings[domainname[t].name].codeset \in Codesets \cup {Null}
      BY DEF TypeOK, Pointers, Bindings
    <2>4. \A catalog \in Answering(CatalogsFor(s.dirname, locale, domainname[t].name),
                                   args[t].msgid) :
            FindMsg(catalog, bindings[domainname[t].name].codeset) \in Results
      BY <2>1, <2>2, <2>3, AnsweringType, FindMsgType
    <2>5. s.pos + 1 \in Nat
      BY <2>1
    <2>6. [s EXCEPT !.pos = s.pos + 1] \in Searches
      BY <2>5 DEF TypeOK, Searches
    <2>7. [search EXCEPT ![t].pos = @ + 1] \in [Threads -> Searches]
      BY <2>6 DEF TypeOK
    <2>8. /\ UNCHANGED <<domainname, foundp, update>>
          /\ \/ UNCHANGED search \/ search' = [search EXCEPT ![t].pos = @ + 1]
          /\ \/ UNCHANGED result
             \/ \E catalog \in Answering(CatalogsFor(s.dirname, locale, domainname[t].name),
                                        args[t].msgid) :
                  result' = [result EXCEPT ![t] =
                               FindMsg(catalog, bindings[domainname[t].name].codeset)]
      BY <1>5 DEF TryLocale, NextLocale
    <2>9. result' \in [Threads -> Results \cup {Null}]
      BY <2>4, <2>8 DEF TypeOK
    <2> QED BY <2>7, <2>8, <2>9 DEF TypeOK
  <1>6. CASE Stamp(t)
    <2>1. (IF foundp[t] = Null THEN {} ELSE Fields) \in SUBSET Fields
      OBVIOUS
    <2>2. [stamp |-> cntr, todo |-> IF foundp[t] = Null THEN {} ELSE Fields] \in Updates
      BY <2>1 DEF TypeOK, Updates
    <2> QED BY <1>6, <2>2 DEF Stamp, TypeOK
  <1>7. CASE UpdateField(t)
    <2>1. PICK f : update' = [update EXCEPT ![t].todo = @ \ {f}]
      BY <1>7 DEF UpdateField
    <2>2. update' \in [Threads -> Updates]
      BY <2>1 DEF TypeOK, Updates
    <2> QED BY <1>7, <2>2 DEF UpdateField, TypeOK
  <1>8. CASE Return(t)
    BY <1>8, ReturnTypes
  <1>9. CASE UNCHANGED <<domainname, foundp, search, update, result>>
    BY <1>9 DEF TypeOK
  <1>10. \/ Enter(t) \/ Tfind(t) \/ ReadHit(t) \/ Resolve(t) \/ TryLocale(t) \/ Stamp(t)
         \/ UpdateField(t) \/ Return(t) \/ UNCHANGED <<domainname, foundp, search, update, result>>
    BY DEF Step, Lookup, Settings, Call, Configure, TreeRdlock, CheckCounter, TreeWrlock,
           Tsearch, Leave, Log, WriteEnter, Textdomain, SetDefaultDomain, SetBindingValues,
           Bump, Done, Modified, localVars
  <1> QED
    BY <1>1, <1>2, <1>3, <1>4, <1>5, <1>6, <1>7, <1>8, <1>9, <1>10

LEMMA EntryType ==
  ASSUME NEW n \in Nat, NEW d \in Catalogs, NEW x \in Translations
  PROVE  [counter |-> n, domain |-> d, translation |-> x] \in Entries
  BY DEF Entries

(* The entries of the tree keep their types.                               *)
LEMMA TreeType ==
  ASSUME TypeOK, NEW t \in Threads, LookupInv(t), UpdateInv(t), Step(t)
  PROVE  tree' \in [Keys -> Entries \cup {Null}]
  <1>1. CASE Tsearch(t)
    <2>1. Key(t) \in Keys /\ result[t] \in Results /\ update[t].stamp \in Nat
      BY <1>1, KeyType DEF Tsearch, Reading, LookupInv, TypeOK, Updates
    <2>2. [counter |-> update[t].stamp, domain |-> result[t].domain,
           translation |-> result[t].translation] \in Entries
      BY <2>1, EntryType DEF Results
    <2> QED BY <1>1, <2>1, <2>2 DEF Tsearch, TypeOK
  <1>2. CASE UpdateField(t)
    <2>1. foundp[t] \in Keys /\ tree[foundp[t]] \in Entries
      BY <1>2 DEF UpdateField, UpdateInv, LookupInv, FoundInv, TypeOK, Reading
    <2>2. result[t] \in Results /\ update[t].stamp \in Nat
      BY <1>2 DEF UpdateField, LookupInv, TypeOK, Updates
    <2>3. /\ [tree[foundp[t]] EXCEPT !.counter = update[t].stamp] \in Entries
          /\ [tree[foundp[t]] EXCEPT !.domain = result[t].domain] \in Entries
          /\ [tree[foundp[t]] EXCEPT !.translation = result[t].translation] \in Entries
      BY <2>1, <2>2 DEF Entries, Results
    <2>4. PICK f \in update[t].todo : tree' = [tree EXCEPT ![foundp[t]] =
            CASE f = "counter"     -> [@ EXCEPT !.counter = update[t].stamp]
              [] f = "domain"      -> [@ EXCEPT !.domain = result[t].domain]
              [] f = "translation" -> [@ EXCEPT !.translation = result[t].translation]]
      BY <1>2 DEF UpdateField
    <2>5. f \in Fields
      BY <2>4 DEF TypeOK, Updates
    <2>6. CASE f = "counter"
      BY <2>1, <2>3, <2>4, <2>6 DEF TypeOK
    <2>7. CASE f = "domain"
      BY <2>1, <2>3, <2>4, <2>7 DEF TypeOK
    <2>8. CASE f = "translation"
      BY <2>1, <2>3, <2>4, <2>8 DEF TypeOK
    <2> QED BY <2>5, <2>6, <2>7, <2>8 DEF Fields
  <1>3. CASE UNCHANGED tree
    BY <1>3 DEF TypeOK
  <1>4. Tsearch(t) \/ UpdateField(t) \/ UNCHANGED tree
    BY DEF Step, Lookup, Settings, Call, Configure, Enter, TreeRdlock, Tfind, CheckCounter,
           ReadHit, Resolve, TryLocale, Stamp, TreeWrlock, Leave, Log, WriteEnter,
           Textdomain, SetBindingValues, Bump
  <1> QED
    BY <1>1, <1>2, <1>3, <1>4

(* The settings keep their types.                                          *)
LEMMA SettingsType ==
  ASSUME TypeOK, NEW t \in Threads, LookupInv(t), Step(t)
  PROVE  /\ cntr' \in Nat
         /\ defaultDomain' \in Pointers /\ freed' \subseteq Nat \ {0}
         /\ bindings' \in [Domains -> Bindings]
         /\ language' \in Languages /\ globalLocale' \in Locales
  <1>1. CASE Textdomain(t)
    <2>1. args[t].domainname \in Domains
      BY <1>1 DEF Textdomain, LookupInv
    <2>2. StaticDomain \in Pointers /\ defaultDomain \in Pointers
          /\ [name |-> args[t].domainname, alloc |-> cntr + 1] \in Pointers
      BY <2>1, NoCallTypes DEF TypeOK, Pointers
    <2>3. {defaultDomain.alloc} \ {0} \subseteq Nat \ {0}
      BY DEF TypeOK, Pointers
    <2>4. defaultDomain' \in Pointers /\ freed' \subseteq Nat \ {0}
      <3>1. ASSUME NEW p, SetDefaultDomain(t, p), p \in Pointers
            PROVE  defaultDomain' \in Pointers /\ freed' \subseteq Nat \ {0}
        BY <2>3, <3>1 DEF SetDefaultDomain, TypeOK
      <3> QED BY <1>1, <2>2, <3>1 DEF Textdomain, TypeOK, domainVars
    <2> QED BY <1>1, <2>4 DEF Textdomain, TypeOK, envVars
  <1>2. CASE SetBindingValues(t)
    <2>1. args[t].domainname \in Domains /\ args[t] \in Args
      BY <1>2 DEF SetBindingValues, LookupInv, TypeOK
    <2>2. bindings[args[t].domainname] \in Bindings
      BY <2>1 DEF TypeOK
    <2>3. Rebound(bindings[args[t].domainname], args[t].dirname, args[t].codeset) \in Bindings
      BY <2>1, <2>2 DEF Rebound, Bindings, Args
    <2> QED BY <1>2, <2>3 DEF SetBindingValues, TypeOK, domainVars, envVars
  <1>3. CASE Bump(t)
    BY <1>3 DEF Bump, TypeOK, domainVars, envVars
  <1>4. CASE UNCHANGED <<cntr, defaultDomain, freed, bindings, language, globalLocale>>
    BY <1>4 DEF TypeOK
  <1>5. \/ Textdomain(t) \/ SetBindingValues(t) \/ Bump(t)
        \/ UNCHANGED <<cntr, defaultDomain, freed, bindings, language, globalLocale>>
    BY DEF Step, Lookup, Settings, Call, Configure, Enter, TreeRdlock, Tfind, CheckCounter,
           ReadHit, Resolve, TryLocale, Stamp, TreeWrlock, Tsearch, UpdateField, Leave, Log,
           WriteEnter, settingVars, envVars
  <1> QED
    BY <1>1, <1>2, <1>3, <1>4, <1>5

(* The program points, and the locks that belong to them.                  *)
LEMMA PcType ==
  ASSUME TypeOK, NEW t \in Threads, Step(t)
  PROVE  /\ pc' \in [Threads -> Steps]
         /\ \A u \in Threads \ {t} : pc'[u] = pc[u]
  <1>1. \A l \in Steps : Goto(t, l) => /\ pc' \in [Threads -> Steps]
                                       /\ \A u \in Threads \ {t} : pc'[u] = pc[u]
    BY DEF TypeOK, Goto
  <1>2. \/ UNCHANGED pc \/ \E l \in Steps : Goto(t, l)
    BY DEF Step, Lookup, Settings, Call, Configure, Enter, TreeRdlock, Tfind, CheckCounter,
           ReadHit, Resolve, TryLocale, Stamp, TreeWrlock, Tsearch, UpdateField, Leave, Log,
           WriteEnter, Textdomain, SetDefaultDomain, SetBindingValues, Bump, Done, Modified,
           Return, Steps
  <1> QED BY <1>1, <1>2 DEF TypeOK

LEMMA StateLockStep ==
  ASSUME TypeOK, LockInv, NEW t \in Threads, Step(t)
  PROVE  /\ stateReaders' = {u \in Threads : pc'[u] \in Reading}
         /\ stateWriter' \in Threads \cup {Null}
         /\ \A u \in Threads : stateWriter' = u <=> pc'[u] \in Writing
         /\ stateWriter' = Null \/ stateReaders' = {}
  <1> DEFINE Goal == /\ stateReaders' = {u \in Threads : pc'[u] \in Reading}
                     /\ stateWriter' \in Threads \cup {Null}
                     /\ \A u \in Threads : stateWriter' = u <=> pc'[u] \in Writing
                     /\ stateWriter' = Null \/ stateReaders' = {}
  <1>0. pc \in [Threads -> Steps] /\ Null \notin Threads
    BY NullAssumption DEF TypeOK
  <1>1. CASE Enter(t)
    BY <1>0, <1>1 DEF Enter, StateLock!RdLock, Goto, TypeOK, LockInv, Reading, Writing
  <1>2. CASE Leave(t)
    BY <1>0, <1>2 DEF Leave, StateLock!Unlock, Return, Goto, TypeOK, LockInv, Reading, Writing
  <1>3. CASE WriteEnter(t)
    BY <1>0, <1>3 DEF WriteEnter, StateLock!WrLock, Goto, TypeOK, LockInv, Reading, Writing
  <1>4. CASE pc[t] \in Writing /\ Done(t)
    BY <1>0, <1>4 DEF Done, StateLock!Unlock, Return, Goto, TypeOK, LockInv, Reading, Writing
  <1>5. CASE pc[t] \in Writing /\ Modified(t)
    BY <1>0, <1>5 DEF Modified, stateLockVars, Goto, TypeOK, LockInv, Reading, Writing
  <1>6. CASE /\ UNCHANGED stateLockVars
             /\ pc'[t] \in Reading <=> pc[t] \in Reading
             /\ pc'[t] \in Writing <=> pc[t] \in Writing
    <2>1. \A u \in Threads \ {t} : pc'[u] = pc[u]
      BY PcType
    <2> QED BY <1>6, <2>1 DEF stateLockVars, TypeOK, LockInv
  <1>7. CASE Textdomain(t) \/ SetBindingValues(t) \/ Bump(t)
    BY <1>4, <1>5, <1>7 DEF Textdomain, SetDefaultDomain, SetBindingValues, Bump, Writing
  <1>8. CASE Call(t) \/ Configure(t) \/ Log(t)
    BY <1>0, <1>6, <1>8
    DEF Call, Configure, Log, Return, Goto, lockVars, stateLockVars, Reading, Writing
  <1>9. CASE TreeRdlock(t) \/ Tfind(t) \/ CheckCounter(t) \/ ReadHit(t) \/ Resolve(t)
    BY <1>0, <1>6, <1>9
    DEF TreeRdlock, Tfind, CheckCounter, ReadHit, Resolve, Goto, lockVars, stateLockVars,
        Reading, Writing
  <1>10. CASE TryLocale(t) \/ Stamp(t) \/ TreeWrlock(t) \/ Tsearch(t) \/ UpdateField(t)
    BY <1>0, <1>6, <1>10
    DEF TryLocale, Stamp, TreeWrlock, Tsearch, UpdateField, Goto, lockVars, stateLockVars,
        Reading, Writing
  <1> QED
    BY <1>1, <1>2, <1>3, <1>7, <1>8, <1>9, <1>10 DEF Step, Lookup, Settings

LEMMA TreeLockStep ==
  ASSUME TypeOK, LockInv, NEW t \in Threads, Step(t)
  PROVE  /\ treeReaders' = {u \in Threads : pc'[u] = "tfind"}
         /\ treeWriter' \in Threads \cup {Null}
         /\ \A u \in Threads : treeWriter' = u <=> pc'[u] = "tsearch"
         /\ treeWriter' = Null \/ treeReaders' = {}
  <1> DEFINE Goal == /\ treeReaders' = {u \in Threads : pc'[u] = "tfind"}
                     /\ treeWriter' \in Threads \cup {Null}
                     /\ \A u \in Threads : treeWriter' = u <=> pc'[u] = "tsearch"
                     /\ treeWriter' = Null \/ treeReaders' = {}
  <1>0. pc \in [Threads -> Steps] /\ Null \notin Threads
    BY NullAssumption DEF TypeOK
  <1>1. CASE TreeRdlock(t)
    BY <1>0, <1>1 DEF TreeRdlock, TreeLock!RdLock, Goto, TypeOK, LockInv
  <1>2. CASE Tfind(t)
    BY <1>0, <1>2 DEF Tfind, TreeLock!Unlock, Goto, TypeOK, LockInv
  <1>3. CASE TreeWrlock(t)
    BY <1>0, <1>3 DEF TreeWrlock, TreeLock!WrLock, Goto, TypeOK, LockInv
  <1>4. CASE Tsearch(t)
    BY <1>0, <1>4 DEF Tsearch, TreeLock!Unlock, Goto, TypeOK, LockInv
  <1>5. CASE /\ UNCHANGED treeLockVars
             /\ pc'[t] \notin {"tfind", "tsearch"} /\ pc[t] \notin {"tfind", "tsearch"}
    <2>1. \A u \in Threads \ {t} : pc'[u] = pc[u]
      BY PcType
    <2> QED BY <1>5, <2>1 DEF treeLockVars, TypeOK, LockInv
  <1>6. CASE Call(t) \/ Configure(t) \/ Enter(t) \/ CheckCounter(t) \/ ReadHit(t) \/ Resolve(t)
    BY <1>0, <1>5, <1>6
    DEF Call, Configure, Enter, CheckCounter, ReadHit, Resolve, Goto, lockVars, treeLockVars
  <1>7. CASE TryLocale(t) \/ Stamp(t) \/ UpdateField(t) \/ Leave(t) \/ Log(t)
    BY <1>0, <1>5, <1>7
    DEF TryLocale, Stamp, UpdateField, Leave, Log, Return, Goto, lockVars, treeLockVars
  <1>8. CASE WriteEnter(t) \/ Textdomain(t) \/ SetBindingValues(t) \/ Bump(t)
    BY <1>0, <1>5, <1>8
    DEF WriteEnter, Textdomain, SetDefaultDomain, SetBindingValues, Bump, Done, Modified,
        Return, Goto, treeLockVars
  <1> QED
    BY <1>1, <1>2, <1>3, <1>4, <1>6, <1>7, <1>8 DEF Step, Lookup, Settings

LEMMA TypeStep ==
  ASSUME CallInv, NEW t \in Threads, Step(t)
  PROVE  TypeOK'
  <1>1. LookupInv(t) /\ UpdateInv(t) /\ TypeOK /\ LockInv
    BY DEF CallInv
  <1> QED
    BY <1>1, ArgsType, LocalsType, TreeType, SettingsType, PcType, StateLockStep, TreeLockStep
    DEF TypeOK

LEMMA LockStep ==
  ASSUME CallInv, NEW t \in Threads, Step(t)
  PROVE  LockInv'
  BY StateLockStep, TreeLockStep DEF CallInv, LockInv

-----------------------------------------------------------------------------
(* What a step leaves alone.                                               *)

LEMMA ArgsKept ==
  ASSUME TypeOK, NEW t \in Threads, Step(t), NEW u \in Threads, u # t
  PROVE  args'[u] = args[u]
  <1>1. CASE Call(t)
    BY <1>1 DEF Call, TypeOK
  <1>2. CASE Configure(t)
    BY <1>2 DEF Configure, TypeOK
  <1>3. CASE Return(t)
    BY <1>3 DEF Return, TypeOK
  <1>4. Call(t) \/ Configure(t) \/ Return(t) \/ UNCHANGED args
    BY DEF Step, Lookup, Settings, Enter, TreeRdlock, Tfind, CheckCounter, ReadHit, Resolve,
           TryLocale, Stamp, TreeWrlock, Tsearch, UpdateField, Leave, Log, WriteEnter,
           Textdomain, SetDefaultDomain, SetBindingValues, Bump, Done, Modified, localVars
  <1> QED BY <1>1, <1>2, <1>3, <1>4

LEMMA NamesKept ==
  ASSUME TypeOK, NEW t \in Threads, Step(t), NEW u \in Threads, u # t
  PROVE  domainname'[u] = domainname[u] /\ foundp'[u] = foundp[u]
  <1>1. CASE Return(t)
    BY <1>1 DEF Return, TypeOK
  <1>2. CASE Enter(t)
    BY <1>2 DEF Enter, TypeOK
  <1>3. CASE Tfind(t)
    BY <1>3 DEF Tfind, TypeOK
  <1>4. Enter(t) \/ Tfind(t) \/ Return(t) \/ UNCHANGED <<domainname, foundp>>
    BY DEF Step, Lookup, Settings, Call, Configure, TreeRdlock, CheckCounter, ReadHit, Resolve,
           TryLocale, Stamp, TreeWrlock, Tsearch, UpdateField, Leave, Log, WriteEnter,
           Textdomain, SetDefaultDomain, SetBindingValues, Bump, Done, Modified, localVars
  <1> QED BY <1>1, <1>2, <1>3, <1>4

LEMMA WorkKept ==
  ASSUME TypeOK, NEW t \in Threads, Step(t), NEW u \in Threads, u # t
  PROVE  search'[u] = search[u] /\ update'[u] = update[u] /\ result'[u] = result[u]
  <1>1. CASE Return(t)
    BY <1>1 DEF Return, TypeOK
  <1>2. CASE Resolve(t)
    BY <1>2 DEF Resolve, TypeOK
  <1>3. CASE TryLocale(t)
    BY <1>3 DEF TryLocale, TypeOK
  <1>4. CASE Stamp(t)
    BY <1>4 DEF Stamp, TypeOK
  <1>5. CASE UpdateField(t)
    BY <1>5 DEF UpdateField, TypeOK
  <1>6. CASE ReadHit(t)
    BY <1>6 DEF ReadHit, TypeOK
  <1>7. \/ Resolve(t) \/ TryLocale(t) \/ Stamp(t) \/ UpdateField(t) \/ ReadHit(t) \/ Return(t)
        \/ UNCHANGED <<search, update, result>>
    BY DEF Step, Lookup, Settings, Call, Configure, Enter, TreeRdlock, Tfind, CheckCounter,
           TreeWrlock, Tsearch, Leave, Log, WriteEnter,
           Textdomain, SetDefaultDomain, SetBindingValues, Bump, Done, Modified, localVars
  <1> QED BY <1>1, <1>2, <1>3, <1>4, <1>5, <1>6, <1>7

LEMMA OthersKept ==
  ASSUME TypeOK, NEW t \in Threads, Step(t), NEW u \in Threads, u # t
  PROVE  /\ pc'[u] = pc[u]
         /\ args'[u] = args[u] /\ domainname'[u] = domainname[u] /\ foundp'[u] = foundp[u]
         /\ search'[u] = search[u] /\ update'[u] = update[u] /\ result'[u] = result[u]
  BY PcType, ArgsKept, NamesKept, WorkKept

\* Which step leads where.
LEMMA Moves ==
  ASSUME TypeOK, NEW t \in Threads, Step(t)
  PROVE  \/ Call(t) /\ pc[t] = "idle" /\ pc'[t] = "enter"
         \/ Enter(t) /\ pc[t] = "enter" /\ pc'[t] = "lookup"
         \/ TreeRdlock(t) /\ pc[t] = "lookup" /\ pc'[t] = "tfind"
         \/ Tfind(t) /\ pc[t] = "tfind" /\ pc'[t] = "check"
         \/ CheckCounter(t) /\ pc[t] = "check" /\ pc'[t] \in {"hit", "resolve"}
         \/ ReadHit(t) /\ pc[t] = "hit" /\ pc'[t] = "leave"
         \/ Resolve(t) /\ pc[t] = "resolve" /\ pc'[t] \in {"search", "leave"}
         \/ TryLocale(t) /\ pc[t] = "search" /\ pc'[t] \in {"search", "found", "leave"}
         \/ Stamp(t) /\ pc[t] = "found" /\ pc'[t] \in {"update", "insert", "leave"}
         \/ TreeWrlock(t) /\ pc[t] = "insert" /\ pc'[t] = "tsearch"
         \/ Tsearch(t) /\ pc[t] = "tsearch" /\ pc'[t] = "leave"
         \/ UpdateField(t) /\ pc[t] = "update" /\ pc'[t] \in {"update", "leave"}
         \/ Leave(t) /\ pc[t] = "leave" /\ pc'[t] \in {"idle", "log"}
         \/ Log(t) /\ pc[t] = "log" /\ pc'[t] = "idle"
         \/ Configure(t) /\ pc[t] = "idle" /\ pc'[t] \in {"wantTextdomain", "wantBinding"}
         \/ WriteEnter(t) /\ pc[t] = "wantTextdomain" /\ pc'[t] = "textdomain"
         \/ WriteEnter(t) /\ pc[t] = "wantBinding" /\ pc'[t] = "binding"
         \/ Textdomain(t) /\ pc[t] = "textdomain" /\ pc'[t] \in {"bump", "idle"}
         \/ SetBindingValues(t) /\ pc[t] = "binding" /\ pc'[t] \in {"bump", "idle"}
         \/ Bump(t) /\ pc[t] = "bump" /\ pc'[t] = "idle"
  <1>0. \A l : Goto(t, l) => pc'[t] = l
    BY DEF TypeOK, Goto
  <1>1. Call(t) => pc[t] = "idle" /\ pc'[t] = "enter"
    BY <1>0 DEF Call
  <1>2. Enter(t) => pc[t] = "enter" /\ pc'[t] = "lookup"
    BY <1>0 DEF Enter
  <1>3. TreeRdlock(t) => pc[t] = "lookup" /\ pc'[t] = "tfind"
    BY <1>0 DEF TreeRdlock
  <1>4. Tfind(t) => pc[t] = "tfind" /\ pc'[t] = "check"
    BY <1>0 DEF Tfind
  <1>5. CheckCounter(t) => pc[t] = "check" /\ pc'[t] \in {"hit", "resolve"}
    BY <1>0 DEF CheckCounter
  <1>6. ReadHit(t) => pc[t] = "hit" /\ pc'[t] = "leave"
    BY <1>0 DEF ReadHit
  <1>7. Resolve(t) => pc[t] = "resolve" /\ pc'[t] \in {"search", "leave"}
    BY <1>0 DEF Resolve
  <1>8. TryLocale(t) => pc[t] = "search" /\ pc'[t] \in {"search", "found", "leave"}
    BY <1>0 DEF TryLocale
  <1>9. Stamp(t) => pc[t] = "found" /\ pc'[t] \in {"update", "insert", "leave"}
    BY <1>0 DEF Stamp
  <1>10. TreeWrlock(t) => pc[t] = "insert" /\ pc'[t] = "tsearch"
    BY <1>0 DEF TreeWrlock
  <1>11. Tsearch(t) => pc[t] = "tsearch" /\ pc'[t] = "leave"
    BY <1>0 DEF Tsearch
  <1>12. UpdateField(t) => pc[t] = "update" /\ pc'[t] \in {"update", "leave"}
    BY <1>0 DEF UpdateField
  <1>13. Leave(t) => pc[t] = "leave" /\ pc'[t] \in {"idle", "log"}
    BY <1>0 DEF Leave, Return
  <1>14. Log(t) => pc[t] = "log" /\ pc'[t] = "idle"
    BY <1>0 DEF Log, Return
  <1>15. Configure(t) => pc[t] = "idle" /\ pc'[t] \in {"wantTextdomain", "wantBinding"}
    BY <1>0 DEF Configure
  <1>16. WriteEnter(t) => 
            \/ pc[t] = "wantTextdomain" /\ pc'[t] = "textdomain"
            \/ pc[t] = "wantBinding" /\ pc'[t] = "binding"
    BY <1>0 DEF WriteEnter
  <1>17. Textdomain(t) => pc[t] = "textdomain" /\ pc'[t] \in {"bump", "idle"}
    BY <1>0 DEF Textdomain, SetDefaultDomain, Modified, Done, Return
  <1>18. SetBindingValues(t) => pc[t] = "binding" /\ pc'[t] \in {"bump", "idle"}
    BY <1>0 DEF SetBindingValues, Modified, Done, Return
  <1>19. Bump(t) => pc[t] = "bump" /\ pc'[t] = "idle"
    BY <1>0 DEF Bump, Done, Return
  <1> QED
    BY <1>1, <1>2, <1>3, <1>4, <1>5, <1>6, <1>7, <1>8, <1>9, <1>10, <1>11, <1>12, <1>13, <1>14, <1>15, <1>16, <1>17, <1>18, <1>19
    DEF Step, Lookup, Settings

\* Nor does it change its domain name while it reads, once it has taken it.
LEMMA OwnNameKept ==
  ASSUME TypeOK, NEW t \in Threads, Step(t), ~Enter(t), pc'[t] \in Reading
  PROVE  domainname'[t] = domainname[t]
  <1>1. ~Return(t)
    BY DEF Return, Goto, TypeOK, Reading
  <1> QED
    BY <1>1
    DEF Step, Lookup, Settings, Call, Configure, TreeRdlock, Tfind, CheckCounter, ReadHit,
        Resolve, TryLocale, Stamp, TreeWrlock, Tsearch, UpdateField, Leave, Log, WriteEnter,
        Textdomain, SetDefaultDomain, SetBindingValues, Bump, Done, Modified, localVars

LEMMA SettingsKept ==
  ASSUME NEW t \in Threads, Step(t)
  PROVE  /\ UNCHANGED <<language, globalLocale>>
         /\ pc[t] \notin Writing => UNCHANGED <<cntr, defaultDomain, freed, bindings>>
  BY DEF Step, Lookup, Settings, Call, Configure, Enter, TreeRdlock, Tfind, CheckCounter,
         ReadHit, Resolve, TryLocale, Stamp, TreeWrlock, Tsearch, UpdateField, Leave, Log,
         WriteEnter, Textdomain, SetBindingValues, Bump, settingVars, envVars, Writing

\* While a thread is about to change something nobody reads.
LEMMA WriterAlone ==
  ASSUME TypeOK, LockInv, NEW t \in Threads, pc[t] \in Writing
  PROVE  /\ stateWriter = t
         /\ \A u \in Threads : pc[u] \notin Reading
         /\ \A u \in Threads : u # t => pc[u] \notin Writing
  BY NullAssumption DEF TypeOK, LockInv

-----------------------------------------------------------------------------
(* The default domain.                                                     *)

LEMMA DomainStep ==
  ASSUME CallInv, NEW t \in Threads, Step(t)
  PROVE  DomainInv'
  <1> DEFINE InUse == freed \cup {defaultDomain.alloc}
             Fresh(a) == a = cntr + 1 /\ stateWriter # Null /\ pc[stateWriter] = "bump"
  <1>0. /\ TypeOK /\ LockInv /\ DomainInv
        /\ cntr \in Nat /\ defaultDomain.alloc \in Nat /\ freed \subseteq Nat \ {0}
    BY DEF CallInv, TypeOK, Pointers
  <1>1. CASE Textdomain(t)
    <2>1. stateWriter = t /\ pc[t] = "textdomain"
      BY <1>0, <1>1, WriterAlone DEF Textdomain, Writing
    <2>2. \A a \in InUse : a <= cntr
      BY <1>0, <2>1 DEF DomainInv
    <2>3. ASSUME NEW p, SetDefaultDomain(t, p),
                 p = StaticDomain \/ p = defaultDomain \/ p.alloc = cntr + 1
          PROVE  DomainInv'
      <3>1. stateWriter' # Null /\ pc'[stateWriter'] = "bump" /\ cntr' = cntr
        BY <1>0, <1>1, <2>1, <2>3, NullAssumption
        DEF SetDefaultDomain, Modified, Goto, stateLockVars, Textdomain, TypeOK
      <3>2. p.alloc \notin freed' /\ p.alloc \in 0..(cntr + 1)
        BY <1>0, <2>2, <2>3 DEF SetDefaultDomain, StaticDomain, DomainInv
      <3>3. \A a \in freed' : a <= cntr
        BY <1>0, <2>2, <2>3 DEF SetDefaultDomain
      <3> QED BY <1>0, <2>3, <3>1, <3>2, <3>3 DEF DomainInv, SetDefaultDomain
    <2>4. CASE Done(t) /\ UNCHANGED domainVars
      BY <1>0, <1>1, <2>2, <2>4 DEF DomainInv, domainVars, Textdomain
    <2> QED BY <1>1, <2>3, <2>4 DEF Textdomain
  <1>2. CASE Bump(t)
    <2>1. cntr' = cntr + 1 /\ UNCHANGED domainVars
      BY <1>2 DEF Bump
    <2> QED BY <1>0, <2>1 DEF DomainInv, domainVars
  <1>3. CASE SetBindingValues(t)
    <2>1. stateWriter = t /\ pc[t] = "binding" /\ UNCHANGED <<cntr, domainVars>>
      BY <1>0, <1>3, WriterAlone DEF SetBindingValues, Writing
    <2> QED BY <1>0, <2>1 DEF DomainInv, domainVars
  <1>4. CASE pc[t] \notin Writing
    <2>1. UNCHANGED <<cntr, defaultDomain, freed>>
      BY <1>4, SettingsKept
    <2>2. ASSUME NEW w \in Threads, stateWriter = w, pc[w] = "bump"
          PROVE  stateWriter' = w /\ pc'[w] = "bump"
      <3>1. w # t
        BY <1>4, <2>2 DEF Writing
      <3>2. pc'[w] = "bump"
        BY <1>0, <2>2, <3>1, OthersKept
      <3> QED BY <1>0, <3>2, StateLockStep DEF Writing
    <2> QED BY <1>0, <2>1, <2>2 DEF DomainInv, TypeOK
  <1>5. pc[t] \in Writing => Textdomain(t) \/ Bump(t) \/ SetBindingValues(t)
    BY DEF Step, Lookup, Settings, Call, Configure, Enter, TreeRdlock, Tfind, CheckCounter,
           ReadHit, Resolve, TryLocale, Stamp, TreeWrlock, Tsearch, UpdateField, Leave, Log,
           WriteEnter, Writing
  <1> QED
    BY <1>1, <1>2, <1>3, <1>4, <1>5

LEMMA DomainNameStep ==
  ASSUME CallInv, NEW t \in Threads, Step(t)
  PROVE  DomainNameValid'
  <1>0. TypeOK /\ LockInv /\ DomainInv /\ DomainNameValid /\ freed \subseteq Nat \ {0}
    BY DEF CallInv, TypeOK
  <1>1. CASE pc[t] \in Writing
    <2>1. \A u \in Threads : pc'[u] \notin Reading
      <3>1. \A u \in Threads : pc[u] \notin Reading
        BY <1>0, <1>1, WriterAlone
      <3>2. pc'[t] \notin Reading
        BY <1>0, <1>1, Moves DEF Writing, Reading
      <3> QED BY <1>0, <3>1, <3>2, OthersKept
    <2> QED BY <2>1 DEF DomainNameValid
  <1>2. CASE pc[t] \notin Writing
    <2>1. freed' = freed
      BY <1>2, SettingsKept
    <2>2. \A u \in Threads : u # t => pc'[u] = pc[u] /\ domainname'[u] = domainname[u]
      BY <1>0, OthersKept
    <2>3. ASSUME pc'[t] \in Reading PROVE domainname'[t].alloc \notin freed
      <3>1. CASE Enter(t)
        BY <1>0, <3>1 DEF Enter, DomainInv, TypeOK
      <3>2. CASE pc[t] \in Reading /\ domainname'[t] = domainname[t]
        BY <1>0, <3>2 DEF DomainNameValid
      <3>3. Enter(t) \/ pc[t] \in Reading
        BY <1>0, <2>3, Moves DEF Reading
      <3>4. CASE ~Enter(t)
        <4>1. domainname'[t] = domainname[t]
          BY <1>0, <2>3, <3>4, OwnNameKept
        <4> QED BY <3>2, <3>3, <3>4, <4>1
      <3> QED BY <3>1, <3>4
    <2> QED BY <1>0, <2>1, <2>2, <2>3 DEF DomainNameValid
  <1> QED
    BY <1>1, <1>2

-----------------------------------------------------------------------------
(* What a search finds.                                                    *)

\* The catalogs for the i-th locale name in the list for this key.
ListFor(k)   == CategoryValue(k.localename)
PlaceIn(k, i) == CatalogsFor(bindings[k.domainname].dirname, ListFor(k)[i], k.domainname)

LEMMA InForceIs ==
  ASSUME NEW k, NEW r
  PROVE  r \in InForce(k) <=>
           \E i \in DOMAIN ListFor(k) :
             /\ \A j \in 1..i : ListFor(k)[j] # CLocale
             /\ \A j \in 1..(i - 1) : MayMissAll(PlaceIn(k, j), k.msgid)
             /\ \E catalog \in Answering(PlaceIn(k, i), k.msgid) :
                  r = FindMsg(catalog, bindings[k.domainname].codeset)
  BY DEF InForce, ListFor, PlaceIn

LEMMA InForceType ==
  ASSUME TypeOK, NEW k \in Keys
  PROVE  InForce(k) \subseteq Results
  <1>1. /\ k.localename \in Locales /\ k.domainname \in Domains
        /\ bindings[k.domainname].dirname \in Dirs
        /\ bindings[k.domainname].codeset \in Codesets \cup {Null}
    BY DEF Keys, TypeOK, Bindings
  <1>2. ListFor(k) \in Seq(Locales)
    BY <1>1, CategoryValueType DEF ListFor
  <1>3. \A i \in DOMAIN ListFor(k) : Answering(PlaceIn(k, i), k.msgid) \subseteq Catalogs
    BY <1>1, <1>2, AnsweringType DEF PlaceIn
  <1> QED BY <1>1, <1>3, InForceIs, FindMsgType

\* It depends on the settings only.
LEMMA InForceKept ==
  ASSUME UNCHANGED <<bindings, language, globalLocale>>, NEW k
  PROVE  InForce(k)' = InForce(k)
  BY DEF InForce, CategoryValue

LEMMA TranslationKept ==
  ASSUME UNCHANGED <<bindings, language, globalLocale>>, NEW u \in Threads,
         Key(u)' = Key(u), result'[u] = result[u], IsTranslation(Key(u), result[u])
  PROVE  IsTranslation(Key(u), result[u])'
  <1>1. InForce(Key(u))' = InForce(Key(u))
    BY DEF InForce, CategoryValue
  <1> QED BY <1>1 DEF IsTranslation

LEMMA EntryKept ==
  ASSUME UNCHANGED <<bindings, language, globalLocale>>, NEW k, tree'[k] = tree[k],
         EntryRight(k)
  PROVE  EntryRight(k)'
  BY InForceKept DEF EntryRight, EntrySays

-----------------------------------------------------------------------------
(* How the tree changes.                                                   *)

LEMMA Inserted ==
  ASSUME CallInv, NEW t \in Threads, Tsearch(t), tree' # tree
  PROVE  /\ Key(t) \in Keys /\ tree[Key(t)] = Null /\ tree'[Key(t)] # Null
         /\ tree'[Key(t)].counter = cntr
         /\ tree'[Key(t)].domain = result[t].domain
         /\ tree'[Key(t)].translation = result[t].translation
         /\ \A k \in Keys \ {Key(t)} : tree'[k] = tree[k]
  <1> DEFINE new == [counter |-> update[t].stamp, domain |-> result[t].domain,
                     translation |-> result[t].translation]
  <1>1. TypeOK /\ LookupInv(t) /\ pc[t] = "tsearch"
    BY DEF CallInv, Tsearch
  <1>2. /\ Key(t) \in Keys /\ result[t] \in Results /\ update[t].stamp \in Nat
        /\ update[t].stamp = cntr
    BY <1>1, KeyType DEF Reading, LookupInv, TypeOK, Updates
  <1>3. new \in Entries
    BY <1>2, EntryType DEF Results
  <1>4. tree[Key(t)] = Null /\ tree' = [tree EXCEPT ![Key(t)] = new]
    BY DEF Tsearch
  <1>5. tree'[Key(t)] = new /\ \A k \in Keys \ {Key(t)} : tree'[k] = tree[k]
    BY <1>1, <1>2, <1>4 DEF TypeOK
  <1> QED BY <1>2, <1>3, <1>4, <1>5, NullAssumption

LEMMA Updated ==
  ASSUME CallInv, NEW t \in Threads, UpdateField(t)
  PROVE  /\ Key(t) \in Keys /\ foundp[t] = Key(t)
         /\ tree[Key(t)] # Null /\ tree'[Key(t)] # Null
         /\ \A k \in Keys \ {Key(t)} : tree'[k] = tree[k]
         /\ \E f \in update[t].todo :
              /\ update'[t].todo = update[t].todo \ {f}
              /\ IF update[t].todo = {f} THEN pc'[t] = "leave" ELSE pc'[t] = "update"
              /\ tree'[Key(t)].counter =
                   IF f = "counter" THEN cntr ELSE tree[Key(t)].counter
              /\ tree'[Key(t)].domain =
                   IF f = "domain" THEN result[t].domain ELSE tree[Key(t)].domain
              /\ tree'[Key(t)].translation =
                   IF f = "translation" THEN result[t].translation
                   ELSE tree[Key(t)].translation
  <1>1. TypeOK /\ LookupInv(t) /\ UpdateInv(t) /\ pc[t] = "update"
    BY DEF CallInv, UpdateField
  <1>2. /\ Key(t) \in Keys /\ foundp[t] = Key(t) /\ tree[Key(t)] \in Entries
        /\ tree[Key(t)] # Null
    BY <1>1, KeyType DEF Reading, LookupInv, UpdateInv, FoundInv, TypeOK
  <1>3. result[t] \in Results /\ update[t].stamp = cntr /\ cntr \in Nat
    BY <1>1 DEF LookupInv, TypeOK
  <1> DEFINE new(f) ==
        CASE f = "counter"     -> [tree[Key(t)] EXCEPT !.counter = cntr]
          [] f = "domain"      -> [tree[Key(t)] EXCEPT !.domain = result[t].domain]
          [] f = "translation" -> [tree[Key(t)] EXCEPT !.translation = result[t].translation]
  <1>4. PICK f \in update[t].todo :
          /\ tree' = [tree EXCEPT ![Key(t)] = new(f)]
          /\ update' = [update EXCEPT ![t].todo = @ \ {f}]
          /\ IF update[t].todo = {f} THEN Goto(t, "leave") ELSE UNCHANGED pc
    BY <1>2, <1>3 DEF UpdateField
  <1>5. f \in Fields
    BY <1>1 DEF TypeOK, Updates
  <1>6. /\ tree'[Key(t)] = new(f)
        /\ \A k \in Keys \ {Key(t)} : tree'[k] = tree[k]
    BY <1>1, <1>2, <1>4 DEF TypeOK
  <1>7. /\ new(f) \in Entries
        /\ new(f).counter = IF f = "counter" THEN cntr ELSE tree[Key(t)].counter
        /\ new(f).domain = IF f = "domain" THEN result[t].domain ELSE tree[Key(t)].domain
        /\ new(f).translation = IF f = "translation" THEN result[t].translation
                                ELSE tree[Key(t)].translation
    <2>1. CASE f = "counter"
      BY <1>2, <1>3, <2>1 DEF Entries, Results
    <2>2. CASE f = "domain"
      BY <1>2, <1>3, <2>2 DEF Entries, Results
    <2>3. CASE f = "translation"
      BY <1>2, <1>3, <2>3 DEF Entries, Results
    <2> QED BY <1>5, <2>1, <2>2, <2>3 DEF Fields
  <1>8. /\ update'[t].todo = update[t].todo \ {f}
        /\ IF update[t].todo = {f} THEN pc'[t] = "leave" ELSE pc'[t] = "update"
    BY <1>1, <1>4 DEF TypeOK, Updates, Goto
  <1> QED BY <1>2, <1>6, <1>7, <1>8, NullAssumption

LEMMA TreeKept ==
  ASSUME NEW t \in Threads, Step(t)
  PROVE  UNCHANGED tree \/ Tsearch(t) \/ UpdateField(t)
  BY DEF Step, Lookup, Settings, Call, Configure, Enter, TreeRdlock, Tfind, CheckCounter,
         ReadHit, Resolve, TryLocale, Stamp, TreeWrlock, Leave, Log, WriteEnter, Textdomain,
         SetBindingValues, Bump

(* An entry is never removed.                                              *)
LEMMA TreeGrows ==
  ASSUME CallInv, NEW t \in Threads, Step(t), NEW k \in Keys, tree[k] # Null
  PROVE  tree'[k] # Null
  BY Inserted, Updated, TreeKept

-----------------------------------------------------------------------------
(* What a lookup knows.                                                    *)

\* Another thread's step does not disturb it: the settings stay while it
\* reads, and the tree only grows.
LEMMA LookupOther ==
  ASSUME CallInv, NEW t \in Threads, Step(t), NEW u \in Threads, u # t
  PROVE  LookupInv(u)'
  <1>0. TypeOK /\ LockInv /\ LookupInv(u)
    BY DEF CallInv
  <1>1. /\ pc'[u] = pc[u] /\ args'[u] = args[u] /\ domainname'[u] = domainname[u]
        /\ foundp'[u] = foundp[u] /\ search'[u] = search[u] /\ update'[u] = update[u]
        /\ result'[u] = result[u] /\ Key(u)' = Key(u)
    BY <1>0, OthersKept DEF Key
  <1>2. pc[u] \in Reading =>
          /\ UNCHANGED <<cntr, bindings, language, globalLocale>>
          /\ tree[Key(u)] # Null => tree'[Key(u)] # Null
    BY <1>0, SettingsKept, WriterAlone, KeyType, TreeGrows
  <1>3. pc'[u] \in Reading => foundp'[u] = Null \/ FoundInv(u)'
    BY <1>0, <1>1, <1>2 DEF LookupInv, FoundInv
  <1>4. pc'[u] = "search" => SearchInv(u)'
    BY <1>0, <1>1, <1>2 DEF LookupInv, SearchInv, CategoryValue, Reading
  <1>5. pc'[u] \in {"found", "insert", "tsearch", "update"} =>
          result'[u] # Null /\ IsTranslation(Key(u), result[u])'
    BY <1>0, <1>1, <1>2, TranslationKept DEF LookupInv, Reading
  <1>6. pc'[u] \in {"insert", "tsearch", "update"} => update'[u].stamp = cntr'
    BY <1>0, <1>1, <1>2 DEF LookupInv, Reading
  <1> QED BY <1>0, <1>1, <1>3, <1>4, <1>5, <1>6 DEF LookupInv

\* The search goes on, or it has found a message of a catalog it could reach.
LEMMA SearchStep ==
  ASSUME CallInv, NEW t \in Threads, TryLocale(t)
  PROVE  /\ pc'[t] = "search" => SearchInv(t)'
         /\ pc'[t] = "found" => result'[t] # Null /\ IsTranslation(Key(t), result[t])'
  <1> DEFINE s == search[t]
             locale == IF s.pos \in DOMAIN s.list THEN s.list[s.pos] ELSE CLocale
             catalogs(l) == CatalogsFor(s.dirname, l, domainname[t].name)
             missed(l) == MayMissAll(catalogs(l), args[t].msgid)
             codeset == bindings[domainname[t].name].codeset
             Found(catalog) == /\ locale # CLocale /\ pc'[t] = "found"
                               /\ catalog \in Answering(catalogs(locale), args[t].msgid)
                               /\ result'[t] = FindMsg(catalog, codeset)
             GoneOn == /\ locale # CLocale /\ missed(locale)
                       /\ search' = [search EXCEPT ![t].pos = @ + 1] /\ pc' = pc
  <1>0. TypeOK /\ LookupInv(t) /\ pc[t] = "search" /\ SearchInv(t)
    BY DEF CallInv, LookupInv, TryLocale
  <1>1. /\ UNCHANGED <<bindings, language, globalLocale, args, domainname>>
        /\ s.list \in Seq(Locales) /\ s.pos \in Nat /\ search \in [Threads -> Searches]
    BY <1>0 DEF TryLocale, settingVars, envVars, TypeOK, Searches
  <1>2. ASSUME NEW catalog, Found(catalog)
        PROVE  result'[t] # Null /\ IsTranslation(Key(t), result[t])'
    <2> DEFINE k == Key(t)
    <2>1. s.pos \in DOMAIN s.list /\ locale = s.list[s.pos]
      BY <1>2
    <2>2. \A j \in 1..(s.pos - 1) : s.list[j] # CLocale /\ missed(s.list[j])
      BY <1>0, <1>1, <2>1 DEF SearchInv
    <2>3. \A j \in 1..s.pos : s.list[j] # CLocale
      BY <1>1, <1>2, <2>1, <2>2
    <2>4. /\ k.msgid = args[t].msgid /\ ListFor(k) = s.list
          /\ codeset = bindings[k.domainname].codeset
          /\ \A j : PlaceIn(k, j) = catalogs(s.list[j])
      BY <1>0 DEF SearchInv, Key, ListFor, PlaceIn
    <2>5. result'[t] \in InForce(k)
      <3>1. \A j \in 1..s.pos : ListFor(k)[j] # CLocale
        BY <2>3, <2>4
      <3>2. \A j \in 1..(s.pos - 1) : MayMissAll(PlaceIn(k, j), k.msgid)
        BY <2>2, <2>4
      <3>3. catalog \in Answering(PlaceIn(k, s.pos), k.msgid)
        BY <1>2, <2>1, <2>4
      <3>4. result'[t] = FindMsg(catalog, bindings[k.domainname].codeset)
        BY <1>2, <2>4
      <3>5. s.pos \in DOMAIN ListFor(k)
        BY <2>1, <2>4
      <3> HIDE DEF k
      <3> QED BY <3>1, <3>2, <3>3, <3>4, <3>5, InForceIs
    <2>6. InForce(Key(t))' = InForce(Key(t))
      BY <1>1 DEF InForce, CategoryValue, Key
    <2>7. /\ s.dirname \in Dirs /\ locale \in Locales /\ domainname[t].name \in Domains
          /\ codeset \in Codesets \cup {Null}
      BY <1>0, <1>1, <2>1 DEF TypeOK, Searches, Pointers, Bindings
    <2>8. result'[t] # Null
      BY <1>2, <2>7, AnsweringType, FindMsgType, NullAssumption
    <2> QED BY <2>5, <2>6, <2>8 DEF IsTranslation
  <1>3. CASE GoneOn
    <2>1. search'[t] = [s EXCEPT !.pos = s.pos + 1]
      BY <1>1, <1>3
    <2>2. /\ search'[t].list = s.list /\ search'[t].dirname = s.dirname
          /\ search'[t].pos = s.pos + 1
      BY <1>1, <2>1 DEF Searches
    <2>3. \A j \in DOMAIN s.list : j < s.pos + 1 =>
            s.list[j] # CLocale /\ missed(s.list[j])
      BY <1>0, <1>1, <1>3 DEF SearchInv
    <2>4. SearchInv(t)'
      BY <1>0, <1>1, <2>2, <2>3 DEF SearchInv, CategoryValue
    <2> QED BY <1>0, <1>3, <2>4
  <1>4. CASE pc'[t] = "leave"
    BY <1>4
  <1>5. GoneOn \/ pc'[t] = "leave" \/ \E catalog : Found(catalog)
    BY <1>0, <1>1 DEF TryLocale, NextLocale, Goto, TypeOK
  <1> QED BY <1>2, <1>3, <1>4, <1>5

\* A thread's own step, for the facts that need no more than the step itself.
LEMMA LookupOwnArgs ==
  ASSUME CallInv, NEW t \in Threads, Step(t)
  PROVE  /\ pc'[t] \in Reading \cup {"enter"} => args'[t].msgid \in Msgids
         /\ pc'[t] \in {"wantTextdomain", "wantBinding", "textdomain", "binding"} =>
              args'[t].domainname \in Domains
  <1>0. TypeOK /\ LookupInv(t)
    BY DEF CallInv
  <1>1. CASE Call(t)
    <2>1. PICK d \in Domains \cup {Null}, m \in Msgids, l \in Locales :
            args' = [args EXCEPT ![t].domainname = d, ![t].msgid = m, ![t].localename = l]
      BY <1>1 DEF Call
    <2>2. args'[t].msgid = m
      BY <1>0, <2>1 DEF TypeOK, Args
    <2>3. pc'[t] = "enter"
      BY <1>0, <1>1 DEF Call, Goto, TypeOK
    <2> QED BY <2>2, <2>3
  <1>2. CASE Configure(t)
    <2>1. PICK d \in Domains :
            \/ args' = [args EXCEPT ![t].domainname = d]
            \/ \E dir \in Dirs : args' = [args EXCEPT ![t].domainname = d, ![t].dirname = dir]
            \/ \E c \in Codesets : args' = [args EXCEPT ![t].domainname = d, ![t].codeset = c]
      BY <1>2 DEF Configure
    <2>2. args'[t].domainname = d
      BY <1>0, <2>1 DEF TypeOK, Args
    <2>3. pc'[t] \in {"wantTextdomain", "wantBinding"}
      BY <1>0, <1>2 DEF Configure, Goto, TypeOK
    <2> QED BY <2>2, <2>3 DEF Reading
  <1>3. CASE Return(t)
    BY <1>0, <1>3 DEF Return, Goto, TypeOK, Reading
  <1>4. CASE UNCHANGED args /\ ~Call(t) /\ ~Configure(t) /\ ~Return(t)
    BY <1>0, <1>4, Moves DEF LookupInv, Reading
  <1>5. Call(t) \/ Configure(t) \/ Return(t) \/ UNCHANGED args
    BY DEF Step, Lookup, Settings, Enter, TreeRdlock, Tfind, CheckCounter, ReadHit, Resolve,
           TryLocale, Stamp, TreeWrlock, Tsearch, UpdateField, Leave, Log, WriteEnter,
           Textdomain, SetDefaultDomain, SetBindingValues, Bump, Done, Modified, localVars
  <1> QED BY <1>1, <1>2, <1>3, <1>4, <1>5

\* While it reads on, a thread keeps its arguments, and its node after tfind.
LEMMA OwnKept ==
  ASSUME CallInv, NEW t \in Threads, Step(t), pc'[t] \in Reading, pc[t] \in Reading
  PROVE  /\ args'[t] = args[t] /\ domainname'[t] = domainname[t] /\ Key(t)' = Key(t)
         /\ ~Tfind(t) => foundp'[t] = foundp[t]
         /\ UNCHANGED <<cntr, bindings, language, globalLocale>>
  <1>0. TypeOK
    BY DEF CallInv
  <1>1. ~Return(t) /\ ~Enter(t) /\ ~Call(t) /\ ~Configure(t)
    BY <1>0 DEF Return, Enter, Call, Configure, Goto, TypeOK, Reading
  <1>2. UNCHANGED args /\ domainname'[t] = domainname[t]
    BY <1>0, <1>1, OwnNameKept
    DEF Step, Lookup, Settings, TreeRdlock, Tfind, CheckCounter, ReadHit, Resolve,
        TryLocale, Stamp, TreeWrlock, Tsearch, UpdateField, Leave, Log, WriteEnter,
        Textdomain, SetDefaultDomain, SetBindingValues, Bump, Done, Modified, localVars
  <1>3. ~Tfind(t) => UNCHANGED foundp
    BY <1>1
    DEF Step, Lookup, Settings, TreeRdlock, CheckCounter, ReadHit, Resolve,
        TryLocale, Stamp, TreeWrlock, Tsearch, UpdateField, Leave, Log, WriteEnter,
        Textdomain, SetDefaultDomain, SetBindingValues, Bump, Done, Modified, localVars
  <1>4. UNCHANGED <<cntr, bindings, language, globalLocale>>
    BY SettingsKept DEF Reading, Writing
  <1> QED BY <1>2, <1>3, <1>4 DEF Key

\* The node that a thread has found.
LEMMA FoundStep ==
  ASSUME CallInv, NEW t \in Threads, Step(t)
  PROVE  /\ pc'[t] \in {"idle", "enter", "lookup"} => foundp'[t] = Null
         /\ pc'[t] \in Reading => foundp'[t] = Null \/ FoundInv(t)'
         /\ pc'[t] = "hit" => foundp'[t] # Null
  <1>0. TypeOK /\ LookupInv(t)
    BY DEF CallInv
  <1>1. CASE pc'[t] \in {"idle", "enter", "lookup"}
    <2>1. Return(t) \/ UNCHANGED foundp
      BY <1>0, <1>1, Moves
      DEF Call, Enter, Leave, Log, Textdomain, SetDefaultDomain, SetBindingValues, Bump,
          Done, Modified, localVars
    <2>2. CASE Return(t)
      BY <1>0, <2>2 DEF Return, Goto, TypeOK, Reading
    <2>3. CASE UNCHANGED foundp /\ pc[t] \in {"idle", "enter"}
      BY <1>0, <1>1, <2>3 DEF LookupInv
    <2>4. Return(t) \/ pc[t] \in {"idle", "enter"}
      BY <1>0, <1>1, Moves
      DEF Leave, Log, Textdomain, SetDefaultDomain, SetBindingValues, Bump, Done, Modified,
          Goto, TypeOK
    <2> QED BY <2>1, <2>2, <2>3, <2>4
  <1>2. CASE pc'[t] \in Reading \ {"lookup"}
    <2>1. pc[t] \in Reading
      BY <1>0, <1>2, Moves DEF Reading
    <2>2. Key(t) \in Keys
      BY <1>0, <2>1, KeyType
    <2>3. CASE Tfind(t)
      <3>1. /\ foundp'[t] = IF tree[Key(t)] = Null THEN Null ELSE Key(t)
            /\ UNCHANGED tree /\ pc'[t] = "check"
        BY <1>0, <2>3 DEF Tfind, TypeOK, Goto
      <3> QED BY <1>2, <2>1, <2>2, <3>1, OwnKept DEF FoundInv
    <2>4. CASE ~Tfind(t)
      <3>1. foundp'[t] = Null \/ FoundInv(t)'
        BY <1>0, <1>2, <2>1, <2>2, <2>4, OwnKept, TreeGrows DEF LookupInv, FoundInv
      <3>2. pc'[t] = "hit" => foundp[t] # Null
        BY <1>0, <2>4, Moves DEF CheckCounter, Current, Goto, TypeOK
      <3> QED BY <1>2, <2>1, <2>4, <3>1, <3>2, OwnKept DEF Reading
    <2> QED BY <2>3, <2>4
  <1> QED BY <1>1, <1>2 DEF Reading

LEMMA LookupOwn ==
  ASSUME CallInv, NEW t \in Threads, Step(t)
  PROVE  LookupInv(t)'
  <1>0. TypeOK /\ LookupInv(t)
    BY DEF CallInv
  <1>1. CASE pc'[t] = "search" \/ pc'[t] = "found"
    <2>1. \/ Resolve(t) /\ pc'[t] = "search"
          \/ TryLocale(t)
      BY <1>0, <1>1, Moves
    <2>2. ASSUME Resolve(t), pc'[t] = "search" PROVE SearchInv(t)'
      <3>1. /\ search'[t] = [list |-> CategoryValue(args[t].localename), pos |-> 1,
                             dirname |-> bindings[domainname[t].name].dirname]
            /\ UNCHANGED <<args, domainname, bindings, language, globalLocale>>
        BY <1>0, <2>2 DEF Resolve, Goto, TypeOK, settingVars, envVars
      <3>2. CategoryValue(args[t].localename) \in Seq(Locales)
        BY <1>0, CategoryValueType DEF TypeOK, Args
      <3>3. \A j \in DOMAIN CategoryValue(args[t].localename) : ~(j < 1)
        BY <3>2
      <3>4. CategoryValue(args[t].localename)' = CategoryValue(args[t].localename)
        BY <3>1 DEF CategoryValue
      <3>5. /\ search'[t].list = CategoryValue(args[t].localename)
            /\ search'[t].dirname = bindings[domainname[t].name].dirname
            /\ search'[t].pos = 1
        BY <3>1
      <3> QED BY <3>1, <3>3, <3>4, <3>5 DEF SearchInv
    <2>4. pc'[t] = "search" => SearchInv(t)'
      BY <2>1, <2>2, SearchStep
    <2>5. pc'[t] = "found" => result'[t] # Null /\ IsTranslation(Key(t), result[t])'
      BY <2>1, SearchStep
    <2> QED BY <1>1, <2>4, <2>5, LookupOwnArgs, FoundStep DEF LookupInv
  <1>2. CASE pc'[t] \in {"insert", "tsearch", "update"}
    <2>1. \/ Stamp(t) /\ pc[t] = "found"
          \/ TreeWrlock(t) /\ pc[t] = "insert"
          \/ UpdateField(t) /\ pc[t] = "update"
      BY <1>0, <1>2, Moves
    <2>2. /\ UNCHANGED result /\ Key(t)' = Key(t)
          /\ UNCHANGED <<cntr, bindings, language, globalLocale>>
      BY <1>2, <2>1, OwnKept DEF Reading, Stamp, TreeWrlock, UpdateField, localVars
    <2>3. result'[t] # Null /\ IsTranslation(Key(t), result[t])'
      BY <1>0, <2>1, <2>2, TranslationKept DEF LookupInv
    <2>4. update'[t].stamp = cntr
      <3>1. CASE Stamp(t)
        BY <1>0, <3>1 DEF Stamp, TypeOK
      <3>2. CASE TreeWrlock(t) /\ pc[t] = "insert"
        BY <1>0, <3>2 DEF TreeWrlock, localVars, LookupInv
      <3>3. CASE UpdateField(t) /\ pc[t] = "update"
        <4>1. PICK f : update' = [update EXCEPT ![t].todo = @ \ {f}]
          BY <3>3 DEF UpdateField
        <4> QED BY <1>0, <3>3, <4>1 DEF LookupInv, TypeOK, Updates
      <3> QED BY <2>1, <3>1, <3>2, <3>3
    <2> QED BY <1>2, <2>2, <2>3, <2>4, LookupOwnArgs, FoundStep DEF LookupInv
  <1>3. CASE pc'[t] \notin {"search", "found", "insert", "tsearch", "update"}
    BY <1>3, LookupOwnArgs, FoundStep DEF LookupInv
  <1> QED BY <1>1, <1>2, <1>3

LEMMA LookupStep ==
  ASSUME CallInv, NEW t \in Threads, Step(t)
  PROVE  \A u \in Threads : LookupInv(u)'
  BY LookupOther, LookupOwn

-----------------------------------------------------------------------------
(* What an update in place has stored.                                     *)

\* A thread that stores has found a translation in force.
LEMMA StoresInForce ==
  ASSUME CallInv, NEW t \in Threads, pc[t] \in {"tsearch", "update"}
  PROVE  result[t] \in InForce(Key(t))
  BY DEF CallInv, LookupInv, IsTranslation

LEMMA UpdateOther ==
  ASSUME CallInv, NEW t \in Threads, Step(t), NEW u \in Threads, u # t
  PROVE  UpdateInv(u)'
  <1> SUFFICES ASSUME pc'[u] = "update" PROVE UpdateInv(u)'
    BY DEF UpdateInv
  <1>0. TypeOK /\ LockInv /\ LookupInv(u) /\ UpdateInv(u)
    BY DEF CallInv
  <1>1. /\ pc[u] = "update" /\ foundp'[u] = foundp[u] /\ update'[u] = update[u]
        /\ Key(u)' = Key(u)
    BY <1>0, OthersKept DEF Key
  <1>2. Key(u) \in Keys /\ tree[Key(u)] # Null
    BY <1>0, <1>1, KeyType DEF LookupInv, UpdateInv, FoundInv, Reading
  <1>3. InForce(Key(u))' = InForce(Key(u))
    <2>1. UNCHANGED <<bindings, language, globalLocale>>
      BY <1>0, <1>1, SettingsKept, WriterAlone DEF Reading
    <2> QED BY <1>1, <2>1 DEF InForce, CategoryValue
  <1>4. CASE tree'[Key(u)] = tree[Key(u)]
    BY <1>0, <1>1, <1>3, <1>4 DEF UpdateInv
  <1>5. CASE UpdateField(t) /\ Key(t) = Key(u)
    <2>1. result[t] \in InForce(Key(u))
      BY <1>5, StoresInForce DEF UpdateField
    <2>2. /\ tree'[Key(u)].domain \in {result[t].domain, tree[Key(u)].domain}
          /\ tree'[Key(u)].translation \in {result[t].translation, tree[Key(u)].translation}
      BY <1>5, Updated
    <2> QED BY <1>0, <1>1, <1>3, <2>1, <2>2 DEF UpdateInv
  <1> QED BY <1>2, <1>4, <1>5, TreeKept, Inserted, Updated

LEMMA UpdateOwn ==
  ASSUME CallInv, NEW t \in Threads, Step(t)
  PROVE  UpdateInv(t)'
  <1> SUFFICES ASSUME pc'[t] = "update" PROVE UpdateInv(t)'
    BY DEF UpdateInv
  <1>0. TypeOK /\ LookupInv(t) /\ UpdateInv(t)
    BY DEF CallInv
  <1>1. Stamp(t) \/ (UpdateField(t) /\ pc[t] = "update")
    BY <1>0, Moves
  <1>2. CASE Stamp(t)
    <2>1. foundp[t] # Null /\ UNCHANGED foundp
      BY <1>0, <1>2 DEF Stamp, Goto, TypeOK
    <2>2. update'[t].todo = Fields
      BY <1>0, <1>2, <2>1 DEF Stamp, TypeOK
    <2> QED BY <2>1, <2>2 DEF UpdateInv, Fields
  <1>3. CASE UpdateField(t) /\ pc[t] = "update"
    <2>1. foundp'[t] = foundp[t] /\ Key(t)' = Key(t)
      BY <1>3, OwnKept DEF Reading, UpdateField, Tfind
    <2>2. PICK f \in update[t].todo :
            /\ update'[t].todo = update[t].todo \ {f}
            /\ update[t].todo # {f}
            /\ tree'[Key(t)].domain =
                 IF f = "domain" THEN result[t].domain ELSE tree[Key(t)].domain
            /\ tree'[Key(t)].translation =
                 IF f = "translation" THEN result[t].translation
                 ELSE tree[Key(t)].translation
      BY <1>3, Updated
    <2>3. update'[t].todo # {}
      BY <2>2
    <2>4. InForce(Key(t))' = InForce(Key(t))
      <3>1. UNCHANGED <<bindings, language, globalLocale>>
        BY <1>3, SettingsKept DEF Writing
      <3> QED BY <2>1, <3>1 DEF InForce, CategoryValue
    <2>5. result[t] \in InForce(Key(t))
      BY <1>3, StoresInForce
    <2> QED BY <1>0, <1>3, <2>1, <2>2, <2>3, <2>4, <2>5 DEF UpdateInv
  <1> QED BY <1>1, <1>2, <1>3

LEMMA UpdateStep ==
  ASSUME CallInv, NEW t \in Threads, Step(t)
  PROVE  \A u \in Threads : UpdateInv(u)'
  BY UpdateOther, UpdateOwn

-----------------------------------------------------------------------------
(* The cache.                                                              *)

\* Another thread's update of an entry goes on.
LEMMA UpdatingKept ==
  ASSUME CallInv, NEW t \in Threads, Step(t), NEW k \in Keys, BeingUpdated(k),
         ~(UpdateField(t) /\ Key(t) = k)
  PROVE  BeingUpdated(k)'
  <1>0. TypeOK
    BY DEF CallInv
  <1>1. PICK u \in Threads : pc[u] = "update" /\ foundp[u] = k /\ update[u].todo # {"counter"}
    BY DEF BeingUpdated
  <1>2. u # t
    <2>1. SUFFICES ASSUME u = t PROVE FALSE
      OBVIOUS
    <2>2. UpdateField(t)
      BY <1>0, <1>1, <2>1, Moves
    <2> QED BY <1>1, <2>1, <2>2, Updated
  <1>3. /\ pc'[u] = "update" /\ foundp'[u] = k /\ update'[u].todo # {"counter"}
    BY <1>0, <1>1, <1>2, OthersKept
  <1> QED BY <1>3 DEF BeingUpdated

\* While the settings stay, an entry that stays remains right.
LEMMA EntryStays ==
  ASSUME IInv, NEW t \in Threads, Step(t), UNCHANGED <<cntr, bindings>>, pc[t] # "bump",
         NEW k \in Keys, tree'[k] = tree[k], tree[k] # Null,
         tree[k].counter = cntr, \A u \in Threads : pc'[u] # "bump",
         ~(UpdateField(t) /\ Key(t) = k)
  PROVE  (EntryRight(k) \/ BeingUpdated(k))'
  <1>0. TypeOK /\ CallInv /\ CacheInv
    BY DEF IInv, CallInv
  <1>1. \A u \in Threads : pc[u] # "bump"
    BY <1>0, OthersKept
  <1>2. EntryRight(k) \/ BeingUpdated(k)
    BY <1>0, <1>1 DEF CacheInv
  <1>3. UNCHANGED <<bindings, language, globalLocale>>
    BY SettingsKept
  <1> QED BY <1>0, <1>2, <1>3, EntryKept, UpdatingKept

\* An entry is right if both its fields stem from translations in force.
LEMMA EntryMixed ==
  ASSUME NEW k, NEW a \in InForce(k)', NEW b \in InForce(k)',
         tree'[k].domain = a.domain, tree'[k].translation = b.translation
  PROVE  EntryRight(k)'
  BY DEF EntryRight, EntrySays, Mix

LEMMA CacheStep ==
  ASSUME IInv, NEW t \in Threads, Step(t)
  PROVE  CacheInv'
  <1> DEFINE
      Entry(k) == /\ tree'[k].counter <= cntr'
                  /\ tree'[k].counter = cntr' /\ (\A u \in Threads : pc'[u] # "bump") =>
                       (EntryRight(k) \/ BeingUpdated(k))'
  <1> SUFFICES ASSUME NEW k \in Keys, tree'[k] # Null PROVE Entry(k)
    BY DEF CacheInv
  <1>0. CallInv /\ TypeOK /\ LockInv /\ CacheInv /\ cntr \in Nat
    BY DEF IInv, CallInv, TypeOK
  <1>1. CASE Bump(t)
    <2>1. cntr' = cntr + 1 /\ UNCHANGED tree
      BY <1>1 DEF Bump
    <2>2. tree[k].counter <= cntr /\ tree[k].counter \in Nat
      BY <1>0, <2>1 DEF CacheInv, TypeOK, Entries
    <2>3. tree'[k].counter <= cntr' /\ tree'[k].counter # cntr'
      BY <1>0, <2>1, <2>2
    <2> QED BY <2>3
  <1>2. CASE Textdomain(t) \/ SetBindingValues(t)
    <2>1. UNCHANGED <<cntr, tree>> /\ ~UpdateField(t) /\ pc[t] # "bump"
      BY <1>2 DEF Textdomain, SetBindingValues, UpdateField
    <2>2. UNCHANGED bindings \/ pc'[t] = "bump"
      BY <1>0, <1>2 DEF Textdomain, SetBindingValues, Modified, Goto, TypeOK
    <2>3. tree'[k].counter <= cntr'
      BY <1>0, <2>1 DEF CacheInv
    <2> QED BY <2>1, <2>2, <2>3, EntryStays
  <1>3. CASE pc[t] \notin Writing /\ tree'[k] = tree[k] /\ ~(UpdateField(t) /\ Key(t) = k)
    <2>1. UNCHANGED <<cntr, bindings>> /\ pc[t] # "bump"
      BY <1>3, SettingsKept DEF Writing
    <2>2. tree'[k].counter <= cntr'
      BY <1>0, <1>3, <2>1 DEF CacheInv
    <2> QED BY <1>3, <2>1, <2>2, EntryStays
  <1>4. CASE Tsearch(t) /\ tree' # tree /\ Key(t) = k
    <2>1. pc[t] = "tsearch" /\ UNCHANGED <<cntr, bindings, language, globalLocale>>
      BY <1>4 DEF Tsearch, settingVars, envVars
    <2>2. result[t] \in InForce(k)'
      BY <1>0, <1>4, <2>1, StoresInForce, InForceKept
    <2> QED BY <1>0, <1>4, <2>1, <2>2, Inserted, EntryMixed
  <1>5. CASE UpdateField(t) /\ Key(t) = k
    <2>0. LookupInv(t) /\ UpdateInv(t) /\ pc[t] = "update" /\ UNCHANGED <<cntr, foundp>>
      BY <1>0, <1>5 DEF CallInv, UpdateField, settingVars
    <2>1. PICK f \in update[t].todo :
            /\ update'[t].todo = update[t].todo \ {f}
            /\ IF update[t].todo = {f} THEN pc'[t] = "leave" ELSE pc'[t] = "update"
            /\ tree'[k].counter = IF f = "counter" THEN cntr ELSE tree[k].counter
            /\ tree'[k].domain = IF f = "domain" THEN result[t].domain ELSE tree[k].domain
            /\ tree'[k].translation =
                 IF f = "translation" THEN result[t].translation ELSE tree[k].translation
      BY <1>0, <1>5, Updated
    <2>2. foundp[t] = k /\ tree[k] # Null
      BY <1>0, <1>5, Updated
    <2>3. tree'[k].counter <= cntr'
      <3>1. tree[k].counter <= cntr
        BY <1>0, <2>2 DEF CacheInv
      <3> QED BY <1>0, <2>0, <2>1, <3>1
    <2>4. CASE {"domain", "translation"} \cap update'[t].todo # {}
      <3>1. pc'[t] = "update" /\ update'[t].todo # {"counter"}
        BY <2>1, <2>4
      <3>2. BeingUpdated(k)'
        BY <2>0, <2>2, <3>1 DEF BeingUpdated
      <3> QED BY <2>3, <3>2
    <2>5. CASE {"domain", "translation"} \cap update'[t].todo = {}
      <3>1. InForce(k)' = InForce(k) /\ result[t] \in InForce(k)
        BY <1>0, <1>5, <2>0, SettingsKept, InForceKept, StoresInForce DEF Writing
      <3>2. \E r \in InForce(k) : tree'[k].domain = r.domain
        BY <1>5, <2>0, <2>1, <2>5, <3>1 DEF UpdateInv
      <3>3. \E r \in InForce(k) : tree'[k].translation = r.translation
        BY <1>5, <2>0, <2>1, <2>5, <3>1 DEF UpdateInv
      <3>4. EntryRight(k)'
        BY <3>1, <3>2, <3>3, EntryMixed
      <3> QED BY <2>3, <3>4
    <2> QED BY <2>4, <2>5
  <1>6. pc[t] \in Writing => Bump(t) \/ Textdomain(t) \/ SetBindingValues(t)
    BY <1>0, Moves DEF Writing
  <1> QED
    BY <1>0, <1>1, <1>2, <1>3, <1>4, <1>5, <1>6, TreeKept, Inserted, Updated

-----------------------------------------------------------------------------
(* The theorems.                                                           *)

LEMMA InitIInv == Init => IInv
  <1> SUFFICES ASSUME Init PROVE IInv OBVIOUS
  <1>1. TypeOK
    BY InitTypeOK
  <1>2. \A t \in Threads : pc[t] = "idle" /\ foundp[t] = Null
    BY DEF Init
  <1>3. LockInv
    BY <1>2, NullAssumption DEF Init, LockInv, StateLock!Init, TreeLock!Init, Writing
  <1>4. DomainInv
    BY DEF Init, DomainInv, StaticDomain
  <1>5. DomainNameValid
    BY <1>2 DEF DomainNameValid, Reading
  <1>6. \A t \in Threads : LookupInv(t) /\ UpdateInv(t)
    BY <1>2 DEF LookupInv, UpdateInv, Reading
  <1>7. CacheInv
    BY DEF Init, CacheInv
  <1> QED BY <1>1, <1>3, <1>4, <1>5, <1>6, <1>7 DEF IInv, CallInv

(* What the calls know outlives every step, whatever the entries say.      *)
LEMMA CallStep ==
  ASSUME CallInv, NEW t \in Threads, Step(t)
  PROVE  CallInv'
  BY TypeStep, LockStep, DomainStep, DomainNameStep, LookupStep, UpdateStep DEF CallInv

LEMMA CallStutter ==
  ASSUME CallInv, UNCHANGED vars
  PROVE  CallInv'
  <1>1. TypeOK' /\ LockInv' /\ DomainInv' /\ DomainNameValid'
    BY DEF vars, CallInv, TypeOK, LockInv, DomainInv, DomainNameValid
  <1>2. ASSUME NEW t \in Threads PROVE LookupInv(t)'
    <2>1. LookupInv(t)
      BY DEF CallInv
    <2>2. ASSUME SearchInv(t) PROVE SearchInv(t)'
      BY <2>2 DEF vars, SearchInv, CategoryValue
    <2>3. ASSUME FoundInv(t) PROVE FoundInv(t)'
      BY <2>3 DEF vars, FoundInv, Key
    <2>4. ASSUME IsTranslation(Key(t), result[t]) PROVE IsTranslation(Key(t), result[t])'
      BY <2>4 DEF vars, Key, IsTranslation, InForce, CategoryValue
    <2> QED BY <2>1, <2>2, <2>3, <2>4 DEF vars, LookupInv
  <1>3. ASSUME NEW t \in Threads PROVE UpdateInv(t)'
    <2>1. UpdateInv(t)
      BY DEF CallInv
    <2>2. Key(t)' = Key(t)
      BY DEF vars, Key
    <2>3. InForce(Key(t))' = InForce(Key(t))
      BY <2>2 DEF vars, InForce, CategoryValue
    <2> QED BY <2>1, <2>2, <2>3 DEF vars, UpdateInv
  <1> QED BY <1>1, <1>2, <1>3 DEF CallInv

LEMMA NextIInv == IInv /\ [Next]_vars => IInv'
  <1> SUFFICES ASSUME IInv, [Next]_vars PROVE IInv' OBVIOUS
  <1>1. CASE Next
    <2>1. PICK t \in Threads : Step(t)
      BY <1>1 DEF Next, Step
    <2> QED BY <2>1, CallStep, CacheStep DEF IInv
  <1>2. CASE UNCHANGED vars
    <2>1. ASSUME NEW k \in Keys, BeingUpdated(k) PROVE BeingUpdated(k)'
      BY <1>2, <2>1 DEF vars, BeingUpdated
    <2>2. CacheInv'
      BY <1>2, <2>1, EntryKept DEF vars, IInv, CacheInv
    <2> QED BY <1>2, <2>2, CallStutter DEF IInv
  <1> QED BY <1>1, <1>2

LEMMA Invariance == Spec => []IInv
  BY InitIInv, NextIInv, PTL DEF Spec

(* Under any interleaving of lookups with textdomain, bindtextdomain and   *)
(* bind_textdomain_codeset, the variables of dcigettext.c keep their types *)
(* and the locks are held exactly where the program text says so.          *)
THEOREM TypeCorrect == Spec => []TypeOK
  <1>1. IInv => TypeOK
    BY DEF IInv, CallInv
  <1> QED BY <1>1, Invariance, PTL

(* tsearch never runs at the same time as another tsearch or tfind: the    *)
(* tree_lock around the calls in DCIGETTEXT suffices for any number of     *)
(* threads.                                                                *)
THEOREM TreeExcluded == Spec => []TreeExclusion
  <1>1. IInv => TreeExclusion
    BY NullAssumption DEF IInv, CallInv, TypeOK, LockInv, TreeExclusion
  <1> QED BY <1>1, Invariance, PTL

(* The catalog and the string of an entry with a current counter are what  *)
(* searches may find now, for any catalogs, failures, bindings, LANGUAGE   *)
(* and number of threads, although the entries are overwritten in place    *)
(* without a write lock (dcigettext.c:839).                                *)
THEOREM CacheIsCoherent == Spec => []CacheCoherent
  <1>1. IInv => CacheCoherent
    <2> SUFFICES ASSUME IInv PROVE CacheCoherent OBVIOUS
    <2>1. stateWriter = Null => \A t \in Threads : pc[t] # "bump"
      BY NullAssumption DEF IInv, CallInv, LockInv, Writing
    <2> QED BY <2>1 DEF IInv, CacheInv, CacheCoherent, EntryRight
  <1> QED BY <1>1, Invariance, PTL

(* While it holds _nl_state_lock a lookup never works with a domain name   *)
(* that textdomain has freed meanwhile.                                    *)
THEOREM DomainNamesValid == Spec => []DomainNameValid
  <1>1. IInv => DomainNameValid
    BY DEF IInv, CallInv
  <1> QED BY <1>1, Invariance, PTL
=============================================================================
