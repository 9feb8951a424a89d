----------------------- MODULE DcigettextCallerProofs -----------------------
(***************************************************************************)
(* What callers see of Dcigettext: the cache of known translations, its    *)
(* counter and the updates in place cannot be told from a service without  *)
(* them.                                                                   *)
(*                                                                         *)
(* First, for any threads that share one environment: Dcigettext           *)
(* implements GettextService, up to the weaknesses that GettextService     *)
(* names.  Then, for a program with one thread that mixes lookups with     *)
(* changes of LANGUAGE and of the locale: every answer is in force.        *)
(***************************************************************************)
EXTENDS DcigettextService, DcigettextEnv, DcigettextProofs

-----------------------------------------------------------------------------
(* Any number of threads: the invariant.                                   *)

\* A counter that was current when a reader looked at it still is.
HitInv ==
  \A t \in Threads : pc[t] = "hit" => tree[foundp[t]].counter = cntr

\* Nothing is answered before something is found.
Early == {"idle", "enter", "lookup", "tfind", "check", "hit", "resolve", "search"}
EarlyInv == \A t \in Threads : pc[t] \in Early => result[t] = Null

\* The fields of an entry stem from what settings in force once gave.
PastInv ==
  \A k \in Keys : tree[k] # Null =>
    /\ \E a \in Service!Earlier(k) : tree[k].domain = a.domain
    /\ \E b \in Service!Earlier(k) : tree[k].translation = b.translation

HInv ==
  /\ CallInv /\ CacheInv /\ HitInv /\ EarlyInv /\ PastInv
  /\ says = Says /\ says \in past

-----------------------------------------------------------------------------
(* What the settings say.                                                  *)

LEMMA SaysType ==
  ASSUME TypeOK PROVE Says \in [Keys -> SUBSET Results]
<1>1. \A k \in Keys : Says[k] \in SUBSET Results
  BY InForceType DEF Says
<1>2. Says = [k \in Keys |-> Says[k]]
  BY DEF Says
<1> QED BY <1>1, <1>2

LEMMA SaysTypeNext == (TypeOK => Says \in [Keys -> SUBSET Results])'
<1>1. TypeOK => Says \in [Keys -> SUBSET Results]
  BY SaysType
<1> QED BY <1>1, PTL

LEMMA SaysKept ==
  ASSUME UNCHANGED <<bindings, language, globalLocale>> PROVE Says' = Says
<1>1. \A k \in Keys : InForce(k)' = InForce(k)
  BY InForceKept
<1> QED BY <1>1 DEF Says

-----------------------------------------------------------------------------
(* The invariant is kept.                                                  *)

LEMMA HitStep ==
  ASSUME CallInv, HitInv, NEW t \in Threads, Step(t)
  PROVE  HitInv'
<1>0. TypeOK /\ LockInv
  BY DEF CallInv
<1> SUFFICES ASSUME NEW u \in Threads, pc'[u] = "hit"
             PROVE  tree'[foundp'[u]].counter = cntr'
  BY DEF HitInv
<1>1. CASE u = t
  <2>1. CheckCounter(t) /\ pc[t] = "check"
    BY <1>0, <1>1, Moves
  <2>2. Current(t) /\ UNCHANGED <<tree, foundp, cntr>>
    BY <1>0, <1>1, <2>1 DEF CheckCounter, Goto, TypeOK, localVars, settingVars
  <2> QED BY <1>1, <2>2 DEF Current
<1>2. CASE u # t
  <2>1. pc[u] = "hit" /\ foundp'[u] = foundp[u] /\ tree[foundp[u]].counter = cntr
    BY <1>0, <1>2, OthersKept DEF HitInv
  <2>2. foundp[u] \in Keys /\ tree[foundp[u]] # Null
    BY <2>1 DEF CallInv, LookupInv, FoundInv, TypeOK, Reading
  <2>3. cntr' = cntr
    BY <1>0, <2>1, WriterAlone, SettingsKept DEF Reading
  <2>4. CASE UNCHANGED tree
    BY <2>1, <2>3, <2>4
  <2>5. CASE Tsearch(t) /\ tree' # tree
    BY <2>1, <2>2, <2>3, <2>5, Inserted
  <2>6. CASE UpdateField(t)
    BY <2>1, <2>2, <2>3, <2>6, Updated
  <2> QED BY <2>4, <2>5, <2>6, TreeKept
<1> QED BY <1>1, <1>2

LEMMA EarlyStep ==
  ASSUME CallInv, EarlyInv, NEW t \in Threads, Step(t)
  PROVE  EarlyInv'
<1>0. TypeOK
  BY DEF CallInv
<1> SUFFICES ASSUME NEW u \in Threads, pc'[u] \in Early
             PROVE  result'[u] = Null
  BY DEF EarlyInv
<1>1. CASE u # t
  BY <1>0, <1>1, OthersKept DEF EarlyInv
<1>2. CASE u = t /\ Return(t)
  BY <1>0, <1>2 DEF Return, TypeOK
<1>3. CASE u = t /\ ~Return(t)
  <2>1. ~Leave(t) /\ ~Log(t) /\ ~Bump(t)
    BY <1>0, <1>3 DEF Leave, Log, Bump, Done, Goto, TypeOK, Early
  <2>2. ~Textdomain(t) /\ ~SetBindingValues(t)
    BY <1>0, <1>3 DEF Textdomain, SetDefaultDomain, SetBindingValues, Modified, Done, Goto,
                      TypeOK, Early
  <2>3. /\ pc[t] \in Early
        /\ \/ Call(t) \/ Enter(t) \/ TreeRdlock(t) \/ Tfind(t) \/ CheckCounter(t) \/ Resolve(t)
           \/ TryLocale(t) /\ pc'[t] = "search"
    BY <1>0, <1>3, <2>1, <2>2, Moves DEF Early
  <2>4. UNCHANGED result
    BY <1>0, <2>3 DEF Call, Enter, TreeRdlock, Tfind, CheckCounter, Resolve, TryLocale, Goto,
                      TypeOK, localVars
  <2> QED BY <1>3, <2>3, <2>4 DEF EarlyInv
<1> QED BY <1>1, <1>2, <1>3

(* What is being stored is in force, and so belongs to the past.           *)
LEMMA StoredIsPast ==
  ASSUME HInv, NEW t \in Threads, pc[t] \in {"tsearch", "update"}, past \subseteq past',
         NEW k \in Keys, k = Key(t)
  PROVE  result[t] \in Service!Earlier(k)'
<1>1. TypeOK /\ LookupInv(t)
  BY DEF HInv, CallInv
<1>2. result[t] \in InForce(k)
  BY <1>1 DEF LookupInv, IsTranslation
<1>3. says \in past' /\ result[t] \in says[k]
  BY <1>2 DEF HInv, Says
<1> QED BY <1>3 DEF Service!Earlier

LEMMA PastGrows ==
  ASSUME past \subseteq past', NEW k
  PROVE  Service!Earlier(k) \subseteq Service!Earlier(k)'
BY DEF Service!Earlier

LEMMA PastStep ==
  ASSUME HInv, NEW t \in Threads, Step(t), past \subseteq past'
  PROVE  PastInv'
<1> USE DEF HInv
<1> SUFFICES ASSUME NEW k \in Keys, tree'[k] # Null
             PROVE  /\ \E a \in Service!Earlier(k)' : tree'[k].domain = a.domain
                    /\ \E b \in Service!Earlier(k)' : tree'[k].translation = b.translation
  BY DEF PastInv
<1>1. Service!Earlier(k) \subseteq Service!Earlier(k)'
  BY PastGrows
<1>2. CASE tree'[k] = tree[k]
  BY <1>1, <1>2 DEF PastInv
<1>3. CASE pc[t] \in {"tsearch", "update"} /\ Key(t) = k
  <2>1. result[t] \in Service!Earlier(k)'
    BY <1>3, StoredIsPast
  <2>2. \/ tree'[k].domain = result[t].domain
        \/ tree[k] # Null /\ tree'[k].domain = tree[k].domain
    BY <1>2, <1>3, TreeKept, Inserted, Updated
  <2>3. \/ tree'[k].translation = result[t].translation
        \/ tree[k] # Null /\ tree'[k].translation = tree[k].translation
    BY <1>2, <1>3, TreeKept, Inserted, Updated
  <2> QED BY <1>1, <2>1, <2>2, <2>3 DEF PastInv
<1> QED BY <1>2, <1>3, TreeKept, Inserted, Updated DEF Tsearch, UpdateField

-----------------------------------------------------------------------------
(* The calls of the service.                                               *)

CallOf(t) == [status |-> Status(t),
              key    |-> CASE Status(t) = "idle"   -> Null
                           [] Status(t) = "called" ->
                                [msgid |-> args[t].msgid, domainname |-> args[t].domainname,
                                 localename |-> args[t].localename]
                           [] OTHER -> Key(t),
              answer |-> IF Status(t) = "answered" THEN result[t] ELSE Null]

Asked(t) == [msgid |-> args[t].msgid, domainname |-> args[t].domainname,
             localename |-> args[t].localename]

LEMMA CallsAre ==
  Calls = [t \in Threads |-> CallOf(t)]
BY DEF Calls, CallOf

Begun == {"lookup", "tfind", "check", "hit", "resolve", "search"}
Answered == {"found", "insert", "tsearch", "update", "leave"}

CallOK(t) ==
  /\ pc[t] = "enter" =>
       CallOf(t) = [status |-> "called", key |-> Asked(t), answer |-> Null]
  /\ pc[t] \in Begun =>
       CallOf(t) = [status |-> "begun", key |-> Key(t), answer |-> Null]
  /\ pc[t] \in Answered =>
       CallOf(t) = [status |-> "answered", key |-> Key(t), answer |-> result[t]]
  /\ pc[t] \notin Begun \cup Answered \cup {"enter"} =>
       CallOf(t) = [status |-> "idle", key |-> Null, answer |-> Null]

LEMMA CallIs == \A t \in Threads : CallOK(t)
<1> SUFFICES ASSUME NEW t \in Threads PROVE CallOK(t)
  OBVIOUS
<1> USE DEF CallOK
<1>1. CASE pc[t] = "enter"
  <2>1. Status(t) = "called"
    BY <1>1 DEF Status
  <2> QED BY <1>1, <2>1 DEF CallOf, Asked, Begun, Answered
<1>2. CASE pc[t] \in Begun
  <2>1. Status(t) = "begun"
    BY <1>2 DEF Status, Begun
  <2> QED BY <1>2, <2>1 DEF CallOf, Begun, Answered
<1>3. CASE pc[t] \in Answered
  <2>1. Status(t) = "answered"
    BY <1>3 DEF Status, Answered
  <2> QED BY <1>3, <2>1 DEF CallOf, Begun, Answered
<1>4. CASE pc[t] \notin Begun \cup Answered \cup {"enter"}
  <2>1. Status(t) = "idle"
    BY <1>4 DEF Status, Begun, Answered
  <2> QED BY <1>4, <2>1 DEF CallOf
<1> QED BY <1>1, <1>2, <1>3, <1>4

LEMMA CallIsNext == (\A t \in Threads : CallOK(t))'
BY CallIs, PTL

LEMMA CallsChange ==
  ASSUME TypeOK, NEW t \in Threads, Step(t)
  PROVE  /\ Calls' = [Calls EXCEPT ![t] = CallOf(t)']
         /\ CallOf(t)' = CallOf(t) => Calls' = Calls
<1>1. \A u \in Threads \ {t} : CallOf(u)' = CallOf(u)
  BY OthersKept DEF CallOf, Status, Key
<1>2. Calls' = [u \in Threads |-> CallOf(u)']
  BY DEF Calls, CallOf
<1>3. Calls = [u \in Threads |-> CallOf(u)]
  BY CallsAre
<1> QED BY <1>1, <1>2, <1>3

(* Another thread that has been seen to overwrite the entry is in a call   *)
(* for the same message.                                                   *)
LEMMA UpdaterContends ==
  ASSUME CallInv, NEW t \in Threads, pc[t] = "hit", BeingUpdated(Key(t))
  PROVE  Service!Contended(t)
<1>1. PICK u \in Threads : pc[u] = "update" /\ foundp[u] = Key(t)
  BY DEF BeingUpdated
<1>2. TypeOK /\ LookupInv(u) /\ UpdateInv(u)
  BY DEF CallInv
<1>3. u # t /\ Key(u) = Key(t)
  BY <1>1, <1>2 DEF LookupInv, UpdateInv, FoundInv, Reading
<1>4. CallOf(u) = [status |-> "answered", key |-> Key(u), answer |-> result[u]]
  BY <1>1, CallIs DEF CallOK, Answered
<1>5. CallOf(t) = [status |-> "begun", key |-> Key(t), answer |-> Null]
  BY CallIs DEF CallOK, Begun
<1>6. Calls[u].status = "answered" /\ Calls[u].key = Calls[t].key
  BY <1>3, <1>4, <1>5, CallsAre
<1> QED BY <1>3, <1>6 DEF Service!Contended, Service!InProgress

(* An answer that the service allows.                                      *)
LEMMA Answers ==
  ASSUME HInv, NEW t \in Threads, Step(t), pc[t] \in Begun, pc'[t] \in Answered,
         UNCHANGED <<defaultDomain, says, past>>,
         NEW a, a = result'[t],
         \/ a = Null
         \/ a \in Service!Mixed(says[Key(t)])
         \/ Service!Contended(t) /\ a \in Service!Mixed(Service!Earlier(Key(t)))
  PROVE  Service!Answer(t)
<1>1. TypeOK /\ Key(t)' = Key(t)
  BY OwnKept DEF HInv, CallInv, Begun, Answered, Reading
<1>2. CallOf(t) = [status |-> "begun", key |-> Key(t), answer |-> Null]
  BY CallIs DEF CallOK
<1>3. CallOf(t)' = [status |-> "answered", key |-> Key(t), answer |-> a]
  <2>1. CallOf(t)' = [status |-> "answered", key |-> Key(t)', answer |-> result'[t]]
    BY CallIsNext DEF CallOK
  <2> QED BY <1>1, <2>1
<1>4. Calls[t] = [status |-> "begun", key |-> Key(t), answer |-> Null]
  BY <1>2, CallsAre
<1>5. Calls' = [Calls EXCEPT ![t] = [status |-> "answered", key |-> Key(t), answer |-> a]]
  BY <1>1, <1>3, CallsChange
<1>6. Calls[t].status = "begun" /\ Calls[t].key = Key(t)
  BY <1>4
<1>7. Service!Mixed(says[Key(t)]) \subseteq Service!Mixed(Service!Earlier(Key(t)))
  <2>1. says[Key(t)] \subseteq Service!Earlier(Key(t))
    BY DEF HInv, Service!Earlier
  <2> QED BY <2>1 DEF Service!Mixed
<1>8. a \in {Null} \cup Service!Mixed(IF Service!Contended(t) THEN Service!Earlier(Key(t))
                                    ELSE says[Key(t)])
  BY <1>7
<1> QED BY <1>5, <1>6, <1>8 DEF Service!Answer

(* The answer is read from the cache.                                      *)
LEMMA HitAnswers ==
  ASSUME HInv, NEW t \in Threads, ReadHit(t), UNCHANGED <<says, past>>
  PROVE  Service!Answer(t)
<1> DEFINE k == Key(t)
           a == EntrySays(k)
<1>1. TypeOK /\ LockInv /\ LookupInv(t) /\ CacheInv /\ pc[t] = "hit"
  BY DEF HInv, CallInv, ReadHit
<1>2. foundp[t] = k /\ tree[k] # Null /\ k \in Keys
  BY <1>1, KeyType DEF LookupInv, FoundInv, Reading
<1>3. tree[k].counter = cntr
  BY <1>1, <1>2 DEF HInv, HitInv
<1>4. \A u \in Threads : pc[u] # "bump"
  BY <1>1, WriterAlone DEF Writing, Reading
<1>5. EntryRight(k) \/ BeingUpdated(k)
  BY <1>1, <1>2, <1>3, <1>4 DEF CacheInv
<1>6. result'[t] = a /\ pc'[t] = "leave" /\ defaultDomain' = defaultDomain
  BY <1>1, <1>2 DEF ReadHit, EntrySays, TypeOK, Goto, settingVars
<1>7. \/ a \in Service!Mixed(says[k])
      \/ Service!Contended(t) /\ a \in Service!Mixed(Service!Earlier(k))
  <2>1. CASE EntryRight(k)
    <3>1. PICK x \in InForce(k), y \in InForce(k) : a = Mix(x, y)
      BY <2>1 DEF EntryRight
    <3>2. says[k] = InForce(k)
      BY <1>2 DEF HInv, Says
    <3>3. a = Service!Mix(x, y)
      BY <3>1 DEF Mix, Service!Mix
    <3> HIDE DEF a, k
    <3> QED BY <3>2, <3>3 DEF Service!Mixed
  <2>2. CASE BeingUpdated(k)
    <3>1. Service!Contended(t)
      BY <1>1, <2>2, UpdaterContends DEF HInv
    <3>2. PICK x \in Service!Earlier(k), y \in Service!Earlier(k) :
            tree[k].domain = x.domain /\ tree[k].translation = y.translation
      BY <1>2 DEF HInv, PastInv
    <3>3. a = Service!Mix(x, y)
      BY <3>2 DEF EntrySays, Service!Mix
    <3> HIDE DEF a, k
    <3> QED BY <3>1, <3>3 DEF Service!Mixed
  <2> QED BY <1>5, <2>1, <2>2
<1>8. Step(t) /\ pc[t] \in Begun /\ pc'[t] \in Answered
  BY <1>1, <1>6 DEF Step, Lookup, Begun, Answered
<1> HIDE DEF a
<1>9. \/ a \in Service!Mixed(says[Key(t)])
      \/ Service!Contended(t) /\ a \in Service!Mixed(Service!Earlier(Key(t)))
  BY <1>7
<1> QED BY <1>6, <1>8, <1>9, Answers

(* The answer is found by the search, or there is none.                    *)
LEMMA SearchAnswers ==
  ASSUME HInv, NEW t \in Threads, Resolve(t) \/ TryLocale(t), pc'[t] \in {"found", "leave"},
         UNCHANGED <<defaultDomain, says, past>>, Says' = Says
  PROVE  Service!Answer(t)
<1>1. TypeOK /\ pc[t] \in {"resolve", "search"} /\ result[t] = Null
  BY DEF HInv, CallInv, EarlyInv, Early, Resolve, TryLocale
<1>2. Step(t) /\ pc[t] \in Begun /\ pc'[t] \in Answered
  BY <1>1 DEF Step, Lookup, Begun, Answered
<1>3. TypeOK' /\ LookupInv(t)'
  BY <1>2, TypeStep, LookupOwn DEF HInv
<1>4. Key(t)' = Key(t) /\ Key(t) \in Keys
  <2>1. LookupInv(t)
    BY DEF HInv, CallInv
  <2> QED BY <1>1, <1>2, <2>1, OwnKept, KeyType DEF HInv, Begun, Answered, Reading
<1>5. result'[t] \in {Null} \cup Service!Mixed(says[Key(t)])
  <2>1. CASE pc'[t] = "leave"
    <3>1. UNCHANGED result
      BY <1>1, <2>1 DEF Resolve, TryLocale, Goto, TypeOK
    <3> QED BY <1>1, <3>1
  <2>2. CASE pc'[t] = "found"
    <3>1. PICK k \in Keys : k = Key(t)
      BY <1>4
    <3>2. PICK r : r = result'[t]
      OBVIOUS
    <3>3. r \in InForce(k)'
      BY <1>3, <1>4, <2>2, <3>1, <3>2 DEF LookupInv, IsTranslation
    <3>4. UNCHANGED <<bindings, language, globalLocale>>
      BY DEF Resolve, TryLocale, settingVars, envVars
    <3>5. r \in says[k] /\ r \in Results
      BY <1>1, <3>3, <3>4, InForceKept, InForceType DEF HInv, Says
    <3>6. r = Service!Mix(r, r)
      BY <3>5 DEF Results, Service!Mix
    <3> QED BY <3>1, <3>2, <3>5, <3>6 DEF Service!Mixed
  <2> QED BY <2>1, <2>2
<1>6. PICK a : a = result'[t]
  OBVIOUS
<1> QED BY <1>2, <1>5, <1>6, Answers

(* A step of the settings.                                                 *)
LEMMA WriterChanges ==
  ASSUME HInv, NEW t \in Threads, Step(t), pc[t] \in Writing,
         says' = Says', past' = past \cup {says'}
  PROVE  Service!Change
<1>1. TypeOK /\ LockInv /\ TypeOK' /\ Says' \in [Keys -> SUBSET Results]
  <2>1. TypeOK /\ LockInv /\ TypeOK'
    BY TypeStep DEF HInv, CallInv
  <2> QED BY <2>1, SaysTypeNext
<1>2. \A u \in Threads : pc[u] \notin Reading
  BY <1>1, WriterAlone
<1>3. \A u \in Threads : ~Service!InProgress(u)
  <2> SUFFICES ASSUME NEW u \in Threads PROVE Calls[u].status \notin {"begun", "answered"}
    BY DEF Service!InProgress
  <2>1. pc[u] \notin Begun \cup Answered
    BY <1>2 DEF Begun, Answered, Reading
  <2>2. CallOf(u).status \notin {"begun", "answered"}
    BY <2>1, CallIs DEF CallOK
  <2> QED BY <2>2, CallsAre
<1>4. defaultDomain.name' \in Domains
  BY <1>1 DEF TypeOK, Pointers
<1>5. pc'[t] \notin Begun \cup Answered \cup {"enter"} /\ pc[t] \notin Begun \cup Answered \cup {"enter"}
  BY <1>1, Moves DEF Writing, Begun, Answered
<1>6. CallOf(t)' = CallOf(t)
  BY <1>5, CallIs, CallIsNext DEF CallOK
<1>7. Calls' = Calls
  BY <1>1, <1>6, CallsChange
<1> QED BY <1>1, <1>3, <1>4, <1>7 DEF Service!Change, Service!Keys, Keys

(* Any step of a thread.                                                   *)
LEMMA StepImplementsService ==
  ASSUME HInv, NEW t \in Threads, Step(t), says' = Says', past' = past \cup {says'}
  PROVE  \/ Service!Change \/ Service!Call(t) \/ Service!Begin(t) \/ Service!Answer(t)
         \/ Service!Return(t)
         \/ UNCHANGED <<defaultDomain.name, says, past, Calls>>
<1>0. TypeOK /\ LookupInv(t) /\ says = Says /\ says \in past
  BY DEF HInv, CallInv
<1>1. CASE pc[t] \in Writing
  BY <1>1, WriterChanges
<1>2. CASE pc[t] \notin Writing
  <2>1. UNCHANGED <<cntr, defaultDomain, freed, bindings, language, globalLocale>>
    BY <1>2, SettingsKept
  <2>2. Says' = Says /\ UNCHANGED <<defaultDomain, says, past>>
    BY <1>0, <2>1, SaysKept
  <2>3. /\ Calls' = [Calls EXCEPT ![t] = CallOf(t)']
        /\ CallOf(t)' = CallOf(t) => Calls' = Calls
        /\ Calls[t] = CallOf(t) /\ CallOK(t) /\ CallOK(t)'
    BY <1>0, CallsChange, CallsAre, CallIs, CallIsNext
  <2>4. CASE Call(t) /\ pc[t] = "idle" /\ pc'[t] = "enter"
    <3>1. CallOf(t).status = "idle" /\ Calls[t].status = "idle"
      BY <2>3, <2>4 DEF CallOK, Begun, Answered
    <3>2. CallOf(t)' = [status |-> "called", key |-> Asked(t)', answer |-> Null]
      BY <2>3, <2>4 DEF CallOK
    <3>3. Asked(t)' \in [msgid : Msgids, domainname : Domains \cup {Null}, localename : Locales]
      <4>1. PICK d \in Domains \cup {Null}, m \in Msgids, l \in Locales :
              args' = [args EXCEPT ![t].domainname = d, ![t].msgid = m, ![t].localename = l]
        BY <2>4 DEF Call
      <4>2. args'[t].msgid = m /\ args'[t].domainname = d /\ args'[t].localename = l
        BY <1>0, <4>1 DEF TypeOK, Args
      <4> QED BY <4>2 DEF Asked
    <3>4. PICK k : k = Asked(t)'
      OBVIOUS
    <3>5. Service!Call(t)
      BY <2>2, <2>3, <3>1, <3>2, <3>3, <3>4 DEF Service!Call
    <3> QED BY <3>5
  <2>5. CASE Enter(t) /\ pc[t] = "enter" /\ pc'[t] = "lookup"
    <3>1. /\ Calls[t] = [status |-> "called", key |-> Asked(t), answer |-> Null]
          /\ CallOf(t)' = [status |-> "begun", key |-> Key(t)', answer |-> Null]
      BY <2>3, <2>5 DEF CallOK, Begun
    <3>2. /\ args' = args
          /\ domainname'[t].name = IF args[t].domainname = Null THEN defaultDomain.name
                                   ELSE args[t].domainname
      BY <1>0, <2>5 DEF Enter, TypeOK
    <3>3. Key(t)' = [msgid |-> args[t].msgid,
                     domainname |-> IF args[t].domainname = Null THEN defaultDomain.name
                                    ELSE args[t].domainname,
                     localename |-> args[t].localename]
      BY <3>2 DEF Key
    <3>4. /\ Calls[t].status = "called" /\ Calls[t].key = Asked(t)
          /\ Asked(t).msgid = args[t].msgid /\ Asked(t).domainname = args[t].domainname
          /\ Asked(t).localename = args[t].localename
      BY <3>1 DEF Asked
    <3> QED BY <2>2, <2>3, <3>1, <3>3, <3>4 DEF Service!Begin
  <2>6. CASE pc[t] \in Begun /\ pc'[t] \in Begun
    <3>1. Key(t)' = Key(t)
      BY <2>6, OwnKept DEF HInv, Begun, Reading
    <3>2. CallOf(t)' = CallOf(t)
      BY <2>3, <2>6, <3>1 DEF CallOK
    <3> QED BY <2>2, <2>3, <3>2
  <2>7. CASE ReadHit(t)
    BY <2>2, <2>7, HitAnswers
  <2>8. CASE (Resolve(t) \/ TryLocale(t)) /\ pc'[t] \in {"found", "leave"}
    BY <2>2, <2>8, SearchAnswers
  <2>9. CASE /\ Stamp(t) \/ TreeWrlock(t) \/ Tsearch(t) \/ UpdateField(t)
             /\ pc[t] \in Answered /\ pc'[t] \in Answered
    <3>1. Key(t)' = Key(t) /\ result'[t] = result[t]
      BY <2>9, OwnKept DEF HInv, Answered, Reading, Stamp, TreeWrlock, Tsearch, UpdateField,
                           localVars
    <3>2. CallOf(t)' = CallOf(t)
      BY <2>3, <2>9, <3>1 DEF CallOK
    <3> QED BY <2>2, <2>3, <3>2
  <2>10. CASE Leave(t) /\ pc[t] = "leave" /\ pc'[t] \in {"idle", "log"}
    <3>1. Calls[t].status = "answered"
      BY <2>3, <2>10 DEF CallOK, Answered
    <3>2. CallOf(t)' = Service!NoCall
      BY <2>3, <2>10 DEF CallOK, Begun, Answered, Service!NoCall
    <3> QED BY <2>2, <2>3, <3>1, <3>2 DEF Service!Return
  <2>11. CASE /\ pc[t] \notin Begun \cup Answered \cup {"enter"}
              /\ pc'[t] \notin Begun \cup Answered \cup {"enter"}
    <3>1. CallOf(t)' = CallOf(t)
      BY <2>3, <2>11 DEF CallOK
    <3> QED BY <2>2, <2>3, <3>1
  <2>12. \/ Call(t) /\ pc[t] = "idle" /\ pc'[t] = "enter"
         \/ Enter(t) /\ pc[t] = "enter" /\ pc'[t] = "lookup"
         \/ pc[t] \in Begun /\ pc'[t] \in Begun
         \/ ReadHit(t)
         \/ (Resolve(t) \/ TryLocale(t)) /\ pc'[t] \in {"found", "leave"}
         \/ /\ Stamp(t) \/ TreeWrlock(t) \/ Tsearch(t) \/ UpdateField(t)
            /\ pc[t] \in Answered /\ pc'[t] \in Answered
         \/ Leave(t) /\ pc[t] = "leave" /\ pc'[t] \in {"idle", "log"}
         \/ /\ pc[t] \notin Begun \cup Answered \cup {"enter"}
            /\ pc'[t] \notin Begun \cup Answered \cup {"enter"}
    BY <1>0, <1>2, Moves DEF Begun, Answered, Writing
  <2> QED BY <2>4, <2>5, <2>6, <2>7, <2>8, <2>9, <2>10, <2>11, <2>12
<1> QED BY <1>1, <1>2

-----------------------------------------------------------------------------
(* The theorems.                                                           *)

LEMMA HInitially == HInit => HInv
<1> SUFFICES ASSUME HInit PROVE HInv
  OBVIOUS
<1>1. CallInv /\ CacheInv
  BY InitIInv DEF HInit, IInv
<1>2. HitInv /\ EarlyInv /\ PastInv
  BY DEF HInit, Init, HitInv, EarlyInv, PastInv
<1> QED BY <1>1, <1>2 DEF HInit, HInv

LEMMA HKept == HInv /\ [HNext]_<<vars, says, past>> => HInv'
<1> SUFFICES ASSUME HInv, [HNext]_<<vars, says, past>> PROVE HInv'
  OBVIOUS
<1>1. CASE HNext
  <2>1. PICK t \in Threads : Step(t)
    BY <1>1 DEF HNext, Next, Step
  <2>0. IInv'
    BY <1>1, NextIInv DEF HInv, IInv, HNext
  <2>2. CallInv' /\ CacheInv'
    BY <2>0 DEF IInv
  <2>3. past \subseteq past' /\ says' = Says' /\ says' \in past'
    BY <1>1 DEF HNext
  <2>4. HitInv' /\ EarlyInv' /\ PastInv'
    BY <2>1, <2>3, HitStep, EarlyStep, PastStep DEF HInv
  <2> QED BY <2>2, <2>3, <2>4 DEF HInv
<1>2. CASE UNCHANGED <<vars, says, past>>
  <2>0. IInv'
    BY <1>2, NextIInv DEF HInv, IInv
  <2>1. CallInv' /\ CacheInv'
    BY <2>0 DEF IInv
  <2>2. Says' = Says
    BY <1>2, SaysKept DEF vars
  <2>3. HitInv' /\ EarlyInv'
    BY <1>2 DEF HInv, HitInv, EarlyInv, vars
  <2>4. PastInv'
    BY <1>2 DEF HInv, PastInv, Service!Earlier, vars
  <2> QED BY <1>2, <2>1, <2>2, <2>3, <2>4 DEF HInv
<1> QED BY <1>1, <1>2

(* ImplementsService: whatever the threads, the catalogs, their failures   *)
(* and the settings, the lookups and the changes of the settings implement *)
(* GettextService: every call is answered, at one moment of the call, with *)
(* a translation that the settings in force give, or one put together from *)
(* two of them, or with none, and a caller can see that dcigettext.c       *)
(* caches and updates in place only while another call for the same        *)
(* message is in progress.                                                 *)
THEOREM ServiceImplemented == HSpec => ImplementsService
<1>1. HInit => Service!Init
  <2> SUFFICES ASSUME HInit PROVE Service!Init
    OBVIOUS
  <2>1. TypeOK
    BY InitTypeOK DEF HInit
  <2>2. says \in [Keys -> SUBSET Results] /\ past = {says}
    BY <2>1, SaysType DEF HInit
  <2>3. defaultDomain.name \in Domains
    BY <2>1 DEF TypeOK, Pointers
  <2>4. \A t \in Threads : CallOf(t) = Service!NoCall
    BY CallIs DEF HInit, Init, CallOK, Begun, Answered, Service!NoCall
  <2>5. Calls = [t \in Threads |-> Service!NoCall]
    BY <2>4, CallsAre
  <2> QED BY <2>2, <2>3, <2>5 DEF Service!Init, Service!Keys, Keys
<1>2. HInv /\ [HNext]_<<vars, says, past>> => [Service!Next]_<<defaultDomain.name, says, past, Calls>>
  <2> SUFFICES ASSUME HInv, [HNext]_<<vars, says, past>>
               PROVE  [Service!Next]_<<defaultDomain.name, says, past, Calls>>
    OBVIOUS
  <2>1. CASE HNext
    <3>1. PICK t \in Threads : Step(t)
      BY <2>1 DEF HNext, Next, Step
    <3>2. \/ Service!Change \/ Service!Call(t) \/ Service!Begin(t) \/ Service!Answer(t)
          \/ Service!Return(t)
          \/ UNCHANGED <<defaultDomain.name, says, past, Calls>>
      BY <2>1, <3>1, StepImplementsService DEF HNext
    <3> QED BY <3>2 DEF Service!Next
  <2>2. CASE UNCHANGED <<vars, says, past>>
    BY <2>2 DEF vars, Calls, Status, Key
  <2> QED BY <2>1, <2>2
<1> QED BY <1>1, <1>2, HInitially, HKept, PTL
        DEF HSpec, ImplementsService, Service!Spec, Service!vars

OneThread == \A t, u \in Threads : t = u

\* The locale that selects an entry is the one that selects the languages.
LocalesAgree == ThreadNames \/ ~Uselocale

-----------------------------------------------------------------------------
(* One thread: the invariant.  An entry must remain right also while        *)
(* another locale than its own is in force.                                 *)

\* The list of locale names to try, in the locale of the key.
OwnValue(locale) ==
  IF locale = CLocale \/ language = <<>> THEN <<locale>> ELSE language

\* InForce and IsTranslation, were the locale of the key the global one.
OwnInForce(key) ==
  LET value       == OwnValue(key.localename)
      binding     == bindings[key.domainname]
      catalogs(i) == CatalogsFor(binding.dirname, value[i], key.domainname)
      reached     == {i \in DOMAIN value :
                        /\ \A j \in 1..i : value[j] # CLocale
                        /\ \A j \in 1..(i - 1) : MayMissAll(catalogs(j), key.msgid)}
  IN  {FindMsg(c, binding.codeset) :
         c \in UNION {Answering(catalogs(i), key.msgid) : i \in reached}}

OwnTranslation(key, r) == r \in OwnInForce(key)

NoFuture == \A k \in Keys : tree[k] # Null => tree[k].counter <= cntr

\* The current entries are right in their own locale.
OwnCache ==
  \A k \in Keys :
    tree[k] # Null /\ tree[k].counter = cntr /\ (\A t \in Threads : pc[t] # "bump") =>
      OwnTranslation(k, EntrySays(k)) \/ BeingUpdated(k)

\* A lookup runs in the global locale; nothing it has read gets old.
OwnLookup(t) ==
  /\ pc[t] \in Reading \cup {"enter"} => Uselocale \/ args[t].localename = globalLocale
  /\ pc[t] = "hit" => tree[foundp[t]].counter = cntr
  /\ pc[t] \in {"idle", "enter", "lookup", "tfind", "check", "hit", "resolve", "search"} =>
       result[t] = Null
  /\ pc[t] = "leave" /\ result[t] # Null => IsTranslation(Key(t), result[t])
  /\ pc[t] = "update" =>
       /\ "domain" \notin update[t].todo => tree[Key(t)].domain = result[t].domain
       /\ "translation" \notin update[t].todo =>
            tree[Key(t)].translation = result[t].translation

\* Between setenv and the end of ++_nl_msg_cat_cntr nobody uses the library.
SwitchInv ==
  /\ Threads # {}
  /\ pc \in [Threads -> {"envLoad", "envStore"}]
  /\ stateReaders = {} /\ stateWriter = Null /\ treeReaders = {} /\ treeWriter = Null
  /\ cntr \in Nat
  /\ defaultDomain \in Pointers /\ freed \subseteq Nat \ {0}
  /\ DomainInv
  /\ bindings \in [Domains -> Bindings]
  /\ language \in Languages /\ globalLocale \in Locales
  /\ tree \in [Keys -> Entries \cup {Null}]
  /\ args \in [Threads -> Args] /\ domainname \in [Threads -> Pointers]
  /\ foundp \in [Threads -> Keys \cup {Null}] /\ search \in [Threads -> Searches]
  /\ update \in [Threads -> Updates] /\ result \in [Threads -> Results \cup {Null}]
  /\ \A t \in Threads : pc[t] = "envStore" => update[t].stamp = cntr

UseInv == CallInv /\ OwnCache /\ \A t \in Threads : OwnLookup(t)

EnvInv == NoFuture /\ (UseInv \/ SwitchInv)

-----------------------------------------------------------------------------
(* Translations.                                                           *)

\* Where its locale counts, an entry that is right is right in its own locale.
LEMMA OwnAgrees ==
  \A k \in Keys : ThreadNames \/ k.localename = globalLocale =>
    (OwnTranslation(k, EntrySays(k)) <=> IsTranslation(k, EntrySays(k)))
  <1> SUFFICES ASSUME NEW k \in Keys, ThreadNames \/ k.localename = globalLocale
               PROVE  OwnInForce(k) = InForce(k)
    BY DEF OwnTranslation, IsTranslation
  <1>1. OwnValue(k.localename) = CategoryValue(k.localename)
    BY DEF OwnValue, CategoryValue
  <1> QED BY <1>1 DEF OwnInForce, InForce

LEMMA OwnAgreesNext ==
  (\A k \in Keys : ThreadNames \/ k.localename = globalLocale =>
     (OwnTranslation(k, EntrySays(k)) <=> IsTranslation(k, EntrySays(k))))'
  BY OwnAgrees, PTL

\* What an entry says in its own locale depends on the bindings and on LANGUAGE.
LEMMA OwnEntryKept ==
  ASSUME UNCHANGED <<bindings, language>>, NEW k, tree'[k] = tree[k],
         OwnTranslation(k, EntrySays(k))
  PROVE  OwnTranslation(k, EntrySays(k))'
  BY DEF OwnTranslation, OwnInForce, OwnValue, EntrySays

\* The locale of a lookup is the one its languages are taken from.
LEMMA KeyLocale ==
  ASSUME LocalesAgree, NEW t \in Threads, OwnLookup(t), pc[t] \in Reading
  PROVE  ThreadNames \/ Key(t).localename = globalLocale
  BY DEF LocalesAgree, OwnLookup, Key

-----------------------------------------------------------------------------
(* Calls.                                                                  *)

LEMMA NoFutureStep ==
  ASSUME CallInv, NoFuture, NEW t \in Threads, Step(t)
  PROVE  NoFuture'
  <1> SUFFICES ASSUME NEW k \in Keys, tree'[k] # Null PROVE tree'[k].counter <= cntr'
    BY DEF NoFuture
  <1>0. TypeOK /\ cntr \in Nat
    BY DEF CallInv, TypeOK
  <1>1. cntr' \in {cntr, cntr + 1}
    <2>1. Bump(t) \/ UNCHANGED cntr
      BY DEF Step, Lookup, Settings, Call, Configure, Enter, TreeRdlock, Tfind, CheckCounter,
             ReadHit, Resolve, TryLocale, Stamp, TreeWrlock, Tsearch, UpdateField, Leave, Log,
             WriteEnter, Textdomain, SetBindingValues, settingVars
    <2> QED BY <2>1 DEF Bump
  <1>2. \/ tree'[k].counter = cntr
        \/ tree[k] # Null /\ tree'[k].counter = tree[k].counter
    BY TreeKept, Inserted, Updated
  <1>3. CASE tree'[k].counter = cntr
    BY <1>0, <1>1, <1>3
  <1>4. CASE tree[k] # Null /\ tree'[k].counter = tree[k].counter
    <2>1. tree[k].counter \in Nat /\ tree[k].counter <= cntr
      BY <1>0, <1>4 DEF NoFuture, TypeOK, Entries
    <2> QED BY <1>0, <1>1, <1>4, <2>1
  <1> QED BY <1>2, <1>3, <1>4

\* An entry that is stored completely is what the lookup has found.
LEMMA OwnStored ==
  ASSUME LocalesAgree, CallInv, NEW t \in Threads, Step(t), OwnLookup(t),
         pc[t] \in {"tsearch", "update"},
         tree'[Key(t)].domain = result[t].domain,
         tree'[Key(t)].translation = result[t].translation
  PROVE  \A k \in Keys : k = Key(t) => OwnTranslation(k, EntrySays(k))'
  <1> SUFFICES ASSUME NEW k \in Keys, k = Key(t) PROVE OwnTranslation(k, EntrySays(k))'
    OBVIOUS
  <1>1. IsTranslation(k, EntrySays(k))'
    <2>1. result[t] \in InForce(k) /\ TypeOK
      BY StoresInForce DEF CallInv
    <2>2. result[t] \in Results
      BY <2>1, InForceType
    <2>3. EntrySays(k)' = result[t]
      BY <2>2 DEF EntrySays, Results
    <2>4. UNCHANGED <<bindings, language, globalLocale>>
      BY SettingsKept DEF Writing
    <2> QED BY <2>1, <2>3, <2>4, InForceKept DEF IsTranslation
  <1>2. ThreadNames \/ k.localename = globalLocale
    BY KeyLocale DEF Reading
  <1>3. globalLocale' = globalLocale
    BY SettingsKept
  <1> QED BY <1>1, <1>2, <1>3, OwnAgreesNext

\* An entry that stays is as right as it was, while the bindings stay.
LEMMA OwnStays ==
  ASSUME CallInv, OwnCache, NEW t \in Threads, Step(t),
         UNCHANGED <<cntr, bindings>>, pc[t] # "bump",
         NEW k \in Keys, tree'[k] = tree[k], tree[k] # Null, tree[k].counter = cntr,
         \A u \in Threads : pc'[u] # "bump", ~(UpdateField(t) /\ Key(t) = k)
  PROVE  OwnTranslation(k, EntrySays(k))' \/ BeingUpdated(k)'
  <1>0. TypeOK
    BY DEF CallInv
  <1>1. \A u \in Threads : pc[u] # "bump"
    BY <1>0, OthersKept
  <1>2. OwnTranslation(k, EntrySays(k)) \/ BeingUpdated(k)
    BY <1>1 DEF OwnCache
  <1>3. UNCHANGED language
    BY SettingsKept
  <1> QED BY <1>2, <1>3, OwnEntryKept, UpdatingKept

LEMMA OwnCacheStep ==
  ASSUME LocalesAgree, CallInv, NoFuture, OwnCache, NEW t \in Threads, Step(t), OwnLookup(t)
  PROVE  OwnCache'
  <1> SUFFICES ASSUME NEW k \in Keys, tree'[k] # Null, tree'[k].counter = cntr',
                      \A u \in Threads : pc'[u] # "bump"
               PROVE  OwnTranslation(k, EntrySays(k))' \/ BeingUpdated(k)'
    BY DEF OwnCache
  <1>0. TypeOK /\ cntr \in Nat
    BY DEF CallInv, TypeOK
  <1>1. ~Bump(t)
    <2> SUFFICES ASSUME Bump(t) PROVE FALSE
      OBVIOUS
    <2>1. cntr' = cntr + 1 /\ UNCHANGED tree
      BY DEF Bump
    <2>2. tree[k].counter <= cntr /\ tree[k].counter \in Nat
      BY <1>0, <2>1 DEF NoFuture, TypeOK, Entries
    <2> QED BY <1>0, <2>1, <2>2
  <1>2. pc[t] # "bump"
    BY <1>0, <1>1, Moves
  <1>3. CASE Textdomain(t) \/ SetBindingValues(t)
    <2>1. UNCHANGED <<cntr, tree>> /\ ~UpdateField(t)
      BY <1>3 DEF Textdomain, SetBindingValues, UpdateField
    <2>2. UNCHANGED bindings
      BY <1>0, <1>3 DEF Textdomain, SetBindingValues, Modified, Goto, TypeOK
    <2> QED BY <1>2, <2>1, <2>2, OwnStays
  <1>4. CASE pc[t] \notin Writing /\ tree'[k] = tree[k] /\ ~(UpdateField(t) /\ Key(t) = k)
    <2>1. UNCHANGED <<cntr, bindings>>
      BY <1>4, SettingsKept
    <2> QED BY <1>2, <1>4, <2>1, OwnStays
  <1>5. CASE Tsearch(t) /\ tree' # tree /\ Key(t) = k
    BY <1>5, Inserted, OwnStored DEF Tsearch
  <1>6. CASE UpdateField(t) /\ Key(t) = k
    <2>0. pc[t] = "update" /\ UNCHANGED foundp
      BY <1>6 DEF UpdateField
    <2>1. PICK f \in update[t].todo :
            /\ update'[t].todo = update[t].todo \ {f}
            /\ IF update[t].todo = {f} THEN pc'[t] = "leave" ELSE pc'[t] = "update"
            /\ tree'[k].domain = IF f = "domain" THEN result[t].domain ELSE tree[k].domain
            /\ tree'[k].translation =
                 IF f = "translation" THEN result[t].translation ELSE tree[k].translation
      BY <1>6, Updated
    <2>2. foundp[t] = k
      BY <1>6, Updated
    <2>3. CASE {"domain", "translation"} \cap update'[t].todo # {}
      <3>1. pc'[t] = "update" /\ update'[t].todo # {"counter"}
        BY <2>1, <2>3
      <3> QED BY <2>0, <2>2, <3>1 DEF BeingUpdated
    <2>4. CASE {"domain", "translation"} \cap update'[t].todo = {}
      <3>1. /\ tree'[k].domain = result[t].domain
            /\ tree'[k].translation = result[t].translation
        BY <1>6, <2>0, <2>1, <2>4 DEF OwnLookup
      <3> QED BY <1>6, <2>0, <3>1, OwnStored
    <2> QED BY <2>3, <2>4
  <1>7. pc[t] \in Writing => Textdomain(t) \/ SetBindingValues(t)
    BY <1>0, <1>1, Moves DEF Writing
  <1> QED BY <1>3, <1>4, <1>5, <1>6, <1>7, TreeKept, Inserted, Updated

\* What the lookup itself has read stays true, as nobody else runs.
LEMMA OwnLocaleStep ==
  ASSUME CallInv, NEW t \in Threads, Step(t), OwnLookup(t), Call(t) => CallInLocale(t),
         pc'[t] \in Reading \cup {"enter"}
  PROVE  Uselocale \/ args'[t].localename = globalLocale'
  <1>0. TypeOK /\ globalLocale' = globalLocale
    BY SettingsKept DEF CallInv
  <1>1. CASE Call(t)
    BY <1>0, <1>1 DEF CallInLocale
  <1>2. CASE Enter(t)
    <2>1. pc[t] = "enter" /\ args' = args
      BY <1>2 DEF Enter
    <2> QED BY <1>0, <2>1 DEF OwnLookup
  <1>3. CASE pc[t] \in Reading /\ pc'[t] \in Reading
    BY <1>0, <1>3, OwnKept DEF OwnLookup
  <1>4. Call(t) \/ Enter(t) \/ (pc[t] \in Reading /\ pc'[t] \in Reading)
    BY <1>0, Moves DEF Reading
  <1> QED BY <1>1, <1>2, <1>3, <1>4

LEMMA OwnHitStep ==
  ASSUME CallInv, NEW t \in Threads, Step(t), pc'[t] = "hit"
  PROVE  tree'[foundp'[t]].counter = cntr'
  <1>1. CheckCounter(t)
    BY Moves DEF CallInv
  <1>2. Current(t)
    BY <1>1 DEF CheckCounter, Goto, CallInv, TypeOK
  <1> QED BY <1>1, <1>2 DEF CheckCounter, Current, settingVars, localVars

LEMMA NothingYetStep ==
  ASSUME CallInv, NEW t \in Threads, Step(t), OwnLookup(t),
         pc'[t] \in {"idle", "enter", "lookup", "tfind", "check", "hit", "resolve", "search"}
  PROVE  result'[t] = Null
  <1>0. TypeOK
    BY DEF CallInv
  <1>1. CASE Return(t)
    BY <1>0, <1>1 DEF Return, TypeOK
  <1>2. CASE /\ pc[t] \in {"idle", "enter", "lookup", "tfind", "check", "hit", "resolve", "search"}
             /\ result' = result
    BY <1>2 DEF OwnLookup
  <1>3. CASE Call(t) \/ Enter(t) \/ TreeRdlock(t) \/ Tfind(t) \/ CheckCounter(t) \/ Resolve(t)
    BY <1>2, <1>3
    DEF Call, Enter, TreeRdlock, Tfind, CheckCounter, Resolve, localVars
  <1>4. CASE TryLocale(t)
    BY <1>0, <1>2, <1>4 DEF TryLocale, Goto, TypeOK
  <1>5. CASE Leave(t) \/ Log(t) \/ Textdomain(t) \/ SetBindingValues(t) \/ Bump(t)
    BY <1>0, <1>1, <1>5
    DEF Leave, Log, Textdomain, SetDefaultDomain, SetBindingValues, Bump, Done, Modified,
        Goto, TypeOK
  <1> QED BY <1>0, <1>3, <1>4, <1>5, Moves

\* An answer from the cache is as right as one from a search.
LEMMA OwnHitRight ==
  ASSUME OneThread, LocalesAgree, CallInv, OwnCache, NEW t \in Threads, Step(t), OwnLookup(t),
         ReadHit(t)
  PROVE  IsTranslation(Key(t), result[t])'
  <1>0. TypeOK /\ LookupInv(t) /\ pc[t] = "hit"
    BY DEF CallInv, ReadHit
  <1>1. Key(t) \in Keys /\ foundp[t] = Key(t) /\ tree[Key(t)] # Null
    BY <1>0, KeyType DEF LookupInv, FoundInv, Reading
  <1>2. tree[Key(t)].counter = cntr
    BY <1>0, <1>1 DEF OwnLookup
  <1>3. ~BeingUpdated(Key(t)) /\ \A u \in Threads : pc[u] # "bump"
    BY <1>0 DEF BeingUpdated, OneThread
  <1>4. OwnTranslation(Key(t), EntrySays(Key(t)))
    BY <1>1, <1>2, <1>3 DEF OwnCache
  <1>5. ThreadNames \/ Key(t).localename = globalLocale
    BY <1>0, KeyLocale DEF Reading
  <1>6. IsTranslation(Key(t), EntrySays(Key(t)))
    BY <1>1, <1>4, <1>5, OwnAgrees
  <1>7. result'[t] = EntrySays(Key(t))
    BY <1>0, <1>1 DEF ReadHit, EntrySays, TypeOK
  <1>8. /\ UNCHANGED <<bindings, language, globalLocale>> /\ Key(t)' = Key(t)
    BY <1>0, OwnKept DEF ReadHit, Key, settingVars, envVars
  <1>9. InForce(Key(t))' = InForce(Key(t))
    BY <1>8 DEF InForce, CategoryValue
  <1> QED BY <1>6, <1>7, <1>9 DEF IsTranslation

LEMMA OwnAnswerStep ==
  ASSUME OneThread, LocalesAgree, CallInv, OwnCache, NEW t \in Threads, Step(t), OwnLookup(t),
         pc'[t] = "leave", result'[t] # Null
  PROVE  IsTranslation(Key(t), result[t])'
  <1>0. TypeOK /\ LookupInv(t)
    BY DEF CallInv
  <1>1. CASE ReadHit(t)
    BY <1>1, OwnHitRight
  <1>2. CASE Stamp(t) \/ Tsearch(t) \/ UpdateField(t)
    <2>1. pc[t] \in {"found", "tsearch", "update"} /\ result' = result
      BY <1>2 DEF Stamp, Tsearch, UpdateField, localVars
    <2>2. IsTranslation(Key(t), result[t])
      BY <1>0, <2>1 DEF LookupInv
    <2>3. Key(t)' = Key(t) /\ UNCHANGED <<bindings, language, globalLocale>>
      BY <2>1, OwnKept DEF Reading
    <2> QED BY <2>1, <2>2, <2>3, TranslationKept
  <1>3. CASE Resolve(t) \/ TryLocale(t)
    <2>1. pc[t] \in {"resolve", "search"} /\ result' = result
      BY <1>0, <1>3 DEF Resolve, TryLocale, Goto, TypeOK
    <2> QED BY <2>1 DEF OwnLookup
  <1> QED BY <1>0, <1>1, <1>2, <1>3, Moves

\* What an update has stored so far nobody else overwrites.
LEMMA OwnUpdateStep ==
  ASSUME CallInv, NEW t \in Threads, Step(t), OwnLookup(t), pc'[t] = "update"
  PROVE  /\ "domain" \notin update'[t].todo => tree'[Key(t)'].domain = result'[t].domain
         /\ "translation" \notin update'[t].todo =>
              tree'[Key(t)'].translation = result'[t].translation
  <1>0. TypeOK
    BY DEF CallInv
  <1>1. CASE Stamp(t)
    <2>1. foundp[t] # Null
      BY <1>0, <1>1 DEF Stamp, Goto, TypeOK
    <2> QED BY <1>0, <1>1, <2>1 DEF Stamp, Fields, TypeOK
  <1>2. CASE UpdateField(t) /\ pc[t] = "update"
    <2>1. Key(t)' = Key(t) /\ result'[t] = result[t]
      BY <1>2, OwnKept DEF Reading, UpdateField
    <2>2. PICK f \in update[t].todo :
            /\ update'[t].todo = update[t].todo \ {f}
            /\ tree'[Key(t)].domain =
                 IF f = "domain" THEN result[t].domain ELSE tree[Key(t)].domain
            /\ tree'[Key(t)].translation =
                 IF f = "translation" THEN result[t].translation
                 ELSE tree[Key(t)].translation
      BY <1>2, Updated
    <2> QED BY <1>2, <2>1, <2>2 DEF OwnLookup
  <1> QED BY <1>0, <1>1, <1>2, Moves

LEMMA OwnLookupStep ==
  ASSUME OneThread, LocalesAgree, CallInv, OwnCache, NEW t \in Threads, Step(t), OwnLookup(t),
         Call(t) => CallInLocale(t)
  PROVE  OwnLookup(t)'
  <1>1. (pc[t] \in Reading \cup {"enter"} => Uselocale \/ args[t].localename = globalLocale)'
    BY OwnLocaleStep
  <1>2. (pc[t] = "hit" => tree[foundp[t]].counter = cntr)'
    BY OwnHitStep
  <1>3. (pc[t] \in {"idle", "enter", "lookup", "tfind", "check", "hit", "resolve", "search"} =>
           result[t] = Null)'
    BY NothingYetStep
  <1>4. (pc[t] = "leave" /\ result[t] # Null => IsTranslation(Key(t), result[t]))'
    BY OwnAnswerStep
  <1>5. (pc[t] = "update" =>
           /\ "domain" \notin update[t].todo => tree[Key(t)].domain = result[t].domain
           /\ "translation" \notin update[t].todo =>
                tree[Key(t)].translation = result[t].translation)'
    BY OwnUpdateStep
  <1> QED BY <1>1, <1>2, <1>3, <1>4, <1>5 DEF OwnLookup

LEMMA UseStep ==
  ASSUME OneThread, LocalesAgree, NoFuture, UseInv, NEW t \in Threads, Step(t),
         Call(t) => CallInLocale(t)
  PROVE  NoFuture' /\ UseInv'
  <1>1. CallInv /\ OwnCache /\ OwnLookup(t)
    BY DEF UseInv
  <1>2. \A u \in Threads : u = t
    BY DEF OneThread
  <1>3. OwnLookup(t)'
    BY <1>1, OwnLookupStep
  <1>4. \A u \in Threads : OwnLookup(u)'
    BY <1>2, <1>3
  <1> QED BY <1>1, <1>4, CallStep, NoFutureStep, OwnCacheStep DEF UseInv

-----------------------------------------------------------------------------
(* Changes of the environment.                                             *)

\* While a program calls setlocale it has no lookup under way.
LEMMA SetlocaleStep ==
  ASSUME OneThread, NoFuture, UseInv, NEW t \in Threads, Setlocale(t)
  PROVE  NoFuture' /\ UseInv'
  <1>0. TypeOK /\ LockInv /\ DomainInv /\ DomainNameValid /\ LookupInv(t) /\ OwnLookup(t)
    BY DEF UseInv, CallInv
  <1>1. pc[t] = "idle" /\ \A u \in Threads : u = t
    BY DEF Setlocale, OneThread
  <1>2. globalLocale' \in Locales /\ UNCHANGED <<lockVars, settingVars, language, tree, pc, localVars>>
    BY DEF Setlocale
  <1>3. TypeOK' /\ LockInv' /\ DomainInv' /\ DomainNameValid'
    BY <1>0, <1>2
    DEF TypeOK, LockInv, DomainInv, DomainNameValid, lockVars, settingVars, localVars
  <1>4. LookupInv(t)' /\ UpdateInv(t)' /\ OwnLookup(t)'
    BY <1>0, <1>1, <1>2 DEF LookupInv, UpdateInv, OwnLookup, Reading, localVars
  <1>5. CallInv' /\ \A u \in Threads : OwnLookup(u)'
    BY <1>1, <1>3, <1>4 DEF CallInv
  <1>6. OwnCache'
    <2> SUFFICES ASSUME NEW k \in Keys, tree'[k] # Null, tree'[k].counter = cntr'
                 PROVE  OwnTranslation(k, EntrySays(k))'
      BY DEF OwnCache
    <2>1. OwnTranslation(k, EntrySays(k))
      BY <1>1, <1>2 DEF UseInv, OwnCache, BeingUpdated, settingVars
    <2> QED BY <1>2, <2>1, OwnEntryKept DEF settingVars
  <1>7. NoFuture'
    BY <1>2 DEF NoFuture, settingVars
  <1> QED BY <1>5, <1>6, <1>7 DEF UseInv

LEMMA SetenvStep ==
  ASSUME OneThread, NoFuture, UseInv, NEW t \in Threads, Setenv(t)
  PROVE  NoFuture' /\ SwitchInv'
  <1>0. TypeOK /\ LockInv /\ DomainInv
    BY DEF UseInv, CallInv
  <1>1. pc[t] = "idle" /\ \A u \in Threads : u = t
    BY DEF Setenv, OneThread
  <1>2. /\ language' \in Languages
        /\ UNCHANGED <<lockVars, settingVars, globalLocale, tree, localVars>>
    BY DEF Setenv
  <1>3. pc' \in [Threads -> {"envLoad", "envStore"}] /\ pc'[t] = "envLoad"
    BY <1>0, <1>1 DEF Setenv, Goto, TypeOK
  <1>4. stateReaders = {} /\ treeReaders = {}
    BY <1>0, <1>1 DEF TypeOK, Reading
  <1>5. stateWriter = Null /\ treeWriter = Null
    BY <1>0, <1>1 DEF TypeOK, LockInv, Writing
  <1>6. DomainInv'
    BY <1>0, <1>2, <1>5 DEF DomainInv, lockVars, settingVars
  <1>7. NoFuture'
    BY <1>2 DEF NoFuture, settingVars
  <1> QED
    BY <1>0, <1>1, <1>2, <1>3, <1>4, <1>5, <1>6, <1>7
    DEF SwitchInv, TypeOK, lockVars, settingVars, localVars

LEMMA EnvLoadStep ==
  ASSUME OneThread, NoFuture, SwitchInv, NEW t \in Threads, EnvLoad(t)
  PROVE  NoFuture' /\ SwitchInv'
  <1>1. UNCHANGED <<lockVars, settingVars, envVars, tree, args, domainname, foundp, search,
                    result>>
    BY DEF EnvLoad
  <1>2. pc' \in [Threads -> {"envLoad", "envStore"}]
    BY DEF EnvLoad, Goto, SwitchInv
  <1>3. update' \in [Threads -> Updates] /\ update'[t].stamp = cntr
    BY DEF EnvLoad, SwitchInv, Updates
  <1>4. \A u \in Threads : u = t
    BY DEF OneThread
  <1>5. DomainInv'
    BY <1>1 DEF SwitchInv, DomainInv, lockVars, settingVars
  <1>6. NoFuture'
    BY <1>1 DEF NoFuture, settingVars
  <1> QED
    BY <1>1, <1>2, <1>3, <1>4, <1>5, <1>6 DEF SwitchInv, lockVars, settingVars, envVars

\* The counter says that no entry is current.
LEMMA EnvStoreStep ==
  ASSUME OneThread, NoFuture, SwitchInv, NEW t \in Threads, EnvStore(t)
  PROVE  NoFuture' /\ UseInv'
  <1>1. /\ cntr' = cntr + 1 /\ cntr \in Nat
        /\ UNCHANGED <<lockVars, defaultDomain, freed, bindings, envVars, tree>>
    BY DEF EnvStore, SwitchInv
  <1>2. pc' \in [Threads -> Steps] /\ pc'[t] = "idle" /\ \A u \in Threads : u = t
    BY DEF EnvStore, Return, Goto, SwitchInv, OneThread, Steps
  <1>3. /\ args' \in [Threads -> Args] /\ domainname' \in [Threads -> Pointers]
        /\ foundp' \in [Threads -> Keys \cup {Null}] /\ search' \in [Threads -> Searches]
        /\ update' \in [Threads -> Updates] /\ result' \in [Threads -> Results \cup {Null}]
        /\ foundp'[t] = Null /\ result'[t] = Null
    BY NoCallTypes DEF EnvStore, Return, SwitchInv
  <1>4. TypeOK'
    BY <1>1, <1>2, <1>3 DEF SwitchInv, TypeOK, lockVars, envVars, Reading
  <1>5. LockInv'
    BY <1>1, <1>2, NullAssumption DEF SwitchInv, LockInv, lockVars, Writing
  <1>6. DomainInv'
    <2>1. \A a \in freed \cup {defaultDomain.alloc} : a <= cntr /\ a \in Nat
      BY DEF SwitchInv, DomainInv, Pointers
    <2> QED BY <1>1, <2>1 DEF SwitchInv, DomainInv
  <1>7. DomainNameValid'
    BY <1>2 DEF DomainNameValid, Reading
  <1>8. LookupInv(t)' /\ UpdateInv(t)' /\ OwnLookup(t)'
    BY <1>2, <1>3 DEF LookupInv, UpdateInv, OwnLookup, Reading
  <1>9. \A k \in Keys : tree'[k] # Null =>
          tree'[k].counter <= cntr' /\ tree'[k].counter # cntr'
    BY <1>1 DEF NoFuture, SwitchInv, Entries
  <1> QED
    BY <1>2, <1>4, <1>5, <1>6, <1>7, <1>8, <1>9 DEF UseInv, CallInv, OwnCache, NoFuture

LEMMA EnvInitially == Init => EnvInv
  <1> SUFFICES ASSUME Init PROVE EnvInv
    OBVIOUS
  <1>1. CallInv
    BY InitIInv DEF IInv
  <1>2. \A t \in Threads : pc[t] = "idle" /\ result[t] = Null
    BY DEF Init
  <1>3. \A k \in Keys : tree[k] = Null
    BY DEF Init
  <1> QED BY <1>1, <1>2, <1>3 DEF EnvInv, UseInv, NoFuture, OwnCache, OwnLookup, Reading

LEMMA EnvKept ==
  ASSUME OneThread, LocalesAgree, EnvInv, [EnvNext]_vars
  PROVE  EnvInv'
  <1>1. CASE EnvNext /\ UseInv
    <2>1. PICK t \in Threads :
            \/ CallInLocale(t) \/ Lookup(t) \/ Configure(t) \/ Settings(t)
            \/ Setenv(t) \/ EnvLoad(t) \/ EnvStore(t) \/ Setlocale(t)
      BY <1>1 DEF EnvNext
    <2>2. ~EnvLoad(t) /\ ~EnvStore(t)
      BY <1>1 DEF EnvLoad, EnvStore, UseInv, CallInv, TypeOK, Steps
    <2>3. CASE CallInLocale(t)
      BY <1>1, <2>3, UseStep DEF CallInLocale, Step, EnvInv
    <2>4. CASE Lookup(t) \/ Configure(t) \/ Settings(t)
      <3>1. Step(t)
        BY <2>4 DEF Step
      <3>2. ~Call(t)
        <4>1. Call(t) => pc[t] = "idle" /\ pc'[t] = "enter"
          BY <1>1 DEF Call, Goto, UseInv, CallInv, TypeOK
        <4>2. pc[t] # "idle" \/ pc'[t] # "enter"
          BY <1>1, <2>4
          DEF Lookup, Configure, Settings, Enter, TreeRdlock, Tfind, CheckCounter, ReadHit,
              Resolve, TryLocale, Stamp, TreeWrlock, Tsearch, UpdateField, Leave, Log,
              WriteEnter, Textdomain, SetBindingValues, Bump, Goto, UseInv, CallInv, TypeOK
        <4> QED BY <4>1, <4>2
      <3> QED BY <1>1, <3>1, <3>2, UseStep DEF EnvInv
    <2>5. CASE Setenv(t)
      BY <1>1, <2>5, SetenvStep DEF EnvInv
    <2>6. CASE Setlocale(t)
      BY <1>1, <2>6, SetlocaleStep DEF EnvInv
    <2> QED BY <2>1, <2>2, <2>3, <2>4, <2>5, <2>6
  <1>2. CASE EnvNext /\ SwitchInv
    <2>1. PICK t \in Threads :
            \/ CallInLocale(t) \/ Lookup(t) \/ Configure(t) \/ Settings(t)
            \/ Setenv(t) \/ EnvLoad(t) \/ EnvStore(t) \/ Setlocale(t)
      BY <1>2 DEF EnvNext
    <2>2. pc[t] \in {"envLoad", "envStore"}
      BY <1>2 DEF SwitchInv
    <2>3. EnvLoad(t) \/ EnvStore(t)
      BY <2>1, <2>2
      DEF CallInLocale, Call, Setenv, Setlocale, Lookup, Configure, Settings, Enter,
          TreeRdlock, Tfind, CheckCounter, ReadHit, Resolve, TryLocale, Stamp, TreeWrlock,
          Tsearch, UpdateField, Leave, Log, WriteEnter, Textdomain, SetBindingValues, Bump
    <2> QED BY <1>2, <2>3, EnvLoadStep, EnvStoreStep DEF EnvInv
  <1>3. CASE UNCHANGED vars
    <2>1. NoFuture'
      BY <1>3 DEF EnvInv, NoFuture, vars
    <2>2. CASE UseInv
      <3>1. CallInv'
        BY <1>3, <2>2, CallStutter DEF UseInv
      <3>2. ASSUME NEW k \in Keys, OwnTranslation(k, EntrySays(k)) \/ BeingUpdated(k)
            PROVE  OwnTranslation(k, EntrySays(k))' \/ BeingUpdated(k)'
        <4>1. BeingUpdated(k) => BeingUpdated(k)'
          BY <1>3 DEF vars, BeingUpdated
        <4> QED BY <1>3, <3>2, <4>1, OwnEntryKept DEF vars
      <3>3. OwnCache'
        BY <1>3, <2>2, <3>2 DEF UseInv, OwnCache, vars
      <3>4. ASSUME NEW t \in Threads PROVE OwnLookup(t)'
        <4>1. OwnLookup(t)
          BY <2>2 DEF UseInv
        <4>2. IsTranslation(Key(t), result[t]) => IsTranslation(Key(t), result[t])'
          BY <1>3, TranslationKept DEF vars, Key
        <4>3. Key(t)' = Key(t)
          BY <1>3 DEF vars, Key
        <4>4. /\ UNCHANGED <<globalLocale, cntr, pc, tree>> /\ args'[t] = args[t]
              /\ foundp'[t] = foundp[t] /\ update'[t] = update[t] /\ result'[t] = result[t]
          BY <1>3 DEF vars
        <4> QED BY <4>1, <4>2, <4>3, <4>4 DEF OwnLookup
      <3> QED BY <2>1, <3>1, <3>3, <3>4 DEF EnvInv, UseInv
    <2>3. CASE SwitchInv
      BY <1>3, <2>1, <2>3 DEF EnvInv, SwitchInv, DomainInv, vars
    <2> QED BY <2>2, <2>3 DEF EnvInv
  <1> QED BY <1>1, <1>2, <1>3 DEF EnvInv

-----------------------------------------------------------------------------
(* The theorems.                                                           *)

(* EnvInv: in a program with one thread, whatever it mixes, what an entry  *)
(* with a current counter says stays what a search in its own locale may   *)
(* find (the first catalog of the list that has the message, or one behind *)
(* others that fail), also while another locale is in force; between       *)
(* setenv and the end of the increment of _nl_msg_cat_cntr no call is      *)
(* under way.                                                              *)
THEOREM EnvInvariant ==
  ASSUME OneThread, LocalesAgree
  PROVE  EnvSpec => []EnvInv
  <1>1. EnvInv /\ [EnvNext]_vars => EnvInv'
    BY EnvKept
  <1> QED BY <1>1, EnvInitially, PTL DEF EnvSpec

(* AnswerCurrent: what DCIGETTEXT returns, from a catalog or from the      *)
(* cache (dcigettext.c:593), is a translation that the settings, LANGUAGE  *)
(* and the locale in force select: of the first catalog that has the       *)
(* message, or of one behind others that fail.                             *)
THEOREM AnswersCurrent ==
  ASSUME OneThread, LocalesAgree
  PROVE  EnvSpec => []AnswerCurrent
  <1>1. EnvInv => AnswerCurrent
    BY DEF EnvInv, UseInv, SwitchInv, OwnLookup, AnswerCurrent
  <1> QED BY <1>1, EnvInvariant, PTL

(* ChangeKnown: after setenv and the increment of _nl_msg_cat_cntr that    *)
(* the manual asks for, no entry with a current counter says anything that *)
(* a search with the new list of languages could not find.                 *)
THEOREM ChangesKnown ==
  ASSUME OneThread, LocalesAgree
  PROVE  EnvSpec => []ChangeKnown
  <1>1. EnvInv => ChangeKnown
    <2> SUFFICES ASSUME EnvInv, Switching = {}, stateWriter = Null,
                        NEW k \in Keys, ThreadNames \/ k.localename = globalLocale,
                        tree[k] # Null, tree[k].counter = cntr
                 PROVE  IsTranslation(k, EntrySays(k)) \/ BeingUpdated(k)
      BY DEF ChangeKnown
    <2>1. CASE UseInv
      <3>1. \A t \in Threads : pc[t] # "bump"
        BY <2>1, NullAssumption DEF UseInv, CallInv, LockInv, Writing
      <3> QED BY <2>1, <3>1, OwnAgrees DEF UseInv, OwnCache
    <2>2. CASE SwitchInv
      <3>1. Threads = {}
        BY <2>2 DEF SwitchInv, Switching
      <3> QED BY <2>2, <3>1 DEF SwitchInv
    <2> QED BY <2>1, <2>2 DEF EnvInv
  <1> QED BY <1>1, EnvInvariant, PTL
=============================================================================
