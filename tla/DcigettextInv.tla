--------------------------- MODULE DcigettextInv ----------------------------
(***************************************************************************)
(* The inductive invariant of Dcigettext, from which its safety properties *)
(* are proved (DcigettextProofs).                                          *)
(***************************************************************************)
EXTENDS Dcigettext

\* The locks are held by the threads whose program point says so, and exclude.
LockInv ==
  /\ \A t \in Threads : stateWriter = t <=> pc[t] \in Writing
  /\ \A t \in Threads : treeWriter = t <=> pc[t] = "tsearch"
  /\ stateWriter = Null \/ stateReaders = {}
  /\ treeWriter = Null \/ treeReaders = {}

\* Where storage for the default domain's name is free for a new copy.
DomainInv ==
  /\ defaultDomain.alloc \notin freed
  /\ \A a \in freed \cup {defaultDomain.alloc} :
       a <= cntr \/ (a = cntr + 1 /\ stateWriter # Null /\ pc[stateWriter] = "bump")

\* Nothing of the list before the current place had to yield the message.
SearchInv(t) ==
  LET s == search[t]
  IN  /\ s.list = CategoryValue(args[t].localename)
      /\ s.dirname = bindings[domainname[t].name].dirname
      /\ s.pos # 0
      /\ \A j \in DOMAIN s.list : j < s.pos =>
           /\ s.list[j] # CLocale
           /\ MayMissAll(CatalogsFor(s.dirname, s.list[j], domainname[t].name), args[t].msgid)

\* The tree has grown only since the search: the node found is still there.
FoundInv(t) == foundp[t] = Key(t) /\ tree[Key(t)] # Null

\* What a lookup knows at each of its steps.
LookupInv(t) ==
  /\ pc[t] \in Reading \cup {"enter"} => args[t].msgid \in Msgids
  /\ pc[t] \in {"wantTextdomain", "wantBinding", "textdomain", "binding"} =>
       args[t].domainname \in Domains
  /\ pc[t] \in {"idle", "enter", "lookup"} => foundp[t] = Null
  /\ pc[t] \in Reading => foundp[t] = Null \/ FoundInv(t)
  /\ pc[t] = "hit" => foundp[t] # Null
  /\ pc[t] = "search" => SearchInv(t)
  /\ pc[t] \in {"found", "insert", "tsearch", "update"} =>
       result[t] # Null /\ IsTranslation(Key(t), result[t])
  /\ pc[t] \in {"insert", "tsearch", "update"} => update[t].stamp = cntr

\* What it has stored so far is there, or what another thread has stored since.
UpdateInv(t) ==
  pc[t] = "update" =>
    /\ foundp[t] # Null
    /\ update[t].todo # {}
    /\ "domain" \notin update[t].todo =>
         \E r \in InForce(Key(t)) : tree[Key(t)].domain = r.domain
    /\ "translation" \notin update[t].todo =>
         \E r \in InForce(Key(t)) : tree[Key(t)].translation = r.translation

\* An entry put together from what searches may find now.
EntryRight(k) == \E a, b \in InForce(k) : EntrySays(k) = Mix(a, b)

\* No entry is of the future, and the current ones are right.
CacheInv ==
  \A k \in Keys : tree[k] # Null =>
    /\ tree[k].counter <= cntr
    /\ tree[k].counter = cntr /\ (\A t \in Threads : pc[t] # "bump") =>
         EntryRight(k) \/ BeingUpdated(k)

\* The calls under way, whatever the entries of the tree say.
CallInv ==
  /\ TypeOK
  /\ LockInv
  /\ DomainInv
  /\ DomainNameValid
  /\ \A t \in Threads : LookupInv(t) /\ UpdateInv(t)

IInv == CallInv /\ CacheInv
=============================================================================
