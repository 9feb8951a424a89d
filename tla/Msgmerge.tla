------------------------------ MODULE Msgmerge ------------------------------
(***************************************************************************)
(* The program msgmerge (gettext-tools/src/msgmerge.c) in update mode:     *)
(* msgmerge -U def.po ref.pot, run Runs times on the same files.           *)
(*                                                                         *)
(* merge() makes one pass for every domain.  In a pass, match_domain looks *)
(* up every message of the reference in a loop that OpenMP distributes     *)
(* over threads; each of them creates the fuzzy indices when it first      *)
(* needs them.  Then the main thread merges the messages it found, one     *)
(* after the other, and repairs those whose plural forms do not fit.       *)
(* After the last pass the unused definitions are added, domain by domain, *)
(* as obsolete messages, and the file is written if it differs from what   *)
(* was read.                                                               *)
(***************************************************************************)
EXTENDS MessageOps

CONSTANTS
  MergeThreads,   \* the threads of the OpenMP team
  Similarity,     \* fuzzy_search_goal_function: a number for two ids
  Threshold,      \* FUZZY_THRESHOLD
  DefaultDomain,  \* MESSAGE_DOMAIN_DEFAULT
  Inputs,         \* the files and options msgmerge may be called with
  Runs,           \* how often it is called
  Null

ASSUME SimilarityAssumption ==
  \A a, b \in DOMAIN Similarity :
    a \in DOMAIN Similarity[b] /\ Similarity[a][b] \in Nat

IsList(s) == s \in Seq({ s[n] : n \in DOMAIN s })

(* A message as the reader makes it; the header entry's fields are what its *)
(* msgstr consists of.                                                      *)
MessageFields ==
  {"id", "plural", "str", "hdr", "fuzzy", "obsolete", "format", "range", "prev", "pos"}

TextKinds == {"", "full", "part"}

IsRead(m) ==
  /\ DOMAIN m = MessageFields
  /\ m.str \in Seq(TextKinds) /\ m.str # <<>>
  /\ m.hdr \in [nplurals : Nat, potdate : Nat, language : Nat]
  /\ m.range = NoRange \/ m.range \in Nat \X Nat
  /\ is_header(m) =>
       m.plural = NoPlural /\ m.str = IF m.hdr = NoFields THEN <<"">> ELSE <<"full">>

ListRead(l) == IsList(l) /\ \A i \in DOMAIN l : IsRead(l[i])

(* A msgdomain_list: it has one list for a domain.                          *)
IsCatalog(mdl) ==
  /\ IsList(mdl)
  /\ \A d \in DOMAIN mdl :
       DOMAIN mdl[d] = {"domain", "messages"} /\ ListRead(mdl[d].messages)
  /\ \A d, e \in DOMAIN mdl : mdl[d].domain = mdl[e].domain => d = e

(* What is read from a file: default_add_message refuses a second message   *)
(* with the id of another one.                                              *)
IsFile(mdl) == IsCatalog(mdl) /\ \A d \in DOMAIN mdl : ~HasDuplicates(mdl[d].messages)

ASSUME InputsAssumption ==
  \A in \in Inputs :
    /\ IsFile(in.def)
    /\ IsFile(in.ref) /\ in.ref # <<>>
    /\ IsList(in.compendiums) /\ \A c \in DOMAIN in.compendiums : ListRead(in.compendiums[c])
    /\ in.lang \in Nat

VARIABLES
  args,         \* an element of Inputs: the reference, compendiums, options
  file,         \* the contents of def.po: a sequence of [domain, messages]
  def,          \* what the current run has read from it
  run,          \* the number of the current run
  phase,        \* "set", "search", "obsolete", "write" or "done"
  pass,         \* the number of the current pass of merge()
  next,         \* the next iteration of the parallel loop, or domain of definitions
  mergepc,      \* of each thread
  jj,           \* the iteration each thread is in
  mp1,          \* the best candidate it has found so far
  search_results,
  refmlp,       \* the reference's messages in this pass
  lists,        \* definitions.lists: the current list, then the compendiums
  curr_findex,  \* the fuzzy index of a list of definitions, or Null
  comp_findex,  \* the fuzzy index of the compendiums, or Null
  lock,         \* the holders of the two initialization locks, or Null
  result,       \* the msgdomain_list that is built
  used,         \* the definitions merged: pairs <<domain, message>>
  writes        \* the number of runs that wrote def.po

data == <<args, file, def, run>>
findex == <<curr_findex, comp_findex, lock>>
search == <<refmlp, lists, mergepc, jj, mp1, search_results, findex>>
mergevars == <<data, phase, pass, next, search, result, used, writes>>

Curr == "curr"
Comp == "comp"
Unmatched == [found |-> <<0, 0>>, fuzzy |-> FALSE]

----------------------------------------------------------------------------
(* The passes of merge(), and the lists each of them searches.              *)

DomainIndex(mdl, d) == SelectInSeq(mdl, LAMBDA x : x.domain = d)

DummyHeader ==
  [id |-> Header, plural |-> NoPlural, str |-> <<"">>, hdr |-> NoFields,
   fuzzy |-> FALSE, obsolete |-> FALSE, format |-> FALSE, range |-> NoRange,
   prev |-> NoId, pos |-> <<"dummy", 0, 0>>]

(* merge adds a header entry to a domain of the reference without one.      *)
WithHeader(l) ==
  IF message_list_search(l, Header) = 0 THEN <<DummyHeader>> \o l ELSE l

(* The pairs [domain, def] of a pass: def is the index of the domain in the *)
(* definitions, 0 for the empty list.                                       *)
Passes ==
  IF args.multi_domain
  THEN LET all == [d \in 1..Len(def) |-> [domain |-> def[d].domain, def |-> d]]
       IN IF def[1].messages = <<>> THEN Tail(all) ELSE all
  ELSE [r \in 1..Len(args.ref) |->
          [domain |-> args.ref[r].domain, def |-> DomainIndex(def, args.ref[r].domain)]]

RefList(p) == WithHeader(args.ref[IF args.multi_domain THEN 1 ELSE p].messages)
DefList(p) == IF Passes[p].def = 0 THEN <<>> ELSE def[Passes[p].def].messages

----------------------------------------------------------------------------
(* The fuzzy search.                                                        *)

Goal(m, id) == Similarity[m.id][id]

(* message_fuzzy_index_search: among the translated messages of the index's *)
(* lists, the one whose goal function is greatest and exceeds bound.  A     *)
(* message is given by its list and its place in it; there is no list 0.    *)
None == <<0, 0>>

FuzzySearch(fi, id, bound) ==
  LET G(a) == Goal(fi[a[1]][a[2]], id)
      Before(a, b) == a[1] < b[1] \/ (a[1] = b[1] /\ a[2] < b[2])
      all  == { a \in UNION { {l} \X (1..Len(fi[l])) : l \in DOMAIN fi } :
                  Translated(fi[a[1]][a[2]]) /\ G(a) > bound }
      best == { a \in all : \A b \in all \ {a} :
                  G(a) > G(b) \/ (G(a) = G(b) /\ Before(a, b)) }
  IN IF best = {} THEN None ELSE CHOOSE a \in best : TRUE

(* An index of some lists, by their numbers in definitions.lists.           *)
Index(ll, n) == [l \in n |-> ll[l]]

(* definitions_search_fuzzy: the bound the compendiums must exceed.         *)
LowerBound(best, id) ==
  IF best = None THEN Threshold ELSE Goal(lists[best[1]][best[2]], id)

(* The result of the loop body for message j of the reference, when no      *)
(* other thread exists.                                                     *)
SearchAlone(j) ==
  LET m     == refmlp[j]
      exact == message_list_list_search(lists, m.id)
      best1 == FuzzySearch(Index(lists, {1}), m.id, Threshold)
      best2 == FuzzySearch(Index(lists, 2..Len(lists)), m.id, LowerBound(best1, m.id))
      best  == IF best2 = None THEN best1 ELSE best2
  IN IF exact # None THEN [found |-> exact, fuzzy |-> FALSE]
     ELSE IF is_header(m) \/ ~args.use_fuzzy \/ best = None THEN Unmatched
     ELSE [found |-> best, fuzzy |-> TRUE]

----------------------------------------------------------------------------
(* message_merge and the loops that follow the search.                      *)

(* The fields of the header: the date comes from the reference if it has    *)
(* one, the language from the command line (the inputs name no team from    *)
(* which it could be guessed).                                              *)
MergedFields(d, r) ==
  [nplurals |-> d.hdr.nplurals,
   potdate  |-> IF r.hdr.potdate # 0 THEN r.hdr.potdate ELSE d.hdr.potdate,
   language |-> IF args.lang # 0 THEN args.lang ELSE d.hdr.language]

Subrange(r, d) == r # NoRange /\ r[1] >= d[1] /\ r[2] <= d[2]

(* What makes a translation of d unfit for r without a look by a translator: *)
(* a plural that comes or goes, a format string now that its translation   *)
(* does not match, a range that is no part of the old one.                 *)
UnfitMutant(d, r, str) ==
  r.plural # d.plural \/ (d.range # NoRange /\ ~Subrange(r.range, d.range))

Unfit(d, r, str) ==
  \/ r.plural # d.plural
  \/ /\ r.format /\ ~d.format
     /\ FormatErrors(r.plural, str, r.range)
  \/ d.range # NoRange /\ ~Subrange(r.range, d.range)

(* The previous msgid: that of a fuzzy definition is kept.                  *)
PrevIdMutant(d) == d.id
PrevId(d) == IF d.fuzzy THEN d.prev ELSE d.id

message_merge(d, r, force_fuzzy) ==
  LET hdr == IF is_header(r) THEN MergedFields(d, r) ELSE NoFields
      str == IF is_header(r)
             THEN IF hdr = NoFields THEN <<"">> ELSE <<"full">>
             ELSE d.str
  IN [id |-> r.id, plural |-> r.plural, str |-> str, hdr |-> hdr,
      fuzzy |-> d.fuzzy \/ force_fuzzy \/ Unfit(d, r, str), obsolete |-> r.obsolete,
      format |-> r.format, range |-> r.range,
      prev |-> IF ~args.previous \/ is_header(r) THEN NoId ELSE PrevId(d),
      pos |-> d.pos]

(* The flag message_merge leaves in result->used for the postprocessing.    *)
Problem(d, r) ==
  IF r.plural # NoPlural /\ d.plural = NoPlural THEN 1
  ELSE IF r.plural = NoPlural /\ d.plural # NoPlural THEN 2 ELSE 0

(* A message that was not found: nplurals empty forms if it has a plural.   *)
Missing(r, nplurals) ==
  LET m == message_copy(r)
  IN IF m.plural # NoPlural /\ AllEmpty(m)
     THEN [m EXCEPT !.str = [n \in 1..nplurals |-> ""]]
     ELSE m

(* What the merging loop appends for message j of the reference: nothing   *)
(* for a header entry that was not found.                                   *)
Merged(j) ==
  LET r   == refmlp[j]
      res == search_results[j]
      d   == lists[res.found[1]][res.found[2]]
  IN IF res.found # None
     THEN [msg |-> message_merge(d, r, res.fuzzy), problem |-> Problem(d, r)]
     ELSE [msg |-> Missing(r, get_plural_count(lists[1])), problem |-> 0]

Appended ==
  { j \in 1..Len(search_results) :
      search_results[j].found # None \/ ~is_header(refmlp[j]) }

(* The postprocessing of a message: a singular is repeated for every plural *)
(* form, of several forms only the first is kept, and the previous msgid is *)
(* removed from messages that are not fuzzy or not translated.              *)
Repaired(x, nplurals) ==
  IF x.problem = 1
  THEN [x.msg EXCEPT !.fuzzy = TRUE,
          !.str = [n \in 1..nplurals * Len(@) |-> @[((n - 1) % Len(@)) + 1]]]
  ELSE IF x.problem = 2 /\ Len(x.msg.str) > 1
  THEN [x.msg EXCEPT !.str = <<@[1]>>, !.fuzzy = TRUE]
  ELSE x.msg

DropPrev(m) == IF m.fuzzy /\ Translated(m) THEN m ELSE [m EXCEPT !.prev = NoId]

Postprocessed(l) ==
  LET n == get_plural_count([i \in 1..Len(l) |-> l[i].msg])
  IN [i \in 1..Len(l) |-> DropPrev(Repaired(l[i], n))]

(* The list of a domain in the result, which msgdomain_list_sublist creates *)
(* if need be.                                                              *)
AppendTo(mdl, d, l) ==
  IF DomainIndex(mdl, d) = 0
  THEN Append(mdl, [domain |-> d, messages |-> l])
  ELSE [mdl EXCEPT ![DomainIndex(mdl, d)].messages = @ \o l]

(* The unused definitions of domain d, obsolete.                            *)
UnusedMutant(d) ==
  LET l == def[d].messages
  IN ElementsAt([i \in 1..Len(l) |-> [message_copy(l[i]) EXCEPT !.obsolete = TRUE]],
                { i \in 1..Len(l) : <<d, i>> \notin used /\ ~l[i].obsolete })

Unused(d) ==
  LET l == def[d].messages
  IN ElementsAt([i \in 1..Len(l) |-> [message_copy(l[i]) EXCEPT !.obsolete = TRUE]],
                { i \in 1..Len(l) : <<d, i>> \notin used })

(* read_catalog_file: the default domain comes first, a domain without      *)
(* messages is not there, and every message has its position.               *)
ReadCatalog(f) ==
  LET k == DomainIndex(f, DefaultDomain)
      default == [domain |-> DefaultDomain,
                  messages |-> IF k = 0 THEN <<>> ELSE f[k].messages]
      mdl == <<default>> \o ElementsAt(f, { n \in 1..Len(f) : /\ f[n].domain # DefaultDomain
                                                              /\ f[n].messages # <<>> })
  IN [d \in 1..Len(mdl) |->
        [mdl[d] EXCEPT !.messages =
           [i \in 1..Len(@) |-> [@[i] EXCEPT !.pos = <<"def", d, i>>]]]]

----------------------------------------------------------------------------
(* main, when msgmerge is called with args.                                 *)
MergeStart ==
  /\ file = args.def
  /\ def = ReadCatalog(file)
  /\ run = 1 /\ phase = "set" /\ pass = 0 /\ next = 1
  /\ mergepc = [t \in MergeThreads |-> "idle"]
  /\ jj = [t \in MergeThreads |-> 0]
  /\ mp1 = [t \in MergeThreads |-> None]
  /\ search_results = <<>> /\ refmlp = <<>> /\ lists = <<>>
  /\ curr_findex = Null /\ comp_findex = Null
  /\ lock = [x \in {Curr, Comp} |-> Null]
  /\ result = <<[domain |-> DefaultDomain, messages |-> <<>>]>>
  /\ used = {} /\ writes = 0

MergeInit == args \in Inputs /\ MergeStart

(* definitions_set_current_list, which frees the index of the last list.    *)
FreedMutant(fi) == fi
Freed(fi) == Null

SetCurrentList ==
  /\ phase = "set" /\ pass < Len(Passes)
  /\ pass' = pass + 1
  /\ phase' = "search" /\ next' = 1
  /\ result' = AppendTo(result, Passes[pass + 1].domain, <<>>)
  /\ refmlp' = RefList(pass + 1)
  /\ lists' = <<DefList(pass + 1)>> \o args.compendiums
  /\ search_results' = [j \in 1..Len(refmlp') |-> Null]
  /\ curr_findex' = Freed(curr_findex)
  /\ UNCHANGED <<data, mergepc, jj, mp1, comp_findex, lock, used, writes>>

(***************************************************************************)
(* The parallel loop.  A thread takes the next iteration (the schedule is  *)
(* dynamic) and does the exact search; if that fails, the fuzzy searches.  *)
(***************************************************************************)
Finish(t, j, r) ==
  /\ search_results' = [search_results EXCEPT ![j] = r]
  /\ mergepc' = [mergepc EXCEPT ![t] = "idle"]

Iterate(t) ==
  /\ phase = "search" /\ mergepc[t] = "idle" /\ next <= Len(search_results)
  /\ jj' = [jj EXCEPT ![t] = next]
  /\ next' = next + 1
  /\ LET m     == refmlp[next]
         exact == message_list_list_search(lists, m.id)
     IN IF exact # None THEN Finish(t, next, [found |-> exact, fuzzy |-> FALSE])
        ELSE IF is_header(m) \/ ~args.use_fuzzy THEN Finish(t, next, Unmatched)
        ELSE mergepc' = [mergepc EXCEPT ![t] = "check_curr"] /\ UNCHANGED search_results
  /\ UNCHANGED <<data, phase, pass, refmlp, lists, mp1, findex, result, used, writes>>

LoopFrame == UNCHANGED <<data, phase, pass, next, refmlp, lists, result, used, writes>>

(* The test of the pointer without the lock.                                *)
Check(t, here, fi, missing, there) ==
  /\ mergepc[t] = here
  /\ mergepc' = [mergepc EXCEPT ![t] = IF fi = Null THEN missing ELSE there]
  /\ UNCHANGED <<jj, mp1, search_results, findex>>
  /\ LoopFrame

(* gl_lock_lock.                                                            *)
Lock(t, x, here, locked) ==
  /\ mergepc[t] = here /\ lock[x] = Null
  /\ lock' = [lock EXCEPT ![x] = t]
  /\ mergepc' = [mergepc EXCEPT ![t] = locked]
  /\ UNCHANGED <<jj, mp1, search_results, curr_findex, comp_findex>>
  /\ LoopFrame

(* The test under the lock, message_fuzzy_index_alloc and gl_lock_unlock.   *)
BuildCurr(t) ==
  /\ mergepc[t] = "build_curr"
  /\ curr_findex' = IF curr_findex = Null THEN Index(lists, {1}) ELSE curr_findex
  /\ lock' = [lock EXCEPT ![Curr] = Null]
  /\ mergepc' = [mergepc EXCEPT ![t] = "search_curr"]
  /\ UNCHANGED <<jj, mp1, search_results, comp_findex>> /\ LoopFrame

BuildComp(t) ==
  /\ mergepc[t] = "build_comp"
  /\ comp_findex' = IF comp_findex = Null THEN Index(lists, 2..Len(lists)) ELSE comp_findex
  /\ lock' = [lock EXCEPT ![Comp] = Null]
  /\ mergepc' = [mergepc EXCEPT ![t] = "search_comp"]
  /\ UNCHANGED <<jj, mp1, search_results, curr_findex>> /\ LoopFrame

Answer(best) == IF best = None THEN Unmatched ELSE [found |-> best, fuzzy |-> TRUE]

(* message_fuzzy_index_search in the index curr_findex points to.           *)
SearchCurr(t) ==
  /\ mergepc[t] = "search_curr"
  /\ LET best == FuzzySearch(curr_findex, refmlp[jj[t]].id, Threshold)
     IN /\ mp1' = [mp1 EXCEPT ![t] = best]
        /\ IF args.compendiums = <<>> THEN Finish(t, jj[t], Answer(best))
           ELSE mergepc' = [mergepc EXCEPT ![t] = "check_comp"] /\ UNCHANGED search_results
  /\ UNCHANGED <<jj, findex>> /\ LoopFrame

(* The same in the compendiums, where only a better match counts.           *)
SearchComp(t) ==
  /\ mergepc[t] = "search_comp"
  /\ LET id == refmlp[jj[t]].id
         mp2 == FuzzySearch(comp_findex, id, LowerBound(mp1[t], id))
     IN Finish(t, jj[t], Answer(IF mp2 = None THEN mp1[t] ELSE mp2))
  /\ UNCHANGED <<jj, mp1, findex>> /\ LoopFrame

Thread(t) ==
  \/ Iterate(t)
  \/ Check(t, "check_curr", curr_findex, "lock_curr", "search_curr")
  \/ Lock(t, Curr, "lock_curr", "build_curr") \/ BuildCurr(t) \/ SearchCurr(t)
  \/ Check(t, "check_comp", comp_findex, "lock_comp", "search_comp")
  \/ Lock(t, Comp, "lock_comp", "build_comp") \/ BuildComp(t) \/ SearchComp(t)

(***************************************************************************)
(* The rest of the pass, by the main thread: the barrier at the end of the *)
(* loop, the merging loop and the postprocessing.                          *)
(***************************************************************************)
MergePass ==
  /\ phase = "search" /\ next > Len(search_results)
  /\ \A t \in MergeThreads : mergepc[t] = "idle"
  /\ LET merged == ElementsAt([j \in 1..Len(search_results) |-> Merged(j)], Appended)
         ok     == { j \in 1..Len(search_results) : search_results[j].found[1] = 1 }
     IN /\ result' = AppendTo(result, Passes[pass].domain, Postprocessed(merged))
        /\ used' = used \cup { <<Passes[pass].def, search_results[j].found[2]>> : j \in ok }
  /\ phase' = "set"
  /\ UNCHANGED <<data, pass, next, search, writes>>

(* definitions_destroy, before the loop over the definitions.               *)
DestroyDefinitions ==
  /\ phase = "set" /\ pass = Len(Passes)
  /\ phase' = "obsolete" /\ next' = 1
  /\ curr_findex' = Null /\ comp_findex' = Null
  /\ UNCHANGED <<data, pass, refmlp, lists, mergepc, jj, mp1, search_results,
                 lock, result, used, writes>>

(* One domain of that loop, and its end.                                    *)
KeepObsolete ==
  /\ phase = "obsolete" /\ next <= Len(def)
  /\ result' = IF Unused(next) = <<>> THEN result
               ELSE AppendTo(result, def[next].domain, Unused(next))
  /\ next' = next + 1
  /\ UNCHANGED <<data, phase, pass, search, used, writes>>

EndMerge ==
  /\ phase = "obsolete" /\ next > Len(def)
  /\ phase' = "write"
  /\ UNCHANGED <<data, pass, next, search, result, used, writes>>

(* main: the file is written if it changes.                                 *)
Write ==
  /\ phase = "write"
  /\ LET sorted == [d \in 1..Len(result) |->
                      [result[d] EXCEPT !.messages = SortedByObsolete(@)]]
     IN IF msgdomain_list_equal(def, sorted)
        THEN UNCHANGED <<file, writes>>
        ELSE /\ file' = [d \in 1..Len(result) |->
                           [result[d] EXCEPT !.messages = Printed(@)]]
             /\ writes' = writes + 1
  /\ phase' = "done"
  /\ UNCHANGED <<args, def, run, pass, next, search, result, used>>

(* The program is called again.                                             *)
Again ==
  /\ phase = "done" /\ run < Runs
  /\ run' = run + 1 /\ phase' = "set" /\ pass' = 0 /\ next' = 1
  /\ def' = ReadCatalog(file)
  /\ mergepc' = [t \in MergeThreads |-> "idle"]
  /\ jj' = [t \in MergeThreads |-> 0]
  /\ mp1' = [t \in MergeThreads |-> None]
  /\ search_results' = <<>> /\ refmlp' = <<>> /\ lists' = <<>>
  /\ curr_findex' = Null /\ comp_findex' = Null
  /\ lock' = [x \in {Curr, Comp} |-> Null]
  /\ result' = <<[domain |-> DefaultDomain, messages |-> <<>>]>>
  /\ used' = {}
  /\ UNCHANGED <<args, file, writes>>

Done == phase = "done" /\ run = Runs /\ UNCHANGED mergevars

Main ==
  \/ SetCurrentList \/ MergePass \/ DestroyDefinitions \/ KeepObsolete \/ EndMerge
  \/ Write \/ Again

MergeNext == Main \/ (\E t \in MergeThreads : Thread(t)) \/ Done

MergeSpec == MergeInit /\ [][MergeNext]_mergevars

----------------------------------------------------------------------------
(* Properties.                                                              *)

(* What a thread found for a message is what the loop would have found      *)
(* without any other thread, in the definitions of this pass: the result of *)
(* msgmerge does not depend on the schedule, and no search uses the fuzzy   *)
(* index of the domain before.                                              *)
SearchSound ==
  phase = "search" =>
    \A j \in 1..Len(search_results) :
      search_results[j] # Null => search_results[j] = SearchAlone(j)

Output(d) == Printed(result[d].messages)

(* Every translation of def.po is in the new file, in a live message or in  *)
(* an obsolete one; of several plural forms at least the first, which is    *)
(* what the postprocessing leaves when the plural goes.                     *)
NothingLost ==
  phase = "done" =>
    \A d \in 1..Len(def) : \A i \in 1..Len(def[d].messages) :
      LET m == def[d].messages[i]
      IN Translated(m) =>
           \E r \in 1..Len(result) : \E n \in 1..Len(Output(r)) :
             Output(r)[n].pos = m.pos /\ Output(r)[n].str[1] = m.str[1]

(* The reference is a template, as xgettext makes it.                       *)
IsTemplate ==
  \A p \in 1..Len(args.ref) : \A i \in 1..Len(args.ref[p].messages) :
    LET m == args.ref[p].messages[i]
    IN IF is_header(m) THEN ~m.obsolete /\ ~m.format ELSE ~Translated(m)

(* Of the definitions of the messages in the reference, msgfmt -c does not  *)
(* look at the obsolete ones and at those of the compendiums.  These do not *)
(* need it: their format strings are correct, and they have as many plural  *)
(* forms as the header entry declares that msgmerge takes.                  *)
Reliable(p) ==
  LET ll == <<DefList(p)>> \o args.compendiums
      h  == message_list_list_search(ll, Header)
  IN \A j \in 1..Len(RefList(p)) :
       LET r == RefList(p)[j]
           f == message_list_list_search(ll, r.id)
           m == ll[f[1]][f[2]]
       IN /\ f # None
          /\ f[1] = 1 => m.obsolete
          /\ m.plural = r.plural /\ Translated(m) /\ ~m.fuzzy
          => /\ m.format => ~FormatErrors(m.plural, m.str, m.range)
             /\ m.plural # NoPlural =>
                  /\ h # None /\ Translated(ll[h[1]][h[2]])
                  /\ Len(m.str) = ll[h[1]][h[2]].hdr.nplurals

Suitable == IsTemplate /\ \A p \in 1..Len(Passes) : Reliable(p)

(* msgmerge does not transform a PO file which passes "msgfmt -c" into one  *)
(* which does not, as message_merge's comment has it: neither by two        *)
(* messages with one msgid, nor by the number of plural forms, nor by       *)
(* format strings that are checked now and were not before.                 *)
ResultPassesCheck ==
  phase = "done" /\ (\A d \in 1..Len(def) : PassesCheck(def[d].messages))
    => \A r \in 1..Len(result) : PassesCheck(Output(r))

(* msgmerge -U does "nothing if def.po already up to date": a second run on *)
(* the same reference finds the file as it would write it.                  *)
UpdateSettles == run > 1 => writes <= 1
=============================================================================
