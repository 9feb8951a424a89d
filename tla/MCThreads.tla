----------------------------- MODULE MCThreads ------------------------------
(***************************************************************************)
(* Small instances, for TLC, of the components in which threads or         *)
(* processes meet: FindMsg, GlRwLock, GlOnce, Log, LocaleAlias and Filter. *)
(* They share no state; a behavior is one of the component that "which"    *)
(* names, while all others stay in an initial state.                       *)
(***************************************************************************)
EXTENDS FindMsgInv, GlRwLock, GlOnce, Log, LocaleAlias, Filter

CONSTANTS Components, t1, t2, t3, t4, de, de_AT, utf8, latin1, a, b, c, d, v, w

VARIABLE which

(* FindMsg: the catalogs of a language and of its national variant.         *)
MCFiles == {de, de_AT}
MCSuccessors == [f \in MCFiles |-> IF f = de_AT THEN <<de>> ELSE <<>>]

(* LocaleAlias: three files, the second of which cannot be opened.  A name  *)
(* is defined twice.                                                        *)
Line(name, value) == [alias |-> name, value |-> value]
MCAliasFiles == << <<Line(a, v)>>, <<>>, <<Line(b, w), Line(a, w), Line(c, v)>> >>

(* Filter: messages of one or two strings, and a header entry that is kept; *)
(* filters that answer more than fits into the pipes, NUL bytes or nothing, *)
(* with or without reading.                                                 *)
Job(lengths, outputs, kept, reads_all, have_select) ==
  [lengths |-> lengths, outputs |-> outputs, kept |-> kept, reads_all |-> reads_all,
   have_select |-> have_select]
Bytes(n) == [i \in 1..n |-> "byte"]

MCJobs ==
  { Job(l, o, FALSE, r, s) :
      l \in {<<1>>, <<3>>, <<2, 0>>},
      o \in { <<Bytes(5), Bytes(1)>>, << <<"byte", "NUL", "byte", "NUL">>, <<>> >>,
              << <<>>, Bytes(1)>> },
      r \in BOOLEAN, s \in BOOLEAN }
    \cup {Job(<<1>>, <<Bytes(1)>>, TRUE, TRUE, TRUE)}

(* An empty string, which the filter answers with up to three bytes.        *)
EmptyStringJobs == { Job(<<0>>, <<Bytes(n)>>, FALSE, TRUE, TRUE) : n \in 0..3 }

ThreadsInit ==
  /\ which \in Components
  /\ Init /\ RwInit /\ OnceInit /\ LogInit /\ AliasInit /\ FilterInit
  /\ which = "Filter" \/ job = CHOOSE j \in FilterInputs : TRUE
  /\ which = "FindMsg" \/ charset = CHOOSE e \in Encodings : TRUE
  /\ which = "GlOnce" \/ flavor = CHOOSE f \in OnceFlavors : TRUE

Only(component) == which = component /\ UNCHANGED which

ThreadsNext ==
  \/ /\ Only("FindMsg") /\ Next
     /\ UNCHANGED <<rwvars, oncevars, logvars, aliasvars, filtervars>>
  \/ /\ Only("GlRwLock") /\ RwNext
     /\ UNCHANGED <<vars, oncevars, logvars, aliasvars, filtervars>>
  \/ /\ Only("GlOnce") /\ OnceNext
     /\ UNCHANGED <<vars, rwvars, logvars, aliasvars, filtervars>>
  \/ /\ Only("Log") /\ LogNext
     /\ UNCHANGED <<vars, rwvars, oncevars, aliasvars, filtervars>>
  \/ /\ Only("LocaleAlias") /\ AliasNext
     /\ UNCHANGED <<vars, rwvars, oncevars, logvars, filtervars>>
  \/ /\ Only("Filter") /\ FilterNext
     /\ UNCHANGED <<vars, rwvars, oncevars, logvars, aliasvars>>

ThreadsSpec ==
  /\ ThreadsInit
  /\ [][ThreadsNext]_<<which, vars, rwvars, oncevars, logvars, aliasvars, filtervars>>
  /\ Fairness /\ RwFairness /\ FilterFairness
=============================================================================
