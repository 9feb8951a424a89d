--------------------------- MODULE GettextService ---------------------------
(***************************************************************************)
(* What libintl promises the threads of a program, without its cache, its  *)
(* counter and its locks.  The settings in force give every message (key)  *)
(* its translations: at most one, and others that take its place if memory *)
(* or a conversion fail that one.  A call of gettext takes effect at one   *)
(* moment between its beginning and its end, and the settings do not       *)
(* change meanwhile.  Its answer is a translation in force, or none, but   *)
(* for two weaknesses, which are part of the promise.                      *)
(*                                                                         *)
(* Where a message has several translations, the catalog of one may be     *)
(* taken for that of another.  And while another call for the same message *)
(* is in progress, the answer may be put together from what settings in    *)
(* force earlier gave.                                                     *)
(***************************************************************************)
CONSTANTS Threads, Domains, Msgids, Locales, Answers, Null

Keys == [msgid : Msgids, domainname : Domains, localename : Locales]

VARIABLES
  default,  \* the default domain
  says,     \* the translations in force of every key
  past,     \* all the values says has had
  calls     \* the call each thread is in

NoCall == [status |-> "idle", key |-> Null, answer |-> Null]

vars == <<default, says, past, calls>>

InProgress(t) == calls[t].status \in {"begun", "answered"}

Init ==
  /\ default \in Domains
  /\ says \in [Keys -> SUBSET Answers]
  /\ past = {says}
  /\ calls = [t \in Threads |-> NoCall]

(* gettext (msgid) in the default domain, or dgettext (domain, msgid).     *)
Begin(t) ==
  /\ calls[t].status = "called"
  /\ LET k == calls[t].key
         d == IF k.domainname = Null THEN default ELSE k.domainname
         asked == [msgid |-> k.msgid, domainname |-> d, localename |-> k.localename]
     IN  calls' = [calls EXCEPT ![t] = [status |-> "begun", key |-> asked, answer |-> Null]]
  /\ UNCHANGED <<default, says, past>>

Call(t) ==
  /\ calls[t].status = "idle"
  /\ \E k \in [msgid : Msgids, domainname : Domains \cup {Null}, localename : Locales] :
       calls' = [calls EXCEPT ![t] = [status |-> "called", key |-> k, answer |-> Null]]
  /\ UNCHANGED <<default, says, past>>

Contended(t) == \E u \in Threads \ {t} : InProgress(u) /\ calls[u].key = calls[t].key

Earlier(k) == UNION {f[k] : f \in past}
Mix(a, b)  == [domain |-> a.domain, translation |-> b.translation]
Mixed(S)   == {Mix(a, b) : a \in S, b \in S}

Answer(t) ==
  /\ calls[t].status = "begun"
  /\ LET k == calls[t].key
     IN  \E a \in {Null} \cup Mixed(IF Contended(t) THEN Earlier(k) ELSE says[k]) :
           calls' = [calls EXCEPT ![t] = [status |-> "answered", key |-> k, answer |-> a]]
  /\ UNCHANGED <<default, says, past>>

Return(t) ==
  /\ calls[t].status = "answered"
  /\ calls' = [calls EXCEPT ![t] = NoCall]
  /\ UNCHANGED <<default, says, past>>

(* textdomain, bindtextdomain, bind_textdomain_codeset.                    *)
Change ==
  /\ \A t \in Threads : ~InProgress(t)
  /\ default' \in Domains
  /\ says' \in [Keys -> SUBSET Answers]
  /\ past' = past \cup {says'}
  /\ UNCHANGED calls

Next == Change \/ \E t \in Threads : Call(t) \/ Begin(t) \/ Answer(t) \/ Return(t)

Spec == Init /\ [][Next]_vars
=============================================================================
