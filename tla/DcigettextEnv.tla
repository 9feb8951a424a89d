--------------------------- MODULE DcigettextEnv ----------------------------
(***************************************************************************)
(* Dcigettext in a program that changes what the lookup reads outside of   *)
(* the settings protected by _nl_state_lock: the environment variable      *)
(* LANGUAGE, by the idiom of the manual (gettext-tools/doc/gettext.texi,   *)
(* "gettext grok"), which increments _nl_msg_cat_cntr from the             *)
(* application, without a lock; and the global locale, by setlocale.       *)
(***************************************************************************)
EXTENDS Dcigettext

CONSTANT Uselocale  \* threads have locales of their own

ASSUME UselocaleAssumption == Uselocale \in BOOLEAN

\* nl_langinfo (NL_LOCALE_NAME (category)) is the thread's locale, else the global one.
CallInLocale(t) ==
  /\ Call(t)
  /\ Uselocale \/ args'[t].localename = globalLocale

Switching == {t \in Threads : pc[t] \in {"envLoad", "envStore"}}

(* setenv ("LANGUAGE", ..., 1)                                             *)
Setenv(t) ==
  /\ pc[t] = "idle"
  /\ cntr + Cardinality(Configurers \cup Switching) < MaxCntr
  /\ language' \in Languages \ {language}
  /\ Goto(t, "envLoad")
  /\ UNCHANGED <<lockVars, settingVars, globalLocale, tree, localVars>>

(* ++_nl_msg_cat_cntr: a load and a store.                                 *)
EnvLoad(t) ==
  /\ pc[t] = "envLoad"
  /\ update' = [update EXCEPT ![t].stamp = cntr]
  /\ Goto(t, "envStore")
  /\ UNCHANGED <<lockVars, settingVars, envVars, tree, args, domainname, foundp, search,
                 result>>

EnvStore(t) ==
  /\ pc[t] = "envStore"
  /\ cntr' = update[t].stamp + 1
  /\ Return(t)
  /\ UNCHANGED <<lockVars, defaultDomain, freed, bindings, envVars, tree>>

(* setlocale (LC_ALL, name): the counter is left alone.                    *)
Setlocale(t) ==
  /\ pc[t] = "idle"
  /\ globalLocale' \in Locales \ {globalLocale}
  /\ UNCHANGED <<lockVars, settingVars, language, tree, pc, localVars>>

EnvNext == \E t \in Threads :
  \/ CallInLocale(t) \/ Lookup(t) \/ Configure(t) \/ Settings(t)
  \/ Setenv(t) \/ EnvLoad(t) \/ EnvStore(t) \/ Setlocale(t)

EnvSpec == Init /\ [][EnvNext]_vars

-----------------------------------------------------------------------------
(* Properties.  AnswerCurrent holds of a program with one thread, however  *)
(* it mixes lookups, changes of LANGUAGE and calls of setlocale.           *)

(* "Make change known" (gettext.texi:6692): once LANGUAGE is changed and   *)
(* the counter incremented, no entry with a current counter says something *)
(* that the new list of languages would not give.  Without names of        *)
(* threads' locales only the entries of the global locale are meant.       *)
ChangeKnown ==
  Switching = {} /\ stateWriter = Null =>
    \A k \in {key \in Keys : ThreadNames \/ key.localename = globalLocale} :
      tree[k] # Null /\ tree[k].counter = cntr =>
        IsTranslation(k, EntrySays(k)) \/ BeingUpdated(k)
=============================================================================
