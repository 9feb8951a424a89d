------------------------------- MODULE Plural -------------------------------
(***************************************************************************)
(* Plural forms: msgfmt -c tries the formula of a catalog on small numbers *)
(* (check_plural_eval, msgl-check.c), libintl evaluates it for any number  *)
(* (plural_eval, eval-plural.h) and goes to the string with that index     *)
(* (plural_lookup, dcigettext.c).                                          *)
(*                                                                         *)
(* What the value of a formula is, is left to PluralEval.                  *)
(***************************************************************************)
EXTENDS Integers, Sequences

CONSTANTS
  Word,          \* an unsigned long is below it; 2^64
  CheckLimit,    \* msgfmt tries the numbers up to this one; 1000
  FormulaInputs, \* records [formula, nplurals, lengths]; the lengths are those
                 \* of the strings of one translation
  Numbers,       \* the arguments of ngettext
  Eval(_, _)     \* the value of a formula for a number, or SIGFPE

(* A division by zero raises SIGFPE.                                        *)
SIGFPE == -1

ASSUME PluralAssumption ==
  /\ Word \in Nat /\ CheckLimit \in 0..((Word \div 2) - 1)
  /\ Numbers \subseteq 0..(Word - 1)
  /\ \A in \in FormulaInputs :
       /\ in.nplurals \in Nat /\ in.lengths \in Seq(Nat) \ {<<>>}
       /\ \A m \in Numbers \cup 0..CheckLimit : Eval(in.formula, m) \in 0..(Word - 1) \cup {SIGFPE}

VARIABLES
  catalog,   \* the member of FormulaInputs
  plpc,      \* "check", "ready", "skip", "answer", "killed"
  accepted,  \* msgfmt -c has found no error
  plnum,     \* the number the formula is applied to
  skipped,   \* plural_lookup: how many strings it still skips,
  plptr      \* and its pointer, an offset into the translation

pluralvars == <<catalog, plpc, accepted, plnum, skipped, plptr>>

----------------------------------------------------------------------------
Value_(m) == Eval(catalog.formula, m)

PluralInit ==
  /\ catalog \in FormulaInputs
  /\ plpc = "check" /\ accepted = FALSE
  /\ plnum = 0 /\ skipped = 0 /\ plptr = 0

----------------------------------------------------------------------------
(* check_plural_eval: an exception, a negative value or one that is too     *)
(* large is an error.  For an nplurals of 0, all values are.                *)
Refused(val) == val = SIGFPE \/ val >= Word \div 2 \/ val >= catalog.nplurals

Try ==
  /\ plpc = "check" /\ plnum <= CheckLimit
  /\ IF Refused(Value_(plnum))
     THEN plpc' = "ready" /\ plnum' = 0
     ELSE plnum' = plnum + 1 /\ UNCHANGED plpc
  /\ UNCHANGED <<catalog, accepted, skipped, plptr>>

Accept ==
  /\ plpc = "check" /\ plnum > CheckLimit
  /\ plpc' = "ready" /\ accepted' = TRUE /\ plnum' = 0
  /\ UNCHANGED <<catalog, skipped, plptr>>

----------------------------------------------------------------------------
(* plural_lookup, in any catalog: nobody is obliged to check it before.     *)
PluralLookup(m) ==
  /\ plpc = "ready"
  /\ plnum' = m /\ plptr' = 0
  /\ \/ /\ Value_(m) = SIGFPE
        /\ plpc' = "killed" /\ UNCHANGED skipped
     \/ /\ Value_(m) # SIGFPE
        /\ plpc' = "skip"
        /\ skipped' = IF Value_(m) >= catalog.nplurals THEN 0 ELSE Value_(m)
  /\ UNCHANGED <<catalog, accepted>>

(* The offset at which string i starts.                                     *)
StartOf[i \in DOMAIN catalog.lengths] ==
  IF i = 1 THEN 0 ELSE StartOf[i - 1] + catalog.lengths[i - 1] + 1
Starts == { StartOf[i] : i \in DOMAIN catalog.lengths }
translation_len ==
  LET last == Len(catalog.lengths)
  IN StartOf[last] + catalog.lengths[last] + 1

(* strchr (plptr, '\0') + 1.                                                *)
AfterNul(q) ==
  CHOOSE r \in (Starts \cup {translation_len}) :
    r > q /\ \A s \in Starts : s > q => r <= s

PastEndMutant(q) == q > translation_len
PastEnd(q) == q >= translation_len

SkipString ==
  /\ plpc = "skip" /\ skipped > 0
  /\ IF PastEnd(AfterNul(plptr))
     THEN plptr' = 0 /\ skipped' = 0 /\ plpc' = "answer"
     ELSE plptr' = AfterNul(plptr) /\ skipped' = skipped - 1 /\ UNCHANGED plpc
  /\ UNCHANGED <<catalog, accepted, plnum>>

EndSkip ==
  /\ plpc = "skip" /\ skipped = 0
  /\ plpc' = "answer"
  /\ UNCHANGED <<catalog, accepted, plnum, skipped, plptr>>

PluralReturn ==
  /\ plpc = "answer"
  /\ plpc' = "ready" /\ plnum' = 0 /\ plptr' = 0
  /\ UNCHANGED <<catalog, accepted, skipped>>

PluralNext ==
  \/ Try \/ Accept \/ (\E m \in Numbers : PluralLookup(m))
  \/ SkipString \/ EndSkip \/ PluralReturn

PluralSpec == PluralInit /\ [][PluralNext]_pluralvars

----------------------------------------------------------------------------
(* Properties.                                                              *)

(* ngettext returns one of the strings of the translation, whatever the     *)
(* formula, nplurals and the number of strings are.  In a catalog that      *)
(* msgfmt -c has accepted, for the numbers it has tried, it is the one the  *)
(* formula says, and the formula does not kill the program.                 *)
FormSelected ==
  /\ plpc = "answer" => plptr \in Starts
  /\ accepted /\ plnum <= CheckLimit /\ Len(catalog.lengths) = catalog.nplurals =>
       /\ plpc # "killed"
       /\ plpc = "answer" => plptr = StartOf[Value_(plnum) + 1]
=============================================================================
