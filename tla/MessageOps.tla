----------------------------- MODULE MessageOps -----------------------------
(***************************************************************************)
(* Messages and lists of messages of the gettext tools (message.c,         *)
(* msgl-equal.c, plural-count.c, msgl-check.c), as operators.              *)
(*                                                                         *)
(* A message is a record:                                                  *)
(*   id        the pair of msgctxt and msgid, one value                    *)
(*   plural    msgid_plural, or NoPlural                                   *)
(*   str       msgstr: a sequence of texts, one for each plural form       *)
(*   hdr       of the header entry, the fields of its msgstr               *)
(*   fuzzy, obsolete                                                       *)
(*   format    whether it is possibly a format string (one of NFORMATS)    *)
(*   range     a pair <<min, max>>, or NoRange                             *)
(*   prev      the previous msgid, or NoId                                 *)
(*   pos       where its msgstr was read                                   *)
(* Of a text it matters whether it is empty and, for format strings, that  *)
(* it uses each argument ("full") or leaves one out ("part").              *)
(***************************************************************************)
EXTENDS Naturals, Sequences, SequencesExt, FiniteSets

CONSTANTS
  Header,      \* the id of the header entry: no msgctxt, msgid ""
  NoId,
  NoPlural,
  NoRange,
  PluralForm,  \* the form for a number, by the formula of every header
  Often        \* of each form, whether infinitely many numbers have it

(***************************************************************************)
(* The header entry's fields: the number of plural forms, the date of the  *)
(* POT file and the language; 0 stands for a field that is absent.         *)
(***************************************************************************)
NoFields == [nplurals |-> 0, potdate |-> 0, language |-> 0]

is_header(m) == m.id = Header

Translated(m) == m.str[1] # ""

(* is_untranslated of match_domain: all forms are empty. *)
AllEmpty(m) == \A n \in 1..Len(m.str) : m.str[n] = ""

(* message_copy: the fields it copies; the others are those message_alloc  *)
(* sets.                                                                   *)
message_copy(m) == [m EXCEPT !.obsolete = FALSE]

(* The elements of s whose index is in I, in their order.                   *)
ElementsAt(s, I) == FlattenSeq([i \in 1..Len(s) |-> IF i \in I THEN <<s[i]>> ELSE <<>>])

(***************************************************************************)
(* message_list_search, as an index into the list, 0 if there is none.     *)
(***************************************************************************)
message_list_search(l, id) == SelectInSeq(l, LAMBDA m : m.id = id)

(***************************************************************************)
(* message_list_list_search: the first translated message, or else the     *)
(* first one, among those of the lists with this id; as a pair of indices, *)
(* <<0, 0>> if there is none.                                              *)
(***************************************************************************)
Weight(m) == IF m.str = <<"">> THEN 1 ELSE 2

message_list_list_search(ll, id) ==
  LET At(l) == message_list_search(ll[l], id)
      W(l)  == IF At(l) = 0 THEN 0 ELSE Weight(ll[l][At(l)])
      best  == { l \in 1..Len(ll) :
                   /\ W(l) > 0
                   /\ \A o \in 1..Len(ll) : W(o) < W(l) \/ (W(o) = W(l) /\ l <= o) }
  IN IF best = {} THEN <<0, 0>>
     ELSE LET l == CHOOSE l \in best : TRUE IN <<l, At(l)>>

(***************************************************************************)
(* extract_plural_expression: the number of plural forms a header entry    *)
(* declares, 2 if it declares none or there is no header.                  *)
(***************************************************************************)
get_plural_count(l) ==
  LET h == message_list_search(l, Header)
  IN IF h # 0 /\ l[h].hdr.nplurals # 0 THEN l[h].hdr.nplurals ELSE 2

(***************************************************************************)
(* check_msgid_msgstr_format_i: every form of msgstr must use the          *)
(* arguments of msgid.  A form of a plural may leave the number out unless *)
(* it belongs to infinitely many numbers, of which the range admits more   *)
(* than one.                                                               *)
(***************************************************************************)
Histogram(range, j) == Cardinality({ n \in range[1]..range[2] : PluralForm[n] = j })

StrictChecking(plural, str, range, j) ==
  \/ plural = NoPlural \/ Len(str) = 1
  \/ /\ j <= Len(Often) /\ Often[j]
     /\ ~(range # NoRange /\ Histogram(range, j) <= 1)

FormatErrors(plural, str, range) ==
  \E j \in 1..Len(str) : str[j] # "full" /\ StrictChecking(plural, str, range, j)

(***************************************************************************)
(* msgfmt -c: the reader refuses a second message with the id of another   *)
(* one, obsolete or not; untranslated, fuzzy and obsolete messages are not *)
(* looked at any further; check_plural wants the number of plural forms    *)
(* the header declares, check_pair correct format strings.                 *)
(***************************************************************************)
Checked(l) == { i \in 1..Len(l) : /\ ~l[i].obsolete
                                  /\ Translated(l[i])
                                  /\ l[i].fuzzy => is_header(l[i]) }

HasDuplicates(l) == \E i, j \in 1..Len(l) : i # j /\ l[i].id = l[j].id

PluralErrors(l) ==
  LET h == { i \in Checked(l) : is_header(l[i]) }
  IN \E i \in Checked(l) :
       /\ l[i].plural # NoPlural
       /\ \A n \in h : Len(l[i].str) # l[n].hdr.nplurals

PassesCheck(l) ==
  /\ ~HasDuplicates(l)
  /\ ~PluralErrors(l)
  /\ \A i \in Checked(l) :
       l[i].format => ~FormatErrors(l[i].plural, l[i].str, l[i].range)

(***************************************************************************)
(* msgdomain_list_equal with ignore_potcdate.                              *)
(***************************************************************************)
ForgetPotDate(mdl) ==
  [d \in 1..Len(mdl) |->
     [domain   |-> mdl[d].domain,
      messages |-> [i \in 1..Len(mdl[d].messages) |->
                      [mdl[d].messages[i] EXCEPT
                         !.hdr.potdate = IF @ = 0 THEN 0 ELSE 1]]]]

msgdomain_list_equal(a, b) == ForgetPotDate(a) = ForgetPotDate(b)

(***************************************************************************)
(* The file that msgdomain_list_print_po writes: for every domain the live *)
(* messages, then the obsolete ones that have a msgstr.  The fuzzy mark is *)
(* left out where there is no msgstr; an obsolete message has no other.    *)
(***************************************************************************)
Obsolete(l) == { i \in 1..Len(l) : l[i].obsolete }

SortedByObsolete(l) ==
  ElementsAt(l, (1..Len(l)) \ Obsolete(l)) \o ElementsAt(l, Obsolete(l))

message_print(m) == [m EXCEPT !.fuzzy = @ /\ Translated(m)]

message_print_obsolete(m) == [m EXCEPT !.format = FALSE, !.range = NoRange]

Printed(l) ==
  LET sorted  == SortedByObsolete(l)
      written == ElementsAt(sorted, { i \in 1..Len(sorted) :
                                        sorted[i].obsolete => Translated(sorted[i]) })
  IN [i \in 1..Len(written) |-> IF written[i].obsolete THEN message_print_obsolete(written[i])
                                ELSE message_print(written[i])]
=============================================================================
