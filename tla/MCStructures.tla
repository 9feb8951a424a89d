---------------------------- MODULE MCStructures ----------------------------
(***************************************************************************)
(* Small instances, for TLC, of the components around a data structure:    *)
(* L10nFlist, WinRwLock, HashTable, MoFile, Plural, MessageList, Msgmerge, *)
(* Catenate, TermOstream, LispFormat.  They share no state; a behavior is one of the   *)
(* component that "which" names, while all others stay in an initial       *)
(* state.  Threads t1 and t2 do the same wherever they are.                *)
(***************************************************************************)
EXTENDS L10nFlist, WinRwLock, HashTable, MoFile, PluralEval, MessageList, Msgmerge, Catenate,
        TermOstream, LispMeaning

CONSTANTS
  Components,                                  \* the components that are checked
  t1, t2, t3, t4, t5,                          \* threads
  de, german, DE, UTF8, utf8, euro,            \* L10nFlist
  k1, k2, k3, k4, k5, d1, d2,                  \* HashTable
  header, ascii, u1, u2,                       \* MessageList
  A, B, C, P, Domain2,                         \* Msgmerge
  latin1, sjis                                 \* Catenate

VARIABLE which

MCSymmetry == Permutations({t1, t2})

----------------------------------------------------------------------------
(* L10nFlist: de_DE.UTF-8, de.utf8, de_DE@euro, and german, an alias of     *)
(* de_DE.UTF-8@euro; catalogs for de_DE@euro, de_DE, de.utf8 and de.        *)
Locale(language, territory, codeset, modifier) ==
  [language |-> language, territory |-> territory, codeset |-> codeset, modifier |-> modifier]

MCLocales == {Locale(de, DE, UTF8, L10nNull), Locale(de, L10nNull, utf8, L10nNull),
              Locale(de, DE, L10nNull, euro), Locale(german, L10nNull, L10nNull, L10nNull)}
MCAliases == [l \in {Locale(german, L10nNull, L10nNull, L10nNull)} |-> Locale(de, DE, UTF8, euro)]
MCNormalized == [c \in {UTF8, utf8} |-> utf8]

CatalogFile(territory, codesets, modifier) ==
  [language |-> de, territory |-> territory, codesets |-> codesets, modifier |-> modifier]

MCCatalogs ==
  {CatalogFile(DE, {}, euro), CatalogFile(DE, {}, L10nNull),
   CatalogFile(L10nNull, {utf8}, L10nNull), CatalogFile(L10nNull, {}, L10nNull)}

(* WinRwLock: five writers, so that the circular array wraps around and     *)
(* grows; three threads that read and write.                                *)
MCWinPrograms == { {t1, t2, t3, t4, t5} \X {"wr"}, {t1, t2, t3} \X {"rd", "wr"} }

(* HashTable: hash values that differ, that are all the same, and that      *)
(* collide in pairs.                                                        *)
MCHashKeys == {k1, k2, k3, k4, k5}
Number(k) == CASE k = k1 -> 1 [] k = k2 -> 2 [] k = k3 -> 3 [] k = k4 -> 4 [] k = k5 -> 5
MCHashFunctions ==
  { [k \in MCHashKeys |-> Number(k)], [k \in MCHashKeys |-> 7],
    [k \in MCHashKeys |-> 5 * (Number(k) \div 2) + 1] }
MCHashRequests ==
  [op : {"insert", "find"}, key : MCHashKeys, data : {d1}]
    \cup [op : {"set"}, key : {k1, k2}, data : {d2}]

(* MoFile: hash values that differ, that are all the same, and that collide *)
(* in part; up to six static strings, or up to four and up to three system  *)
(* dependent ones.                                                          *)
MCMoKeys == 1..7
MCMoHashes ==
  { [k \in MCMoKeys |-> k], [k \in MCMoKeys |-> 11],
    [k \in MCMoKeys |-> IF k % 2 = 0 THEN 5 ELSE 2 * k] }
MCMoInputs ==
  [static : SUBSET (1..6), sysdep : {<<>>}, no_hash_table : BOOLEAN]
    \cup [static : SUBSET (1..4), no_hash_table : {FALSE},
          sysdep : {<<0>>, <<5>>, <<2, 5>>, <<0, 5>>, <<5, 6, 0>>}]

----------------------------------------------------------------------------
(* Plural: a formula with one operation, of every kind, and some larger     *)
(* ones, that divide by zero for some numbers.                              *)
Var == [operation |-> "var"]
Num(k) == [operation |-> "num", num |-> k]
Op(o, x, y) == [operation |-> o, args |-> <<x, y>>]
Operations ==
  {"mult", "plus", "minus", "divide", "module", "less_than", "greater_than",
   "less_or_equal", "greater_or_equal", "equal", "not_equal", "lor", "land"}
Operands == {Var, Num(1), Num(2)}

Formulas ==
  { Op(o, x, y) : o \in Operations, x \in Operands, y \in Operands } \cup
  { [operation |-> "qmop",
     args |-> << Op("land", Op("equal", Op("module", Var, Num(10)), Num(1)),
                            Op("not_equal", Var, Num(11))),
                 Num(0), Op("divide", Num(20), Op("minus", Num(30), Var)) >>],
    [operation |-> "lnot", args |-> <<Op("minus", Var, Num(1))>>],
    [operation |-> "qmop", args |-> <<Var, Op("divide", Var, Op("minus", Var, Num(30))), Num(0)>>] }

MCFormulaInputs ==
  [formula : Formulas, nplurals : 0..3, lengths : {<<1>>, <<1, 0>>, <<0, 2, 1>>}]

----------------------------------------------------------------------------
(* MessageList.                                                             *)
MCKeys == {header, ascii, u1, u2}
Conversion(x, y) == [k \in MCKeys |-> IF k = u1 THEN x ELSE IF k = u2 THEN y ELSE k]
Conversions == {Conversion(u1, u2), Conversion(u2, u1), Conversion(u2, u2), Conversion(ascii, u2)}

Messages ==
  [key : {header, ascii}, obsolete : BOOLEAN] \cup [key : {u1, u2}, obsolete : {FALSE}]
POFiles == { <<>> } \cup UNION { [1..n -> Messages] : n \in 1..3 }

Reads(program, files, duplicates, conversions) ==
  [program : {program}, file : files, allow_duplicates : {duplicates}, conversion : conversions]

(* msginit is not called with a header entry that is obsolete.  msguniq     *)
(* works as msgcat, with duplicates.  A program that uses the library fills *)
(* a list that it has created.                                              *)
MCListInputs ==
  Reads("msgconv", POFiles, FALSE, Conversions)
    \cup Reads("msgcmp", POFiles, FALSE, Conversions)
    \cup Reads("msgcat", POFiles, FALSE, Conversions)
    \cup Reads("msgcat", POFiles, TRUE, Conversions)
    \cup Reads("html", POFiles, FALSE, Conversions)
    \cup Reads("msgattrib", POFiles, FALSE, {Conversion(u1, u2)})
    \cup Reads("msgfmt", POFiles, FALSE, {Conversion(u1, u2)})
    \cup Reads("msgmerge", POFiles, FALSE, {Conversion(u1, u2)})
    \cup Reads("msginit",
               { f \in POFiles : \A n \in DOMAIN f : f[n].key = header => ~f[n].obsolete },
               FALSE, {Conversion(u1, u2)})
    \cup Reads("library", {<<>>}, TRUE, {Conversion(u1, u2)})

(* msginit on a file whose only header entry is obsolete.                   *)
MsginitInputs ==
  Reads("msginit", { <<[key |-> header, obsolete |-> TRUE]>> \o f : f \in POFiles },
        FALSE, {Conversion(u1, u2)})

----------------------------------------------------------------------------
(* Msgmerge: messages A, B and C, of which A resembles B and, less, C.      *)
MCIds == {Header, A, B, C}
MCSimilarity ==
  [a \in MCIds |-> [b \in MCIds |-> IF {a, b} = {A, B} THEN 3
                                    ELSE IF {a, b} = {A, C} THEN 2 ELSE 0]]

(* The formula n%10==1 && n%100!=11 ? 0 : 1.                                *)
MCPluralForm == [n \in 0..29 |-> IF n % 10 = 1 /\ n # 11 THEN 1 ELSE 2]
MCOften == <<TRUE, TRUE>>

M(id) == [DummyHeader EXCEPT !.id = id, !.pos = <<"ref", 0, id>>]
T(id) == [M(id) EXCEPT !.str = <<"full">>]
H(n, date) == [T(Header) EXCEPT !.hdr = [NoFields EXCEPT !.nplurals = n, !.potdate = date]]
Plural(m, str) == [m EXCEPT !.plural = P, !.str = str]
Ranged(m, max) == [m EXCEPT !.range = <<0, max>>]

(* A message of def.po: translated, untranslated, fuzzy, obsolete, a        *)
(* plural, or what looks like a bad format string and is not marked as one. *)
Definitions(id) ==
  { <<>>, <<M(id)>>, <<T(id)>>,
    <<[T(id) EXCEPT !.fuzzy = TRUE, !.prev = C]>>,
    <<[T(id) EXCEPT !.obsolete = TRUE]>>,
    <<[T(id) EXCEPT !.str = <<"part">>]>>,
    <<Plural(M(id), <<"full", "full">>)>>,
    <<Plural(M(id), <<"", "">>)>>,
    <<Ranged(Plural([T(id) EXCEPT !.format = TRUE], <<"part", "full">>), 1)>> }

Other(id) == { <<>>, <<T(id)>>, <<M(id)>> }

(* A message of ref.pot.                                                    *)
References(id) ==
  { <<>>, <<M(id)>>, <<[M(id) EXCEPT !.format = TRUE]>>, <<Plural(M(id), <<"", "">>)>>,
    <<Ranged(Plural([M(id) EXCEPT !.format = TRUE], <<"", "">>), 29)>> }

(* A compendium has as many plural forms as def.po.                         *)
Compendia ==
  { <<>>, << <<T(C)>> >>, << <<H(2, 1), T(A)>> >>,
    << <<T(C)>>, <<Plural(M(B), <<"full", "full">>)>> >> }

File(l) == <<[domain |-> DefaultDomain, messages |-> l]>>
In(d, r, c, m) ==
  [def |-> d, ref |-> r, compendiums |-> c, multi_domain |-> m,
   use_fuzzy |-> TRUE, previous |-> TRUE, lang |-> 0]

SmallInputs ==
  { In(File(<<H(2, 1)>> \o a \o b), File(<<H(0, 2)>> \o x \o y), c, FALSE) :
      a \in Definitions(A), b \in Other(B),
      x \in References(A), y \in References(B), c \in Compendia }

(* Two domains, of which the reference has one or both; no header entry;    *)
(* options.                                                                 *)
Second(l) == <<[domain |-> Domain2, messages |-> l]>>
DomainInputs ==
  { In(File(h \o <<T(A)>>) \o Second(<<H(3, 1), T(C)>>), File(<<M(A), M(B)>>) \o s, c, m) :
      h \in {<<>>, <<H(2, 1)>>}, s \in {<<>>, Second(<<M(A)>>)}, c \in Compendia,
      m \in BOOLEAN }

OptionInputs ==
  { [In(File(<<H(2, 1), T(A), Plural(M(C), <<"full", "full">>)>>),
        File(<<H(0, 2), M(B), M(C)>>), <<>>, FALSE)
       EXCEPT !.use_fuzzy = f, !.previous = p, !.lang = l] :
       f \in BOOLEAN, p \in BOOLEAN, l \in 0..1 }

(* message_list_list_search takes an untranslated plural for a translation, *)
(* which then hides the one in the compendium.                              *)
Hides(in) ==
  \E d \in 1..Len(in.def) : \E i \in 1..Len(in.def[d].messages) :
    LET m == in.def[d].messages[i]
    IN /\ ~Translated(m) /\ Len(m.str) > 1
       /\ \E c \in 1..Len(in.compendiums) :
            LET n == message_list_search(in.compendiums[c], m.id)
            IN n # 0 /\ Translated(in.compendiums[c][n])

MCInputs ==
  { in \in SmallInputs \cup DomainInputs \cup OptionInputs : ~Hides(in) }

(* A message whose definition is obsolete, with one plural form too many,   *)
(* comes back in the reference.                                             *)
ObsoleteInputs ==
  { In(File(<<H(2, 1), [Plural(M(A), [i \in 1..n |-> "full"]) EXCEPT !.obsolete = TRUE]>> \o b),
       File(<<H(0, 2), Plural(M(A), <<"", "">>)>>), <<>>, FALSE) :
      n \in {2, 3}, b \in Other(B) }

----------------------------------------------------------------------------
(* Catenate: a message and one whose msgid is not ASCII, in four encodings, *)
(* of which Shift_JIS is not compatible with ASCII.                         *)
MCRepertoire ==
  [e \in {po_charset_ascii, po_charset_utf8, latin1, sjis} |->
     {HeaderId, NoChars, "title", "A", "t", "u"}
       \cup (IF e \in {po_charset_utf8, latin1} THEN {"umlaut"} ELSE {})
       \cup (IF e \in {po_charset_utf8, sjis} THEN {"kana"} ELSE {})]
MCInvariant == {HeaderId, NoChars, "title", "A"}
MCAsciiCompatible == {po_charset_ascii, po_charset_utf8, latin1}
Special(e) == IF e = sjis THEN "kana" ELSE "umlaut"

Defined(chars, e, str, line) ==
  [id |-> Text(chars, e, NoCode),
   str |-> [i \in DOMAIN str |-> Text(str[i], e, NoCode)],
   fuzzy |-> FALSE, obsolete |-> FALSE, comment |-> <<>>, filepos |-> {line}]
Fuzzy(m) == [m EXCEPT !.fuzzy = TRUE]

(* A header entry with and without a charset.                               *)
HeaderEntry(e) ==
  [Defined(HeaderId, po_charset_ascii, <<>>, 0) EXCEPT
     !.str = <<Text("title", e, e)>>]
Plain == Defined(HeaderId, po_charset_ascii, <<"t">>, 0)

(* Untranslated, translated, with two forms, fuzzy with a comment; with     *)
(* text that is not ASCII, obsolete; with such a msgid.                     *)
Entries(e) ==
  { <<>>, <<Defined("A", e, <<NoChars>>, 1)>>,
    <<Defined("A", e, <<"t">>, 1)>>,
    <<Defined("A", e, <<"t", "u">>, 2)>>,
    <<[Fuzzy(Defined("A", e, <<"t">>, 2)) EXCEPT
         !.comment = <<Text("u", e, NoCode)>>]>> }
SpecialEntries(e) ==
  { <<[Defined("A", e, <<Special(e)>>, 3) EXCEPT !.obsolete = TRUE]>>,
    <<Defined(Special(e), e, <<"t">>, 3)>> }

Encoded(e) == { <<HeaderEntry(e)>> \o d : d \in Entries(e) \cup SpecialEntries(e) }
Unencoded == { h \o d : h \in { <<>>, <<Plain>> }, d \in Entries(po_charset_ascii) }
SomeLists ==
  Unencoded \cup Encoded(po_charset_utf8)
    \cup UNION { { <<HeaderEntry(e)>> \o d : d \in { <<>>, <<Defined("A", e, <<"u">>, 4)>> } } :
                   e \in {po_charset_ascii, latin1, sjis} }
    \cup UNION { { <<HeaderEntry(e)>> \o d : d \in SpecialEntries(e) } : e \in {latin1, sjis} }
    \cup SpecialEntries(latin1)

Called(files, to, more, less, one, comm, omit) ==
  [lists |-> [k \in DOMAIN files |-> [domain |-> DefaultDomain, messages |-> files[k]]],
   to_code |-> to, more_than |-> more, less_than |-> less, use_first |-> one,
   msgcomm_mode |-> comm, omit_header |-> omit]

(* msgcat and msgcomm on two files, with several options; msguniq on a file *)
(* with three definitions; a second domain.                                 *)
TwoFiles == { <<x, y>> : x \in SomeLists, y \in SomeLists }
MCCatInputs ==
  { Called(f, to, 0, 9, one, FALSE, FALSE) :
      f \in TwoFiles, to \in {NoCode, latin1}, one \in BOOLEAN }
    \cup { Called(f, NoCode, 0, 2, FALSE, FALSE, FALSE) : f \in TwoFiles }
    \cup { Called(f, NoCode, 1, 9, FALSE, TRUE, omit) : f \in TwoFiles, omit \in BOOLEAN }
    \cup { Called(<< <<HeaderEntry(po_charset_utf8)>> \o x \o y \o z >>, po_charset_utf8, more, 9,
                  one, FALSE, FALSE) :
             x \in Entries(po_charset_utf8), y \in Entries(po_charset_utf8),
             z \in Entries(po_charset_utf8), more \in 0..1, one \in BOOLEAN }
    \cup { [Called(f, NoCode, 0, 9, FALSE, FALSE, FALSE) EXCEPT !.lists[2].domain = Domain2] :
             f \in TwoFiles }

(* Translations that differ, of a project whose name is not ASCII.          *)
ProjectInputs ==
  { Called(<< <<[HeaderEntry(latin1) EXCEPT !.str = <<Text("umlaut", latin1, latin1)>>],
                Defined("A", latin1, <<"t">>, 1)>>,
              <<HeaderEntry(po_charset_utf8), Defined("A", po_charset_utf8, <<"u">>, 1)>> >>,
           NoCode, 0, 9, FALSE, FALSE, omit) : omit \in BOOLEAN }

----------------------------------------------------------------------------
(* TermOstream: terminals that lack some sequences, have no colors, cannot  *)
(* combine colors with attributes, or whose sequences clear more.           *)
Names == {"op", "setaf", "setab", "bold", "sitm", "ritm", "smul", "rmul", "sgr0"}
TerminalType(lacks, colors, ncv, clearing) ==
  [has |-> Names \ lacks, max_colors |-> colors, ncv |-> ncv, clearing |-> clearing]

MCTerminals ==
  { TerminalType({}, 8, {}, {}), TerminalType({}, 8, {}, {"ritm", "rmul", "sgr0"}),
    TerminalType({"ritm", "rmul"}, 8, {"underline", "weight"}, {"sgr0"}),
    TerminalType({"ritm"}, 8, {}, {}), TerminalType({"sitm", "setab"}, 8, {}, {"sgr0"}),
    TerminalType({}, -1, {}, {"sgr0"}), TerminalType({"sgr0", "rmul"}, 8, {}, {}) }

Attributes(color, bgcolor, weight, posture, underline) ==
  [color |-> color, bgcolor |-> bgcolor, weight |-> weight, posture |-> posture,
   underline |-> underline]

MCStyles ==
  { default_attr, Attributes(2, 3, "bold", "normal", "off"),
    Attributes(1, 3, "normal", "italic", "on"), Attributes(-1, -1, "bold", "normal", "on"),
    Attributes(-1, 3, "bold", "italic", "on"), Attributes(2, -1, "bold", "italic", "off") }

----------------------------------------------------------------------------
(* LispFormat: strings of directives for jumps, conditionals, iterations,   *)
(* and for the other ones; pairs of strings.                                *)
Tilde(names) == [name : names, colon : {FALSE}, at : {FALSE}, params : { <<>> }]
Colon(names) == { [d EXCEPT !.colon = TRUE] : d \in Tilde(names) }
AtSign(names) == { [d EXCEPT !.at = TRUE] : d \in Tilde(names) }
Param(type, value) == [type |-> type, value |-> value]
With(names, params) == { [d EXCEPT !.params = params] : d \in Tilde(names) }

Singles(max, directives) == [directives |-> directives, max |-> max, strings |-> 1]
Pairs(max, directives) == [directives |-> directives, max |-> max, strings |-> 2]

Jumps == Tilde({"D", "C", "*", "^"}) \cup Colon({"*", "P"}) \cup AtSign({"*"})
Conditionals == Tilde({"D", "C", "[", ";", "]"}) \cup Colon({"[", ";"}) \cup AtSign({"["})
Iterations == Tilde({"D", "C", "^", "{", "}"}) \cup Colon({"{"}) \cup AtSign({"{"})
Parametric ==
  With({"D"}, <<Param("V", 0)>>) \cup With({"%"}, <<Param("NIL", 0), Param("V", 0)>>)
Enclosing ==
  Tilde({"D", "F", "?", "!", "<", ";", ">", "(", ")", "^"}) \cup AtSign({"?"}) \cup Parametric
    \cup With({"*"}, <<Param("INTEGER", 2)>>) \cup With({"*"}, <<Param("ARGCOUNT", 0)>>)

OfKind(kind) == [kind |-> kind, items |-> <<>>]
Items(values) == [kind |-> "list", items |-> values]
Numeral == OfKind("integer")
Letter == OfKind("character")
UpTo(n, S) == UNION { [1..k -> S] : k \in 0..n }

Atoms == UpTo(4, {Numeral, Letter, OfKind("nil")})
Various ==
  UpTo(3, { OfKind(k) : k \in {"integer", "real", "character", "nil", "format", "function"} }
             \cup { Items(<<Numeral>>) })
    \cup UpTo(4, { OfKind(k) : k \in {"integer", "nil", "format"} } \cup { Items(<<Numeral>>) })
Nested ==
  UpTo(4, {Numeral, Letter}) \cup
  UpTo(3, {Numeral, Letter, OfKind("nil"), OfKind("format"), Items(<<Numeral>>), Items(<<Letter>>)})
Few ==
  UpTo(4, {Numeral, Letter}) \cup
  UpTo(1, { Items(v) : v \in UpTo(4, {Numeral, Letter}) \cup
                             { <<Items(x), Items(y)>> : x \in UpTo(2, {Numeral, Letter}),
                                                        y \in UpTo(2, {Numeral, Letter}) } })

MCArgLists ==
  Singles(4, Jumps) :> Atoms @@ Singles(5, Conditionals) :> Atoms @@
  Singles(5, Iterations) :> Few @@ Singles(3, Enclosing) :> Various @@
  Pairs(2, Jumps \cup Tilde({"S"})) :> Atoms @@ Pairs(3, Conditionals) :> Atoms @@
  Pairs(3, Tilde({"D", "^", "{", "}"}) \cup AtSign({"{"})) :> Nested @@
  Pairs(2, Tilde({"F", "?", "^"}) \cup Parametric) :> Various
MCLispInputs == DOMAIN MCArgLists

(* Iterations with jumps.                                                   *)
LoopArgLists == Singles(3, Tilde({"*", "{", "}"})) :> Few
LoopInputs == DOMAIN LoopArgLists

----------------------------------------------------------------------------
(* What a component is called with, if it is not the one that is checked.   *)
Parked ==
  [args |-> CHOOSE x \in Inputs : TRUE, input |-> CHOOSE x \in ListInputs : TRUE,
   catalog |-> CHOOSE x \in FormulaInputs : TRUE, mo |-> CHOOSE x \in MoInputs : TRUE,
   hash_string |-> CHOOSE x \in MoHashes : TRUE,
   hashval |-> CHOOSE x \in HashFunctions : TRUE,
   winprogram |-> CHOOSE x \in WinPrograms : TRUE, job |-> CHOOSE x \in CatInputs : TRUE,
   terminal |-> CHOOSE x \in Terminals : TRUE, alphabet |-> CHOOSE x \in LispInputs : TRUE]

StructuresInit ==
  /\ which \in Components
  /\ IF which = "Msgmerge" THEN args \in Inputs ELSE args = Parked.args
  /\ which = "MessageList" \/ input = Parked.input
  /\ which = "Plural" \/ catalog = Parked.catalog
  /\ which = "MoFile" \/ (mo = Parked.mo /\ hash_string = Parked.hash_string)
  /\ which = "HashTable" \/ hashval = Parked.hashval
  /\ which = "WinRwLock" \/ winprogram = Parked.winprogram
  /\ IF which = "Catenate" THEN job \in CatInputs ELSE job = Parked.job
  /\ which = "TermOstream" \/ terminal = Parked.terminal
  /\ which = "LispFormat" \/ alphabet = Parked.alphabet
  /\ L10nInit /\ WinInit /\ HashInit /\ MoInit /\ PluralInit /\ ListInit /\ MergeStart /\ CatStart
  /\ TermInit /\ LispInit

allvars ==
  <<which, l10nvars, winvars, hashvars, movars, pluralvars,
    listvars, mergevars, catvars, termvars, lispvars>>

Only(component) == which = component /\ UNCHANGED which

StructuresNext ==
  \/ /\ Only("L10nFlist") /\ L10nNext
     /\ UNCHANGED <<winvars, hashvars, movars, pluralvars, listvars, mergevars,
                    catvars, termvars, lispvars>>
  \/ /\ Only("WinRwLock") /\ WinNext
     /\ UNCHANGED <<l10nvars, hashvars, movars, pluralvars, listvars, mergevars,
                    catvars, termvars, lispvars>>
  \/ /\ Only("HashTable") /\ HashNext
     /\ UNCHANGED <<l10nvars, winvars, movars, pluralvars, listvars, mergevars,
                    catvars, termvars, lispvars>>
  \/ /\ Only("MoFile") /\ MoNext
     /\ UNCHANGED <<l10nvars, winvars, hashvars, pluralvars, listvars, mergevars,
                    catvars, termvars, lispvars>>
  \/ /\ Only("Plural") /\ PluralNext
     /\ UNCHANGED <<l10nvars, winvars, hashvars, movars, listvars, mergevars,
                    catvars, termvars, lispvars>>
  \/ /\ Only("MessageList") /\ ListNext
     /\ UNCHANGED <<l10nvars, winvars, hashvars, movars, pluralvars, mergevars,
                    catvars, termvars, lispvars>>
  \/ /\ Only("Msgmerge") /\ MergeNext
     /\ UNCHANGED <<l10nvars, winvars, hashvars, movars, pluralvars, listvars,
                    catvars, termvars, lispvars>>
  \/ /\ Only("Catenate") /\ CatNext
     /\ UNCHANGED <<l10nvars, winvars, hashvars, movars, pluralvars, listvars,
                    mergevars, termvars, lispvars>>
  \/ /\ Only("TermOstream") /\ TermNext
     /\ UNCHANGED <<l10nvars, winvars, hashvars, movars, pluralvars, listvars,
                    mergevars, catvars, lispvars>>
  \/ /\ Only("LispFormat") /\ LispNext
     /\ UNCHANGED <<l10nvars, winvars, hashvars, movars, pluralvars, listvars,
                    mergevars, catvars, termvars>>

StructuresSpec == StructuresInit /\ [][StructuresNext]_allvars
=============================================================================
