------------------------------ MODULE Catenate ------------------------------
(***************************************************************************)
(* The combination of several catalogs into one, for msgcat, msgcomm and   *)
(* msguniq (msgl-cat.c): the translations of each message are counted,     *)
(* those that are not needed are removed, the rest is converted to one     *)
(* encoding and merged.                                                    *)
(***************************************************************************)
EXTENDS Integers, Sequences, SequencesExt

CONSTANTS
  \* What the programs are called with: records of the lists of messages (one
  \* for each file and domain, in order) and of the options.
  CatInputs,
  HeaderId,          \* the chars of the msgid of a header entry
  NoChars,           \* and of an empty text
  po_charset_ascii, po_charset_utf8,       \* encodings
  AsciiCompatible,   \* the encodings in which ASCII means the same
  Invariant,         \* the chars that mean the same in all encodings
  Repertoire,        \* for each encoding, the chars that can be written in it
  NoCode, NoLabel

VARIABLES
  job,        \* the call, an element of CatInputs
  mdlps,      \* what is left of the lists
  tmps,       \* the resulting messages
  total,      \* the indices of those that are in the resulting lists
  to_code,    \* canon_to_code
  catpc,
  at, nth     \* the list, and the message in it, that are next

catvars == <<job, mdlps, tmps, total, to_code, catpc, at, nth>>

(* A text is known by its chars and the encoding of its bytes; the text of  *)
(* a header names a charset too.  A file is identified by its name, and the *)
(* project that its header entry names; of both, the header stands for it.  *)
is_ascii(chars) == chars \in Repertoire[po_charset_ascii]
Same(chars, code) == chars \in Invariant \/ (is_ascii(chars) /\ code \in AsciiCompatible)
Text(chars, code, charset) ==
  [chars |-> chars, charset |-> charset,
   code |-> IF Same(chars, code) THEN po_charset_ascii ELSE code]

IsHeader(m) == m.id.chars = HeaderId
Texts(m) == ToSet(m.str) \cup ToSet(m.comment) \cup {m.id}

----------------------------------------------------------------------------
(* The canonical charset of a list; NoCode if it cannot be told.            *)
Named(list) ==
  { list.messages[j].str[1].charset :
      j \in { i \in DOMAIN list.messages :
                IsHeader(list.messages[i]) /\ ~list.messages[i].obsolete } } \ {NoCode}
Charset(list) ==
  IF Named(list) # {} THEN CHOOSE e \in Named(list) : TRUE
  ELSE IF \A j \in DOMAIN list.messages : \A t \in Texts(list.messages[j]) : is_ascii(t.chars)
       THEN po_charset_ascii ELSE NoCode

Identification(list) ==
  LET j == SelectInSeq(list.messages, LAMBDA m : IsHeader(m) /\ ~m.obsolete)
  IN IF j = 0 THEN NoLabel ELSE [list.messages[j].str[1] EXCEPT !.charset = NoCode]

IsSeq(s) == s \in Seq(ToSet(s))

(* What the reader makes of a catalog: the texts are in its encoding, and   *)
(* only a header entry that is not obsolete names one.                      *)
FromFile(list) ==
  /\ IsSeq(list.messages)
  /\ Charset(list) \in DOMAIN Repertoire \cup {NoCode}
  /\ \A m \in ToSet(list.messages) :
       /\ m = [id |-> m.id, str |-> m.str, fuzzy |-> m.fuzzy, obsolete |-> m.obsolete,
               comment |-> m.comment, filepos |-> m.filepos]
       /\ IsSeq(m.str) /\ m.str # <<>> /\ IsSeq(m.comment)
       /\ \A t \in Texts(m) :
            /\ Charset(list) # NoCode => t = Text(t.chars, Charset(list), t.charset)
            /\ t.charset # NoCode => IsHeader(m) /\ ~m.obsolete /\ t = m.str[1]

ASSUME CatAssumption ==
  /\ Invariant \subseteq Repertoire[po_charset_ascii]
  /\ {po_charset_ascii, po_charset_utf8} \subseteq AsciiCompatible \cap DOMAIN Repertoire
  /\ NoCode \notin DOMAIN Repertoire
  /\ \A c \in CatInputs :
       /\ c.to_code \in DOMAIN Repertoire \cup {NoCode}
       /\ IsSeq(c.lists) /\ \A k \in DOMAIN c.lists : FromFile(c.lists[k])

CatStart ==
  /\ mdlps = [k \in DOMAIN job.lists |-> job.lists[k].messages]
  /\ tmps = <<>> /\ total = {}
  /\ to_code = NoCode
  /\ catpc = "charsets" /\ at = 1 /\ nth = 1

CatInit == job \in CatInputs /\ CatStart

(* A charset for each list, and one only.                                   *)
Charsets ==
  /\ catpc = "charsets"
  /\ catpc' = IF \E k \in DOMAIN job.lists :
                   \/ Charset(job.lists[k]) = NoCode
                   \/ \E e, f \in Named(job.lists[k]) : e # f
              THEN "failed" ELSE "count"
  /\ UNCHANGED <<job, mdlps, tmps, total, to_code, at, nth>>

(* The loops over the lists, and over the messages of each.                 *)
InLoop(phase) == catpc = phase /\ at <= Len(mdlps)
AtMessage(phase) == InLoop(phase) /\ nth <= Len(mdlps[at])
mp == mdlps[at][nth]

NextList ==
  /\ \E phase \in {"count", "remove", "fill"} : InLoop(phase) /\ ~AtMessage(phase)
  /\ at' = at + 1 /\ nth' = 1
  /\ UNCHANGED <<job, mdlps, tmps, total, to_code, catpc>>

EndLoop(phase, next) ==
  /\ catpc = phase /\ at > Len(mdlps)
  /\ catpc' = next /\ at' = 1 /\ nth' = 1
  /\ UNCHANGED <<job, mdlps, tmps, to_code>>

----------------------------------------------------------------------------
(* Counting.  Weak translations are counted below zero, until there is a    *)
(* good one.                                                                *)
Weak(m) ==
  /\ ~job.msgcomm_mode
  /\ (~IsHeader(m) /\ m.fuzzy) \/ m.str[1].chars = NoChars

UsedMutant(used, weak) == IF weak THEN used - 1 ELSE used + 1
Used(used, weak) ==
  IF weak THEN (IF used <= 0 THEN used - 1 ELSE used)
          ELSE (IF used < 0 THEN 0 ELSE used) + 1

NewMessage(key) ==
  [key |-> key, used |-> 0, str |-> <<>>, fuzzy |-> TRUE, obsolete |-> TRUE,
   comment |-> <<>>, filepos |-> {}, alternatives |-> <<>>]

TmpKey(domain, m) == <<domain, m.id.chars, m.id.code>>
Tmp(heap, key) == CHOOSE i \in DOMAIN heap : heap[i].key = key

CountMessage ==
  /\ AtMessage("count")
  /\ LET key == TmpKey(job.lists[at].domain, mp)
         known == IF \E i \in DOMAIN tmps : tmps[i].key = key THEN tmps
                  ELSE Append(tmps, NewMessage(key))
     IN tmps' = [known EXCEPT ![Tmp(known, key)].used = Used(@, Weak(mp))]
  /\ nth' = nth + 1
  /\ UNCHANGED <<job, mdlps, total, to_code, catpc, at>>

EndCount == EndLoop("count", "remove") /\ UNCHANGED total

----------------------------------------------------------------------------
(* Selection.                                                               *)
Selected(tmp) ==
  LET used == IF tmp.used >= 0 THEN tmp.used ELSE -tmp.used
  IN IF tmp.key[2] = HeaderId THEN ~job.omit_header
     ELSE used > job.more_than /\ used < job.less_than

Needed(m, tmp) == Selected(tmp) /\ (Weak(m) => tmp.used < 0)

(* With --use-first, the flag obsolete says that none was taken so far.     *)
RemoveMessage ==
  /\ AtMessage("remove")
  /\ LET i == Tmp(tmps, TmpKey(job.lists[at].domain, mp))
     IN IF Needed(mp, tmps[i]) /\ (job.use_first => tmps[i].obsolete)
        THEN /\ tmps' = IF job.use_first THEN [tmps EXCEPT ![i].obsolete = FALSE] ELSE tmps
             /\ nth' = nth + 1
             /\ UNCHANGED mdlps
        ELSE /\ mdlps' = [mdlps EXCEPT ![at] = RemoveAt(@, nth)]
             /\ UNCHANGED <<tmps, nth>>
  /\ UNCHANGED <<job, total, to_code, catpc, at>>

EndRemove ==
  EndLoop("remove", "target") /\ total' = { i \in DOMAIN tmps : Selected(tmps[i]) }

----------------------------------------------------------------------------
(* Conversion.  A list of which nothing is left has no charset any more.    *)
MixedMutant(codes) == po_charset_ascii \in codes /\ ~(codes \subseteq AsciiCompatible)
(* Whether texts in these encodings need one that has them all.             *)
Mixed(codes) ==
  \/ \E e, f \in codes \ {po_charset_ascii} : e # f
  \/ po_charset_ascii \in codes /\ ~(codes \subseteq AsciiCompatible)

TargetEncoding ==
  /\ catpc = "target"
  /\ LET codes == { Charset(job.lists[k]) : k \in { i \in DOMAIN mdlps : mdlps[i] # <<>> } }
     IN to_code' = IF job.to_code # NoCode THEN job.to_code
                   ELSE IF Mixed(codes) THEN po_charset_utf8
                   ELSE IF po_charset_ascii \in codes /\ codes # {po_charset_ascii}
                        THEN CHOOSE e \in codes : e # po_charset_ascii
                   ELSE NoCode
  /\ catpc' = "convert"
  /\ UNCHANGED <<job, mdlps, tmps, total, at, nth>>

(* A conversion that would do nothing is done only when it was asked for.   *)
Converts(k) ==
  /\ to_code # NoCode /\ mdlps[k] # <<>>
  /\ ~(job.to_code = NoCode /\ Charset(job.lists[k]) = to_code)

(* The header entry names the new charset.                                  *)
Converted(m) ==
  LET Conv(t) == Text(t.chars, to_code,
                      IF t.charset # NoCode /\ ~m.obsolete THEN to_code ELSE t.charset)
  IN [m EXCEPT !.str = [i \in DOMAIN @ |-> Conv(@[i])],
               !.comment = [i \in DOMAIN @ |-> Conv(@[i])]]

(* iconv_message_list; a key that is not ASCII would change.                *)
Unconvertible(m, from) ==
  /\ from # to_code
  /\ ~is_ascii(m.id.chars) \/ \E t \in Texts(m) : t.chars \notin Repertoire[to_code]

ConvertList ==
  /\ InLoop("convert")
  /\ IF /\ Converts(at)
        /\ \E j \in DOMAIN mdlps[at] : Unconvertible(mdlps[at][j], Charset(job.lists[at]))
     THEN catpc' = "failed" /\ UNCHANGED <<mdlps, at>>
     ELSE /\ mdlps' = IF Converts(at)
                      THEN [mdlps EXCEPT ![at] = [j \in DOMAIN @ |-> Converted(@[j])]]
                      ELSE mdlps
          /\ at' = at + 1
          /\ UNCHANGED catpc
  /\ UNCHANGED <<job, tmps, total, to_code, nth>>

EndConversion == EndLoop("convert", "fill") /\ UNCHANGED total

----------------------------------------------------------------------------
(* Merging.  A form of the result consists of sections, each under the      *)
(* identification of its file, or of one without.                           *)
Sections(texts, label) == [i \in DOMAIN texts |-> [label |-> label, text |-> texts[i]]]
Forms(texts) == [i \in DOMAIN texts |-> <<[label |-> NoLabel, text |-> texts[i]]>>]

Filled(tmp, m, k) ==
  LET new == [tmp EXCEPT !.filepos = @ \cup m.filepos]
  IN IF job.use_first \/ tmp.used \in {1, -1}
     THEN [new EXCEPT !.str = Forms(m.str), !.fuzzy = m.fuzzy, !.obsolete = m.obsolete,
                      !.comment = @ \o Sections(m.comment, NoLabel)]
     ELSE IF job.msgcomm_mode
     THEN [new EXCEPT !.str = IF @ = <<>> THEN Forms(m.str) ELSE @,
                      !.fuzzy = IF tmp.str = <<>> THEN m.fuzzy ELSE @,
                      !.comment = IF @ = <<>> THEN Sections(m.comment, NoLabel) ELSE @,
                      !.obsolete = FALSE]
     ELSE [new EXCEPT !.alternatives =
                        Append(@, [str |-> m.str, comment |-> m.comment,
                                   label |-> Identification(job.lists[k])]),
                      !.fuzzy = @ /\ m.fuzzy, !.obsolete = @ /\ m.obsolete]

FillMessage ==
  /\ AtMessage("fill")
  /\ LET i == Tmp(tmps, TmpKey(job.lists[at].domain, mp))
     IN tmps' = [tmps EXCEPT ![i] = Filled(@, mp, at)]
  /\ nth' = nth + 1
  /\ UNCHANGED <<job, mdlps, total, to_code, catpc, at>>

EndFill == EndLoop("fill", "combine") /\ UNCHANGED total

(* Equal alternatives are one; others are put one after the other, and the  *)
(* message is fuzzy.                                                        *)
Equal(values) == \A i \in DOMAIN values : values[i] = values[1]

Combined(tmp) ==
  LET alts == tmp.alternatives
      strs == [i \in DOMAIN alts |-> alts[i].str]
      comments == [i \in DOMAIN alts |-> alts[i].comment]
      Section(a, r) == IF Len(a.str) >= r THEN <<[label |-> a.label, text |-> a.str[r]]>> ELSE <<>>
      Form(r) == FlattenSeq([i \in DOMAIN alts |-> Section(alts[i], r)])
      plurals == Max({Len(strs[i]) : i \in DOMAIN strs})
  IN IF alts = <<>> THEN tmp
     ELSE [tmp EXCEPT
             !.str = IF Equal(strs) THEN Forms(strs[1]) ELSE [r \in 1..plurals |-> Form(r)],
             !.fuzzy = @ \/ ~Equal(strs),
             !.comment =
               IF Equal(comments) THEN Sections(comments[1], NoLabel)
               ELSE FlattenSeq([i \in DOMAIN alts |-> Sections(alts[i].comment, alts[i].label)])]

Combine ==
  /\ catpc = "combine"
  /\ tmps' = [i \in DOMAIN tmps |-> IF i \in total THEN Combined(tmps[i]) ELSE tmps[i]]
  /\ catpc' = "done"
  /\ UNCHANGED <<job, mdlps, total, to_code, at, nth>>

CatNext ==
  \/ Charsets \/ NextList
  \/ CountMessage \/ EndCount \/ RemoveMessage \/ EndRemove
  \/ TargetEncoding \/ ConvertList \/ EndConversion
  \/ FillMessage \/ EndFill \/ Combine

CatSpec == CatInit /\ [][CatNext]_catvars

----------------------------------------------------------------------------
(* Properties.                                                              *)

(* The definitions of a message in the files, in order, and those of them   *)
(* that count: all, if all are weak.                                        *)
DefinitionsOf(key) ==
  FlattenSeq([k \in DOMAIN job.lists |->
                LET own == SelectSeq(job.lists[k].messages,
                                     LAMBDA m : TmpKey(job.lists[k].domain, m) = key)
                IN [i \in DOMAIN own |-> [m |-> own[i], label |-> k]]])

Counting(key) ==
  LET good == SelectSeq(DefinitionsOf(key), LAMBDA d : ~Weak(d.m))
  IN IF good = <<>> THEN DefinitionsOf(key) ELSE good

CharsOf(texts) == [i \in DOMAIN texts |-> texts[i].chars]

Result == {tmps[i] : i \in total}

(* "If for a message, there is at least one non-fuzzy, non-empty            *)
(* translation, use only the non-fuzzy, non-empty translations.  Otherwise  *)
(* use the fuzzy or empty translations as well."  The result has each       *)
(* message with the wanted number of definitions, once, with all            *)
(* translations that count in the order of the files, or the only one there *)
(* is, even if it came in several encodings; and only different ones make   *)
(* it fuzzy.                                                                *)
MergeComplete ==
  catpc = "done" =>
    \A key \in { tmps[i].key : i \in DOMAIN tmps } :
      LET all == Counting(key)
          wanted == IF key[2] = HeaderId THEN ~job.omit_header
                    ELSE job.more_than < Len(all) /\ Len(all) < job.less_than
          first == job.use_first \/ job.msgcomm_mode
          one == \A i \in DOMAIN all : CharsOf(all[i].m.str) = CharsOf(all[1].m.str)
          shown == IF first \/ one THEN <<all[1]>> ELSE all
          deciding == IF first THEN {1} ELSE DOMAIN all
          Form(r) == LET having == SelectSeq(shown, LAMBDA d : Len(d.m.str) >= r)
                     IN [i \in DOMAIN having |-> having[i].m.str[r].chars]
      IN /\ wanted <=> \E tmp \in Result : tmp.key = key
         /\ \A tmp \in Result : tmp.key = key =>
              /\ Len(tmp.str) = Max({Len(shown[i].m.str) : i \in DOMAIN shown})
              /\ \A r \in DOMAIN tmp.str :
                   CharsOf([i \in DOMAIN tmp.str[r] |-> tmp.str[r][i].text]) = Form(r)
              /\ tmp.fuzzy <=> Len(shown) > 1 \/ \A i \in deciding : all[i].m.fuzzy

(* All texts of the result are in one encoding, the one that was asked for, *)
(* if any, and the header entry says so, whatever lists the options have    *)
(* emptied and whichever header entries they have kept.                     *)
OneEncoding ==
  catpc = "done" =>
    \E e \in IF job.to_code # NoCode THEN {job.to_code} ELSE DOMAIN Repertoire :
      \A tmp \in Result :
        LET sections == (UNION { ToSet(tmp.str[r]) : r \in DOMAIN tmp.str }) \cup ToSet(tmp.comment)
            texts == { s.text : s \in sections } \cup ({ s.label : s \in sections } \ {NoLabel})
        IN /\ \A t \in texts :
                /\ t.code = e \/ (t.code = po_charset_ascii /\ Same(t.chars, e))
                /\ t.charset \in {NoCode, e}
           /\ tmp.key[3] = e \/ is_ascii(tmp.key[2])
=============================================================================
