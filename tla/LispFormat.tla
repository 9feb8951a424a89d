----------------------------- MODULE LispFormat -----------------------------
(***************************************************************************)
(* The parser of Lisp format strings (format-lisp.c: parse_upto,           *)
(* format_parse) and the comparison of those of a msgid and of its         *)
(* translation (format_check).                                             *)
(*                                                                         *)
(* A format string is chosen directive by directive.  A directive is a     *)
(* record of its name (a character), its modifiers and its parameters;     *)
(* the text between directives, which the parser skips, is left out.  The  *)
(* calls of parse_upto that have not returned are the frames.              *)
(***************************************************************************)
EXTENDS ArgList, Integers, Sequences, SequencesExt

CONSTANTS
  LispInputs,    \* records: the directives that are chosen from, the maximum
                 \* of them in each string, the number of strings (1 or 2)
  MaxDepth       \* bound: no more directives are open at a time

VARIABLES
  alphabet,      \* the element of LispInputs
  frames,        \* the calls of parse_upto, the last one is active
  chosen,        \* the number of directives so far
  parsed,        \* of each string that has been parsed, the result
  verdict        \* of format_check, with and without equality; <<>> before

lispvars == <<alphabet, frames, chosen, parsed, verdict>>

(* The parameters, the locals and the result of parse_upto; "body" are the  *)
(* directives of the clause that is parsed, "clauses" those before it.      *)
Frame(terminator, separator, dir, position, list, escape) ==
  [terminator |-> terminator, separator |-> separator, dir |-> dir, position |-> position,
   list |-> list, escape |-> escape, body |-> <<>>, clauses |-> <<>>,
   \* Of a conditional: the argument that selects the clause, and the union
   \* of the clauses so far.
   arg_position |-> -1, union_position |-> -2, union_list |-> NullList,
   last_alternative |-> FALSE]

TopFrame == Frame("", FALSE, "", 0, make_unconstrained_list, NullList)

LispInit ==
  /\ alphabet \in LispInputs
  /\ frames = <<TopFrame>> /\ chosen = 0 /\ parsed = <<>> /\ verdict = <<>>

----------------------------------------------------------------------------
(* Parameters: records of a type and a value.                               *)
IntNull == "INTEGER_NULL"
CharNull == "CHARACTER_NULL"

(* The parameters a directive may have: IIIC, ICCI, ...                     *)
Signature(f, name) ==
  CASE name \in {"A", "S", "$", "<"} -> <<IntNull, IntNull, IntNull, CharNull>>
    [] name \in {"D", "B", "O", "X"} -> <<IntNull, CharNull, CharNull, IntNull>>
    [] name = "R" -> <<IntNull, IntNull, CharNull, CharNull, IntNull>>
    [] name = "F" -> <<IntNull, IntNull, IntNull, CharNull, CharNull>>
    [] name \in {"E", "G"} -> [i \in 1..7 |-> IF i <= 4 THEN IntNull ELSE CharNull]
    [] name \in {"%", "&", "|", "~", "I", "*", "[", "{"} -> <<IntNull>>
    [] name = "T" -> <<IntNull, IntNull>>
    [] name = "^" -> [i \in 1..3 |-> "CHARACTER_INTEGER_NULL"]
    [] name = ";" /\ f.terminator = ">" -> <<IntNull>>
    [] OTHER -> <<>>

ParamType(d) == IF d.params = <<>> THEN "NIL" ELSE d.params[1].type

(* check_params; nocheck_params for ~!, which accepts all.                  *)
ParamsValid(f, d) ==
  \A i \in DOMAIN d.params :
    LET types == Signature(f, d.name)
        type  == d.params[i].type
    IN d.name # "!" =>
         CASE i > Len(types) -> type \in {"NIL", "V"}
           [] i <= Len(types) /\ types[i] = CharNull -> type \in {"NIL", "CHARACTER", "V"}
           [] i <= Len(types) /\ types[i] = IntNull -> type # "CHARACTER"
           [] OTHER -> TRUE

(* Each parameter V takes an argument.  It must be of the right type, and   *)
(* nil if the directive has no such parameter.  nocheck_params does not see *)
(* that a position is unknown; as an unsigned number, -1 is a position that *)
(* no finite list has, and initial_unshare aborts with any other.           *)
ParamConstraint(f, d, list, i, position) ==
  LET types == Signature(f, d.name)
  IN CASE d.params[i].type # "V" -> list
       [] d.params[i].type = "V" /\ position < 0 ->
            IF d.name # "!" \/ Stays(list) THEN list
            ELSE IF IsFinite(list) THEN NullList ELSE Failed
       [] OTHER ->
            IF d.name = "!" THEN add_req_type_constraint(list, position, "CHARACTER_INTEGER_NULL")
            ELSE IF i <= Len(types) THEN add_req_type_constraint(list, position, types[i])
            ELSE add_req_listtype_constraint(list, position, "LIST", make_empty_list)

(* The frame after the parameters of the directive.                         *)
PastParams(f, d) ==
  LET vs(n) == Len(SelectSeq(SubSeq(d.params, 1, n), LAMBDA p : p.type = "V"))
      behind(n) == IF f.position < 0 THEN -1 ELSE f.position + vs(n)
  IN [f EXCEPT !.position = behind(Len(d.params)),
               !.list = FoldLeftDomain(
                          LAMBDA l, i : ParamConstraint(f, d, l, i, behind(i - 1)), @, d.params)]

(* Otherwise the format string is invalid.                                  *)
Valid(f, d) ==
  /\ ParamsValid(f, d)
  /\ d.name = "*" /\ ParamType(d) = "INTEGER" => d.params[1].value >= 0
  /\ d.name \in {")", "]", "}", ">"} => d.name = f.terminator
  /\ d.name = ";" => f.separator
  /\ d.name = "[" => ~(d.at /\ d.colon)
  \* ~:[ has two clauses.
  /\ d.name = "]" => ~(f.dir.colon /\ f.clauses = <<>>)

----------------------------------------------------------------------------
(* Steps.                                                                   *)
Top == Last(frames)

NextDirective(d) ==
  /\ frames # <<>> /\ chosen < alphabet.max
  /\ d \in alphabet.directives
  /\ chosen' = chosen + 1
  /\ UNCHANGED <<alphabet, verdict>>

Ends(kind, list) ==
  /\ frames' = <<>>
  /\ parsed' = Append(parsed, [kind |-> kind, list |-> list, body |-> frames[1].body])

(* The frames become fs, unless the program aborts.                         *)
Proceed(fs) ==
  IF Failed \in {Last(fs).list, Last(fs).escape, Last(fs).union_list}
  THEN Ends("failed", Failed)
  ELSE frames' = fs /\ UNCHANGED parsed

(* A directive with its clauses has been parsed, in the frame f.            *)
Node(d, clauses, default) == [dir |-> d, clauses |-> clauses, default |-> default]
Parsed(outer, f, node) == Proceed(Append(outer, [f EXCEPT !.body = Append(@, node)]))

InvalidDirective(d) == NextDirective(d) /\ ~Valid(Top, d) /\ Ends("invalid", NullList)

(* The argument at the current position, if that is known, is of a type.    *)
Consume(f, type) ==
  IF f.position < 0 THEN f
  ELSE [f EXCEPT !.list = add_req_type_constraint(@, f.position, type), !.position = @ + 1]

ConsumeList(f, list) ==
  IF f.position < 0 THEN f
  ELSE [f EXCEPT !.list = add_req_listtype_constraint(@, f.position, "LIST", list),
                 !.position = @ + 1]

(* Below, f is the frame after the parameters of the directive.  A          *)
(* directive without clauses makes g of it.                                 *)
Simple(d, names, g) ==
  d.name \in names /\ Parsed(Front(frames), g, Node(d, <<>>, FALSE))

FormatObject(d, f) ==
  Simple(d, {"A", "S", "W", "/"}, Consume(f, "OBJECT"))

FormatInteger(d, f) ==
  Simple(d, {"D", "B", "O", "X", "R"}, Consume(f, "INTEGER"))

FormatPlural(d, f) ==
  LET back == [f EXCEPT !.position = IF d.colon /\ @ > 0 THEN @ - 1 ELSE @]
  IN Simple(d, {"P"}, Consume(back, "OBJECT"))

FormatCharacter(d, f) == Simple(d, {"C"}, Consume(f, "CHARACTER"))

FormatReal(d, f) == Simple(d, {"F", "E", "G", "$"}, Consume(f, "REAL"))

FormatLayout(d, f) ==
  Simple(d, {"%", "&", "|", "~", "I", "newline", "_", "T"}, f)

FormatGoto(d, f) ==
  LET n == IF ParamType(d) = "NIL" THEN IF d.at THEN 0 ELSE 1 ELSE d.params[1].value
      to(position) ==
        CASE ParamType(d) \notin {"NIL", "INTEGER"} -> -1
          [] d.at -> n
          [] position < 0 -> -1
          [] d.colon -> IF position >= n THEN position - n ELSE 0
          [] OTHER -> position + n
  IN Simple(d, {"*"}, [f EXCEPT !.position = to(@)])

FormatIndirection(d, f) ==
  LET g == Consume(f, "FORMATSTRING")
  IN Simple(d, {"?"}, IF d.at THEN [g EXCEPT !.position = -1]
                      ELSE ConsumeList(g, make_unconstrained_list))

FormatCall(d, f) ==
  Simple(d, {"!"}, Consume(Consume(f, "FUNCTION"), "OBJECT"))

(* If the argument that is next may be missing, the arguments that end      *)
(* there are added to the pending escapes.                                  *)
FormatUpAndOut(d, f) ==
  Simple(d, {"^"},
       IF Stays(f.list) \/ (f.position >= 0 /\ is_required(f.list, f.position)) THEN f
       ELSE IF f.position < 0 THEN [f EXCEPT !.escape = make_union(@, f.list)]
       ELSE [f EXCEPT !.escape = make_union(@, add_end_constraint(f.list, f.position)),
                      !.list   = add_required_constraint(@, f.position)])

----------------------------------------------------------------------------
(* Directives with clauses.                                                 *)

(* parse_upto is called, in the frame "outer".                              *)
CallParse(d, outer, inner) ==
  IF Failed = outer.list THEN Ends("failed", Failed)
  ELSE Proceed(Front(frames) \o <<outer, inner>>)

Opens(d, name) ==
  d.name = name /\ Len(frames) <= MaxDepth

CaseConversion(d, f) ==
  Opens(d, "(") /\ CallParse(d, f, Frame(")", FALSE, d, f.position, f.list, f.escape))

Justification(d, f) ==
  Opens(d, "<") /\ CallParse(d, f, Frame(">", TRUE, d, f.position, f.list, NullList))

Iteration(d, f) ==
  /\ Opens(d, "{")
  /\ CallParse(d, f, Frame("}", FALSE, d, 0, make_unconstrained_list, NullList))

(* The list, if the argument at that position is nil.                       *)
WithNil(list, position) ==
  IF position < 0 THEN list
  ELSE add_req_listtype_constraint(list, position, "LIST", make_empty_list)

(* ~@[: the argument is nil, or else the clause uses it.                    *)
ConditionalAt(d, f) ==
  /\ d.at /\ Opens(d, "[")
  /\ CallParse(d, f, [Frame("]", FALSE, d, f.position, f.list, f.escape) EXCEPT
                   !.union_list = WithNil(f.list, f.position)])

(* ~:[: the first clause is for nil.                                        *)
ConditionalColon(d, f) ==
  LET g == Consume(f, "OBJECT")
  IN /\ d.colon /\ Opens(d, "[")
     /\ CallParse(d, g, Frame("]", TRUE, d, g.position, WithNil(g.list, g.position - 1), f.escape))

(* ~[: a parameter or an argument selects the clause.                       *)
CallClause(d, f, arg_position) ==
  CallParse(d, f, [Frame("]", TRUE, d, f.position, f.list, f.escape) EXCEPT
                     !.arg_position = arg_position])

Conditional(d, f) ==
  /\ ~d.at /\ ~d.colon /\ Opens(d, "[")
  /\ IF ParamType(d) = "NIL" THEN CallClause(d, Consume(f, "OBJECT"), f.position)
     ELSE CallClause(d, f, -1)

(* A clause of a conditional joins the union of those before it.  In ~[, it *)
(* is selected by an integer, unless it is the default.                     *)
Joins(f, position, list) ==
  [f EXCEPT !.union_list = make_union(@, list),
            !.union_position =
              IF list = NullList THEN @
              ELSE IF @ = -2 THEN position
              ELSE IF position < 0 \/ position # @ THEN -1 ELSE @]

JoinsClause(f) ==
  Joins(f, f.position,
        IF f.arg_position >= 0 /\ ~f.last_alternative
        THEN add_req_type_constraint(f.list, f.arg_position, "INTEGER") ELSE f.list)

Outer == frames[Len(frames) - 1]
Outside == SubSeq(frames, 1, Len(frames) - 2)

(* ~;                                                                       *)
Separator(d, f) ==
  LET last == f.terminator = "]" /\ (f.dir.colon \/ d.colon)
      j == JoinsClause(f)
  IN /\ d.name = ";"
     /\ IF f.terminator = ">"
        THEN Proceed(Append(Front(frames), [f EXCEPT !.clauses = Append(@, f.body), !.body = <<>>]))
        ELSE Proceed(Append(Front(frames),
               [j EXCEPT !.clauses = Append(@, f.body), !.body = <<>>,
                         !.position = Outer.position, !.list = Outer.list,
                         !.separator = ~last, !.last_alternative = last]))

EndCaseConversion(d, f) ==
  /\ d.name = ")"
  /\ Parsed(Outside, [Outer EXCEPT !.position = f.position, !.list = f.list,
                                   !.escape = f.escape], Node(f.dir, <<f.body>>, FALSE))

(* ~< catches ~^.                                                           *)
EndJustification(d, f) ==
  /\ d.name = ">"
  /\ Parsed(Outside, [Outer EXCEPT !.position = IF f.escape # NullList THEN -1 ELSE f.position,
                                   !.list = make_union(f.list, f.escape)],
            Node(f.dir, Append(f.clauses, f.body), FALSE))

EndConditionalAt(d, f) ==
  /\ d.name = "]" /\ f.dir.at
  /\ Parsed(Outside,
            [Outer EXCEPT
               !.position = IF @ < 0 THEN @
                            ELSE IF f.list = NullList \/ f.position = @ + 1 THEN @ + 1 ELSE -1,
               !.list = make_union(f.union_list, f.list), !.escape = f.escape],
            Node(f.dir, <<f.body>>, FALSE))

(* Without a default clause, no clause may be selected.                     *)
WithDefault(f) ==
  IF f.dir.colon \/ f.last_alternative THEN f
  ELSE [f EXCEPT !.union_list = make_union(@, Outer.list),
                 !.union_position =
                   IF @ = -2 THEN Outer.position
                   ELSE IF Outer.position < 0 \/ Outer.position # @ THEN -1 ELSE @]

PastConditional(f) ==
  Parsed(Outside,
         [Outer EXCEPT !.position = IF f.union_position = -2 THEN @ ELSE f.union_position,
                       !.list = f.union_list, !.escape = f.escape],
         Node(f.dir, Append(f.clauses, f.body), f.last_alternative))

EndConditional(d, f) ==
  d.name = "]" /\ ~f.dir.at /\ PastConditional(WithDefault(JoinsClause(f)))

(* ~{ catches ~^.  The constraints are those of the elements of a list, or, *)
(* with ~@{, of the arguments that remain.  "once" are those of one round.  *)
LoopList(f, once) ==
  IF once = Failed THEN Failed
  ELSE IF f.dir.colon THEN make_repeated_list_of_lists(once)
  ELSE IF once = NullList THEN make_empty_list
  ELSE IF f.position <= 0 THEN make_union_with_empty_list(once)
  ELSE make_repeated_list(once, f.position)

PastIteration(f, outer, list) ==
  IF list = Failed THEN Ends("failed", Failed)
  ELSE Parsed(Outside,
              IF ~f.dir.at THEN ConsumeList(outer, list)
              ELSE [outer EXCEPT
                      !.position = -1,
                      !.list = IF @ = NullList \/ outer.position < 0 THEN @
                               ELSE make_intersected_list(@, shift_list(list, outer.position))],
              Node(f.dir, <<f.body>>, FALSE))

(* An empty clause: an argument is the format string.                       *)
EndIteration(d, f) ==
  /\ d.name = "}"
  /\ PastIteration(f, IF f.body = <<>> THEN Consume(Outer, "FORMATSTRING") ELSE Outer,
                   LoopList(f, make_union(f.list, f.escape)))

----------------------------------------------------------------------------
(* format_parse, after parse_upto: an escape ends the whole string.         *)
EndOfString ==
  LET list == make_union(Top.list, Top.escape)
  IN /\ frames # <<>>
     /\ UNCHANGED <<alphabet, chosen, verdict>>
     /\ CASE Len(frames) > 1 -> Ends("invalid", NullList)
          [] Len(frames) = 1 /\ list = NullList -> Ends("contradiction", NullList)
          [] Len(frames) = 1 /\ list = Failed -> Ends("failed", Failed)
          [] OTHER -> Ends("valid", normalize_list(list))

(* The string of the translation.                                           *)
NextString ==
  /\ frames = <<>> /\ Len(parsed) = 1 /\ alphabet.strings = 2 /\ parsed[1].kind = "valid"
  /\ frames' = <<TopFrame>> /\ chosen' = 0
  /\ UNCHANGED <<alphabet, parsed, verdict>>

format_check(list1, list2, equality) ==
  LET intersection == make_intersected_list(list1, list2)
  IN IF equality THEN list1 # list2
     ELSE Stays(intersection) \/ normalize_list(intersection) # list2

FormatCheck ==
  /\ frames = <<>> /\ Len(parsed) = 2 /\ parsed[2].kind = "valid" /\ verdict = <<>>
  /\ verdict' = <<format_check(parsed[1].list, parsed[2].list, TRUE),
                  format_check(parsed[1].list, parsed[2].list, FALSE)>>
  /\ UNCHANGED <<alphabet, frames, chosen, parsed>>

Directive(d, f) ==
  \/ FormatObject(d, f) \/ FormatInteger(d, f) \/ FormatPlural(d, f) \/ FormatCharacter(d, f)
  \/ FormatReal(d, f) \/ FormatLayout(d, f) \/ FormatGoto(d, f) \/ FormatIndirection(d, f)
  \/ FormatCall(d, f) \/ FormatUpAndOut(d, f)
  \/ CaseConversion(d, f) \/ Justification(d, f) \/ Iteration(d, f)
  \/ ConditionalAt(d, f) \/ ConditionalColon(d, f) \/ Conditional(d, f) \/ Separator(d, f)
  \/ EndCaseConversion(d, f) \/ EndJustification(d, f) \/ EndConditionalAt(d, f)
  \/ EndConditional(d, f) \/ EndIteration(d, f)

ValidDirective(d) == NextDirective(d) /\ Valid(Top, d) /\ Directive(d, PastParams(Top, d))

LispNext ==
  \/ \E d \in alphabet.directives : ValidDirective(d) \/ InvalidDirective(d)
  \/ EndOfString \/ NextString \/ FormatCheck

LispSpec == LispInit /\ [][LispNext]_lispvars
=============================================================================
