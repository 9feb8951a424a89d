---------------------------- MODULE LispMeaning ----------------------------
(***************************************************************************)
(* What the directives of a Lisp format string do with arguments, after    *)
(* the Common Lisp HyperSpec, 22.3, to which format-lisp.c refers: the     *)
(* reference for the constraints that LispFormat computes.                 *)
(*                                                                         *)
(* A value is a record of its kind ("integer", "real", "character", "nil", *)
(* "list", "format", "function") and its items.  Which integer it is, and  *)
(* what a format string contains that is itself an argument, is left open: *)
(* every outcome is possible.  ~D, ~C and ~F are given integers,           *)
(* characters and numbers.  Not covered are ~^ and ~{ with parameters, and *)
(* ~:}.                                                                    *)
(***************************************************************************)
EXTENDS LispFormat, FiniteSets

CONSTANT ArgLists     \* for an element of LispInputs, the argument lists considered

(* Of each type, the kinds of the values it has.                            *)
Kinds(type) ==
  CASE type = "CHARACTER_INTEGER_NULL" -> {"character", "integer", "nil"}
    [] type = "CHARACTER_NULL" -> {"character", "nil"}
    [] type = "CHARACTER" -> {"character"}
    [] type = "INTEGER_NULL" -> {"integer", "nil"}
    [] type = "INTEGER" -> {"integer"}
    [] type = "REAL" -> {"integer", "real"}
    [] type = "LIST" -> {"list", "nil"}
    [] type = "FORMATSTRING" -> {"format"}
    [] type = "FUNCTION" -> {"function"}
    [] type = "OBJECT" -> {"integer", "real", "character", "nil", "list", "format", "function"}

(* The arguments satisfy the constraints.                                   *)
Flat(seg) == FlattenSeq([i \in DOMAIN seg |-> [k \in 1..seg[i].repcount |-> seg[i]]])

RECURSIVE Accepts(_, _)
Accepts(l, args) ==
  LET initial == Flat(l.initial)
      loop    == Flat(l.repeated)
      exists(i) == i <= Len(initial) \/ loop # <<>>
      at(i) == IF i <= Len(initial) THEN initial[i]
               ELSE loop[((i - Len(initial) - 1) % Len(loop)) + 1]
  IN /\ \A i \in DOMAIN args :
          /\ exists(i)
          /\ args[i].kind \in Kinds(at(i).type)
          /\ at(i).type = "LIST" => Accepts(at(i).list, args[i].items)
     /\ exists(Len(args) + 1) => at(Len(args) + 1).presence = "OPTIONAL"

----------------------------------------------------------------------------
(* Outcomes are pairs: the number of arguments before the next one, and     *)
(* whether ~^ has been executed.  Without an outcome, there is an error.    *)
RECURSIVE Outcomes(_, _, _)        \* of the directives of a clause

(* Parameters.                                                              *)
RECURSIVE AfterParams(_, _, _, _)
AfterParams(d, i, args, p) ==
  LET types == Signature([terminator |-> ""], d.name)
      kinds == IF d.name = "!" THEN Kinds("CHARACTER_INTEGER_NULL")
               ELSE IF i <= Len(types) THEN Kinds(types[i]) ELSE {"nil"}
  IN IF i > Len(d.params) THEN {p}
     ELSE IF d.params[i].type # "V" THEN AfterParams(d, i + 1, args, p)
     ELSE IF p < Len(args) /\ args[p + 1].kind \in kinds THEN AfterParams(d, i + 1, args, p + 1)
     ELSE {}

(* Directives that use one argument.                                        *)
ArgumentType(name) ==
  CASE name \in {"A", "S", "W", "/", "P"} -> "OBJECT"
    [] name \in {"D", "B", "O", "X", "R"} -> "INTEGER"
    [] name = "C" -> "CHARACTER"
    [] name \in {"F", "E", "G", "$"} -> "REAL"
    [] OTHER -> "none"

Takes(args, p, type) ==
  IF p >= 0 /\ p < Len(args) /\ args[p + 1].kind \in Kinds(type) THEN {p + 1} ELSE {}

Then(ps, Next(_)) == UNION { Next(p) : p \in ps }
Going(ps) == ps \X {FALSE}

Gone(d, args, p) ==
  LET n == IF d.params = <<>> THEN IF d.at THEN 0 ELSE 1 ELSE d.params[1].value
      q == IF d.at THEN n ELSE IF d.colon THEN p - n ELSE p + n
  IN IF ParamType(d) \in {"V", "ARGCOUNT"} THEN 0..Len(args)
     ELSE {q} \cap (0..Len(args))

(* The clauses that may be selected, and <<>> if none is.                   *)
Selectable(node) ==
  ToSet(node.clauses) \cup (IF node.default THEN {} ELSE {<<>>})

Conditioned(node, args, p) ==
  LET d == node.dir
      nil == p < Len(args) /\ args[p + 1].kind = "nil"
  IN IF d.at THEN IF p >= Len(args) THEN {}
                  ELSE IF nil THEN Going({p + 1}) ELSE Outcomes(node.clauses[1], args, p)
     ELSE IF d.colon THEN IF p >= Len(args) THEN {}
                          ELSE Outcomes(node.clauses[IF nil THEN 1 ELSE 2], args, p + 1)
     ELSE Then(IF ParamType(d) = "NIL" THEN Takes(args, p, "INTEGER") ELSE {p},
               LAMBDA q : UNION { Outcomes(c, args, q) : c \in Selectable(node) })

(* Where an iteration over items may end that has come to "todo".           *)
RECURSIVE Iterated(_, _, _, _)
Iterated(body, items, todo, seen) ==
  LET results == UNION { Outcomes(body, items, p) : p \in (todo \ seen) \ {Len(items)} }
  IN IF todo \subseteq seen THEN {}
     ELSE (todo \cap {Len(items)}) \cup { r[1] : r \in { s \in results : s[2] } }
            \cup Iterated(body, items, { r[1] : r \in { s \in results : ~s[2] } }, seen \cup todo)

(* The ends of the iteration ~{, or ~:{, over items.                        *)
Ended(node, items) ==
  LET body == node.clauses[1]
      sublists == \A i \in DOMAIN items : items[i].kind \in Kinds("LIST")
  IN CASE node.dir.colon ->
            IF sublists /\ (body = <<>> \/ \A i \in DOMAIN items : Outcomes(body, items[i].items, 0) # {})
            THEN {Len(items)} ELSE {}
       [] ~node.dir.colon /\ body = <<>> -> 0..Len(items)
       [] OTHER -> Iterated(body, items, {0}, {})

Repeats(node, args, p) ==
  Then(IF node.clauses[1] = <<>> THEN Takes(args, p, "FORMATSTRING") ELSE {p},
       LAMBDA q :
         IF node.dir.at
         THEN Going({ q + n : n \in Ended(node, SubSeq(args, q + 1, Len(args))) })
         ELSE Going({ r \in Takes(args, q, "LIST") : Ended(node, args[r].items) # {} }))

OutcomesOf(node, args, q) ==
  LET d == node.dir
  IN CASE d.name = "P" /\ d.colon -> Going(Takes(args, q - 1, "OBJECT"))
       [] ArgumentType(d.name) # "none" /\ ~(d.name = "P" /\ d.colon) ->
            Going(Takes(args, q, ArgumentType(d.name)))
       [] d.name = "*" -> Going(Gone(d, args, q))
       [] d.name = "?" ->
            Then(Takes(args, q, "FORMATSTRING"),
                 LAMBDA r : Going(IF d.at THEN 0..Len(args) ELSE Takes(args, r, "LIST")))
       [] d.name = "!" ->
            Then(Takes(args, q, "FUNCTION"), LAMBDA r : Going(Takes(args, r, "OBJECT")))
       [] d.name = "^" -> {<<q, q = Len(args)>>}
       [] d.name = "(" -> Outcomes(node.clauses[1], args, q)
       [] d.name = "<" -> { <<r[1], FALSE>> : r \in Outcomes(FlattenSeq(node.clauses), args, q) }
       [] d.name = "[" -> Conditioned(node, args, q)
       [] d.name = "{" -> Repeats(node, args, q)
       [] OTHER -> Going({q})

Outcomes(nodes, args, p) ==
  IF nodes = <<>> THEN Going({p})
  ELSE UNION { IF r[2] THEN {r} ELSE Outcomes(Tail(nodes), args, r[1]) :
                 r \in Then(AfterParams(nodes[1].dir, 1, args, p),
                            LAMBDA q : OutcomesOf(nodes[1], args, q)) }

(* format can be called with the string and these arguments.                *)
Formats(body, args) == Outcomes(body, args, 0) # {}

----------------------------------------------------------------------------
(* Properties.                                                              *)

(* After each directive it is known which argument is the next one, and     *)
(* each round of an iteration uses some.  ~@* returns to the first.         *)
Returns(d) == d.name = "*" /\ d.at /\ d.params = <<>>
UsesArgument(d) == ArgumentType(d.name) # "none" /\ ~(d.name = "P" /\ d.colon)

RECURSIVE Definite(_)
Definite(body) ==
  \A n \in DOMAIN body :
    LET d == body[n].dir
    IN /\ Returns(d) \/ ((UsesArgument(d) \/ d.name \in {"?", "!", "^", "(", "{"}) /\ ~d.at)
       /\ \A clause \in ToSet(body[n].clauses) :
            /\ Definite(clause)
            /\ d.name = "{" /\ clause # <<>> =>
                 /\ \E k \in DOMAIN clause : UsesArgument(clause[k].dir)
                 /\ \A k \in DOMAIN clause : clause[k].dir.name \notin {"*", "("}

(* Whenever "format" can be called with the string and some arguments,      *)
(* these satisfy the constraints that the parser has found: with every      *)
(* jump, conditional, iteration and escape.  If the string is definite, no  *)
(* others do.  A string for which the parser fails is not considered here.  *)
ConstraintsExact ==
  frames = <<>> /\ verdict = <<>> =>
    LET p == Last(parsed)
    IN p.kind \in {"valid", "contradiction"} =>
         \A args \in ArgLists[alphabet] :
           LET accepted == p.kind = "valid" /\ Accepts(p.list, args)
           IN IF Formats(p.body, args) THEN accepted ELSE accepted => ~Definite(p.body)

(* The comparison of two lists decides whether they admit the same          *)
(* arguments, or, without equality, whether the second admits no others     *)
(* (format.h asks for the reverse): the normal form of a list is the same   *)
(* however it came about.                                                   *)
CheckDecides ==
  verdict # <<>> =>
    LET admits(i, args) == Accepts(parsed[i].list, args)
    IN /\ ~verdict[1] <=> \A args \in ArgLists[alphabet] : admits(1, args) <=> admits(2, args)
       /\ ~verdict[2] <=> \A args \in ArgLists[alphabet] : admits(2, args) => admits(1, args)

(* "Concatenate the initial and the repeated segments into a single         *)
(* segment." (format-lisp.c:2119): the parser comes to an end with every    *)
(* string.                                                                  *)
ParserEnds == \A i \in DOMAIN parsed : parsed[i].kind # "failed"
=============================================================================
