----------------------------- MODULE PluralEval -----------------------------
(****************************************************************************)
(* The value of a plural formula (plural_eval, eval-plural.h): a tree of    *)
(* records with an operation and arguments.  This is what the constant Eval *)
(* of Plural stands for.                                                    *)
(****************************************************************************)
EXTENDS Plural

Truth(b) == IF b THEN 1 ELSE 0

(* The operations that evaluate both of their arguments.                    *)
Apply(op, a, b) ==
  CASE op = "mult" -> (a * b) % Word
    [] op = "plus" -> (a + b) % Word
    [] op = "minus" -> (a - b) % Word
    [] op = "divide" -> IF b = 0 THEN SIGFPE ELSE a \div b
    [] op = "module" -> IF b = 0 THEN SIGFPE ELSE a % b
    [] op = "less_than" -> Truth(a < b)
    [] op = "greater_than" -> Truth(a > b)
    [] op = "less_or_equal" -> Truth(a <= b)
    [] op = "greater_or_equal" -> Truth(a >= b)
    [] op = "equal" -> Truth(a = b)
    [] op = "not_equal" -> Truth(a # b)

RECURSIVE plural_eval(_, _)
plural_eval(pexp, m) ==
  IF pexp.operation = "var" THEN m
  ELSE IF pexp.operation = "num" THEN pexp.num
  ELSE
    LET left == plural_eval(pexp.args[1], m)
        right == plural_eval(pexp.args[2], m)
    IN IF left = SIGFPE THEN SIGFPE
       ELSE CASE pexp.operation = "lnot" -> Truth(left = 0)
              [] pexp.operation = "lor" ->
                   IF left # 0 THEN 1 ELSE IF right = SIGFPE THEN SIGFPE ELSE Truth(right # 0)
              [] pexp.operation = "land" ->
                   IF left = 0 THEN 0 ELSE IF right = SIGFPE THEN SIGFPE ELSE Truth(right # 0)
              [] pexp.operation = "qmop" ->
                   IF left # 0 THEN right ELSE plural_eval(pexp.args[3], m)
              [] OTHER -> IF right = SIGFPE THEN SIGFPE ELSE Apply(pexp.operation, left, right)
=============================================================================
