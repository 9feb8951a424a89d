---------------------------- MODULE TermOstream -----------------------------
(***************************************************************************)
(* The stream that writes colored output, of msgcat --color and others, to *)
(* a terminal (term-ostream.oo.c).  A line is output with as few escape    *)
(* sequences as the terminal allows.  While the terminal is not in its     *)
(* default state, signals are blocked and an exit handler stands by.       *)
(***************************************************************************)
EXTENDS Integers, Sequences, SequencesExt

CONSTANTS
  \* The terminals: records of the escape sequences they have (by the names
  \* of terminfo), max_colors, what colors cannot be combined with, and the
  \* sequences that clear more than their name says.
  Terminals,
  Styles,       \* the attributes a program asks for
  MaxChars      \* how many characters it writes (a bound of the model)

(* out_attr_change relies on orig_pair to clear no more than the colors.    *)
ASSUME TerminalAssumption == \A x \in Terminals : "op" \notin x.clearing

VARIABLES
  terminal,
  curr_attr, simp_attr,  \* current attributes, and simplified for the terminal
  attrbuffer,            \* the attributes of the characters of the line
  pending,                  \* what output_buffer has still to do
  out_fd,                \* the terminal the exit handler would restore, or -1
  blocked,               \* the signals that are blocked
  raised,                \* and those that were raised
  process,               \* "running", "stopped" or "ended"
  screen,                \* the attributes the terminal is set to
  requested,             \* of each character so far, the attributes asked for
  shown                  \* and those it is shown with

termvars == <<terminal, curr_attr, simp_attr, attrbuffer, pending, out_fd, blocked, raised,
              process, screen, requested, shown>>
termstream == <<curr_attr, simp_attr, attrbuffer, requested>>
termsignals == <<blocked, raised>>
display == <<screen, shown>>

default_attr ==
  [color |-> -1, bgcolor |-> -1, weight |-> "normal", posture |-> "normal", underline |-> "off"]

Has(name) == name \in terminal.has

ASSUME StylesAssumption == \A a \in Styles : a = [f \in DOMAIN default_attr |-> a[f]]

(* The capabilities term_ostream_create infers.                             *)
Supported ==
  { f \in DOMAIN default_attr :
      CASE f = "color" -> terminal.max_colors >= 8 /\ Has("setaf") /\ Has("op")
        [] f = "bgcolor" -> terminal.max_colors >= 8 /\ Has("setab") /\ Has("op")
        [] f = "weight" -> Has("bold") /\ Has("sgr0")
        [] f = "posture" -> Has("sitm") /\ (Has("ritm") \/ Has("sgr0"))
        [] f = "underline" -> Has("smul") /\ (Has("rmul") \/ Has("sgr0")) }

(* When colors and attributes cannot be combined, the color goes first.     *)
simplify_attributes(attr) ==
  LET colored == attr.color # default_attr.color \/ attr.bgcolor # default_attr.bgcolor
      Dropped(f) == f \notin Supported \/ (colored /\ f \in terminal.ncv)
  IN [f \in DOMAIN attr |-> IF Dropped(f) THEN default_attr[f] ELSE attr[f]]

----------------------------------------------------------------------------
(* Escape sequences.                                                        *)
Escape(name) == [do |-> "escape", name |-> name]
TurnOn(f, value) == [do |-> "turn_on", field |-> f, value |-> value]
If(condition, step) == IF condition THEN <<step>> ELSE <<>>

(* What a sequence does to a terminal.  sgr0 turns off at least what has no *)
(* sequence of its own.                                                     *)
Effect(attr, e) ==
  LET Reset(fields) == [f \in DOMAIN attr |-> IF f \in fields THEN default_attr[f] ELSE attr[f]]
  IN IF e.do = "turn_on" THEN [attr EXCEPT ![e.field] = e.value]
     ELSE IF e.name \in terminal.clearing THEN default_attr
     ELSE CASE e.name = "op" -> Reset({"color", "bgcolor"})
            [] e.name = "ritm" -> Reset({"posture"})
            [] e.name = "rmul" -> Reset({"underline"})
            [] e.name = "sgr0" ->
                 Reset({"weight"} \cup (IF Has("ritm") THEN {} ELSE {"posture"})
                                  \cup (IF Has("rmul") THEN {} ELSE {"underline"}))

MayClearMutant(escapes) == \E i \in DOMAIN escapes : escapes[i].name = "sgr0"
(* Each of them may have cleared all attributes and all color settings.     *)
MayClear(escapes) == escapes # <<>>

(* First what must be cleared, then what must be set.                       *)
out_attr_change(old, new) ==
  LET Off(f) == old[f] # default_attr[f] /\ new[f] = default_attr[f]
      pair == If(Off("color") \/ Off("bgcolor"), Escape("op"))
      clear ==
        If(Off("posture") /\ Has("ritm"), Escape("ritm"))
          \o If(Off("underline") /\ Has("rmul"), Escape("rmul"))
          \o If(\/ Off("weight")
                \/ Off("posture") /\ ~Has("ritm")
                \/ Off("underline") /\ ~Has("rmul"), Escape("sgr0"))
      On(f) ==
        If(/\ new[f] # default_attr[f]
           /\ \/ old[f] # new[f]
              \/ MayClear(clear)
              \/ pair # <<>> /\ f \in {"color", "bgcolor"},
           TurnOn(f, new[f]))
  IN pair \o clear \o On("color") \o On("bgcolor") \o On("weight") \o On("posture")
       \o On("underline")

(* The exit handler.                                                        *)
restore(attr) ==
  LET After(a, f, name) == IF f \in Supported THEN Effect(a, Escape(name)) ELSE a
      plain == IF {"color", "bgcolor"} \cap Supported # {} THEN Effect(attr, Escape("op"))
               ELSE attr
      light == After(plain, "weight", "sgr0")
      upright == After(light, "posture", IF Has("ritm") THEN "ritm" ELSE "sgr0")
  IN After(upright, "underline", IF Has("rmul") THEN "rmul" ELSE "sgr0")

----------------------------------------------------------------------------
(* Writing.                                                                 *)
Char == [do |-> "char"]
Newline == [do |-> "newline"]
Signals(how, signal) == [do |-> how, signal |-> signal]
Handler(fd) == [do |-> "handler", fd |-> fd]
Stdout == 1

ProtectMutant(steps) ==
  <<Signals("block", "fatal"), Handler(Stdout)>> \o steps
    \o <<Handler(-1), Signals("unblock", "fatal")>>
(* Fatal and stopping signals wait, and an exit is taken care of.           *)
Protect(steps) ==
  <<Signals("block", "fatal"), Signals("block", "stop"), Handler(Stdout)>> \o steps
    \o <<Handler(-1), Signals("unblock", "stop"), Signals("unblock", "fatal")>>

(* Output the buffered line: what needs no attributes first.                *)
output_buffer(attrs) ==
  LET Styled(i) == attrs[i] # default_attr
      n == CHOOSE k \in 0..Len(attrs) :
             /\ \A i \in 1..k : ~Styled(i)
             /\ k = Len(attrs) \/ Styled(k + 1)
      Before(i) == IF i = n + 1 THEN default_attr ELSE attrs[i - 1]
  IN [i \in 1..n |-> Char]
       \o IF n = Len(attrs) THEN <<>>
          ELSE Protect(FlattenSeq([j \in 1..(Len(attrs) - n) |->
                                     out_attr_change(Before(n + j), attrs[n + j])
                                       \o <<Char>>])
                         \o out_attr_change(attrs[Len(attrs)], default_attr))

TermInit ==
  /\ terminal \in Terminals
  /\ curr_attr = default_attr /\ simp_attr = default_attr
  /\ attrbuffer = <<>> /\ pending = <<>>
  /\ out_fd = -1 /\ blocked = {} /\ raised = {}
  /\ process = "running"
  /\ screen = default_attr /\ requested = <<>> /\ shown = <<>>

Ready == process = "running" /\ pending = <<>>

(* set_color, set_bgcolor, set_weight, set_posture, set_underline.          *)
SetAttributes ==
  /\ Ready /\ Len(requested) < MaxChars
  /\ \E attr \in Styles : curr_attr' = attr /\ simp_attr' = simplify_attributes(attr)
  /\ UNCHANGED <<terminal, attrbuffer, requested, pending, out_fd, termsignals, process, display>>

(* Write a character, or a newline, which outputs the line.                 *)
WriteMem ==
  /\ Ready
  /\ \/ /\ Len(requested) < MaxChars
        /\ attrbuffer' = Append(attrbuffer, simp_attr)
        /\ requested' = Append(requested, curr_attr)
        /\ UNCHANGED pending
     \/ /\ pending' = Append(output_buffer(attrbuffer), Newline)
        /\ attrbuffer' = <<>>
        /\ UNCHANGED requested
  /\ UNCHANGED <<terminal, curr_attr, simp_attr, out_fd, termsignals, process, display>>

(* Flush, which free does too.                                              *)
TermFlush ==
  /\ Ready /\ attrbuffer # <<>>
  /\ pending' = output_buffer(attrbuffer)
  /\ attrbuffer' = <<>>
  /\ UNCHANGED <<terminal, curr_attr, simp_attr, requested, out_fd, termsignals, process,
                 display>>

(* exit calls the exit handler.                                             *)
Exit ==
  /\ process' = "ended"
  /\ screen' = IF out_fd >= 0 THEN restore(screen) ELSE screen
  /\ UNCHANGED <<terminal, termstream, pending, out_fd, termsignals, shown>>

ExitProgram == Ready /\ Exit

(* The steps of output_buffer.  A write may fail, which ends the program.   *)
Does(kinds) == process = "running" /\ pending # <<>> /\ pending[1].do \in kinds

WriteOut ==
  /\ Does({"escape", "turn_on", "char", "newline"})
  /\ pending' = Tail(pending)
  /\ LET item == pending[1]
     IN /\ screen' = IF item.do \in {"escape", "turn_on"} THEN Effect(screen, item) ELSE screen
        /\ shown' = IF item.do = "char" THEN Append(shown, screen) ELSE shown
  /\ UNCHANGED <<terminal, termstream, out_fd, termsignals, process>>

WriteFails == Does({"escape", "turn_on", "char", "newline"}) /\ Exit

SetHandler ==
  /\ Does({"handler"})
  /\ out_fd' = pending[1].fd /\ pending' = Tail(pending)
  /\ UNCHANGED <<terminal, termstream, termsignals, process, display>>

BlockSignals ==
  /\ Does({"block", "unblock"})
  /\ blocked' = IF pending[1].do = "block" THEN blocked \cup {pending[1].signal}
                ELSE blocked \ {pending[1].signal}
  /\ pending' = Tail(pending)
  /\ UNCHANGED <<terminal, termstream, out_fd, raised, process, display>>

----------------------------------------------------------------------------
(* Signals.  SIGINT and the like end the program, without exit handlers;    *)
(* SIGTSTP and the like stop it, until it is continued.                     *)
Raise ==
  /\ process = "running"
  /\ \E s \in {"fatal", "stop"} \ raised : raised' = raised \cup {s}
  /\ UNCHANGED <<terminal, termstream, pending, out_fd, blocked, process, display>>

Deliver ==
  /\ process = "running"
  /\ \E s \in raised \ blocked :
       /\ raised' = raised \ {s}
       /\ process' = IF s = "fatal" THEN "ended" ELSE "stopped"
  /\ UNCHANGED <<terminal, termstream, pending, out_fd, blocked, display>>

Continue ==
  /\ process = "stopped"
  /\ process' = "running"
  /\ UNCHANGED <<terminal, termstream, pending, out_fd, termsignals, display>>

TermNext ==
  \/ SetAttributes \/ WriteMem \/ TermFlush \/ ExitProgram
  \/ WriteOut \/ WriteFails \/ SetHandler \/ BlockSignals
  \/ Raise \/ Deliver \/ Continue

TermSpec == TermInit /\ [][TermNext]_termvars

----------------------------------------------------------------------------
(* Properties.                                                              *)

(* Every character is shown with the attributes that were asked for, as far *)
(* as the terminal has them, whatever its sequences clear on the way.       *)
AttributesShown ==
  \A i \in 1..Len(shown) : shown[i] = simplify_attributes(requested[i])

(* Output of a line leaves the terminal in its default state, and so does a *)
(* program that a signal ends or stops, or that exits because a write has   *)
(* failed: "While a line is being output, we need to be careful to restore  *)
(* the terminal's settings in case of a fatal signal or an exit() call."    *)
DefaultRestored == Ready \/ process # "running" => screen = default_attr
=============================================================================
