--------------------------- MODULE ProcessProofs ---------------------------
(****************************************************************************)
(* Output that crosses the border of the process.  What arrives from a      *)
(* filter program, for pipes and outputs of any size; and what a signal     *)
(* leaves of a terminal's attributes, for any text, styles and signals.     *)
(****************************************************************************)
EXTENDS Filter, TermOstream, SequenceTheorems, WellFoundedInduction, TLAPS

(* What a filter answers to an empty string is at most a byte.              *)
Answerable ==
  \A j \in FilterInputs : \A i \in 1..Len(j.lengths) :
    j.lengths[i] > 0 \/ Len(j.outputs[i]) <= 1

FilterPoints == {"start", "create", "select", "write", "read", "wait", "done", "failed",
                 "no_process"}
Talking == filterpc \in {"select", "write", "read", "wait"}

FilterTypeOK ==
  /\ job \in FilterInputs
  /\ filterpc \in FilterPoints
  /\ results \in Seq({WithoutNul(job.outputs[i]) : i \in DOMAIN job.outputs})
  /\ length \in Nat /\ allocated \in Nat /\ from_child \in Nat /\ produced \in Nat

(* Every byte the filter has written has been read or is in the pipe, and   *)
(* the buffer can grow, or need not.                                        *)
BytesInv ==
  Talking =>
    /\ Current \in 1..Len(job.lengths)
    /\ length + from_child = produced /\ produced <= Len(Output)
    /\ length <= allocated
    /\ allocated >= 2 \/ (allocated = 1 /\ Len(Output) <= 1)
    /\ child = "writing" => produced < Len(Output)
    /\ child = "exited" => produced = Len(Output)
    /\ filterpc = "wait" => from_child = 0 /\ (Ended \/ produced = Len(Output))

FilterInv ==
  /\ FilterTypeOK /\ BytesInv /\ ResultsComplete
  /\ filterpc = "create" => Current \in 1..Len(job.lengths)
  /\ Len(results) <= Len(job.lengths)

-----------------------------------------------------------------------------
LEMMA OutputType ==
  ASSUME FilterTypeOK, Current \in 1..Len(job.lengths)
  PROVE  /\ Output \in Seq({"byte", "NUL"}) /\ Len(Output) \in Nat
         /\ Current \in DOMAIN job.outputs
<1>1. /\ job.lengths \in Seq(Nat) /\ job.outputs \in Seq(Seq({"byte", "NUL"}))
      /\ Len(job.lengths) <= Len(job.outputs)
  BY FilterAssumption DEF FilterTypeOK
<1>2. Current \in 1..Len(job.outputs)
  BY <1>1
<1>3. job.outputs[Current] \in Seq({"byte", "NUL"})
  BY <1>1, <1>2, ElementOfSeq
<1> QED BY <1>1, <1>2, <1>3, LenProperties DEF Output

LEMMA FilterInitially == FilterInit => FilterInv
<1> SUFFICES ASSUME FilterInit PROVE FilterInv
  OBVIOUS
<1>1. FilterTypeOK
  BY DEF FilterInit, FilterTypeOK, FilterPoints
<1>2. job.lengths \in Seq(Nat)
  BY FilterAssumption DEF FilterInit
<1> QED BY <1>1, <1>2, LenProperties
    DEF FilterInit, FilterInv, BytesInv, Talking, ResultsComplete

(* A read of the filter moves no byte of its output.                        *)
LEMMA ChildReadsKeeps ==
  ASSUME FilterInv, ChildReads, UNCHANGED <<job, filterpc, results>>
  PROVE  FilterInv'
<1>1. FilterTypeOK'
  BY DEF FilterInv, FilterTypeOK, ChildReads, output_side
<1>2. Current' = Current /\ Output' = Output /\ (ResultsComplete <=> ResultsComplete')
  BY DEF Current, Output, ResultsComplete
<1>3. BytesInv'
  <2> SUFFICES ASSUME Talking PROVE BytesInv'
    BY DEF BytesInv, Talking
  <2>1. Len(Output) \in Nat
    BY OutputType DEF FilterInv, BytesInv
  <2> QED BY <1>2, <2>1
      DEF FilterInv, FilterTypeOK, BytesInv, Talking, ChildReads, Begin, Ended, output_side
<1> QED BY <1>1, <1>2, <1>3 DEF FilterInv

(* A byte that it writes goes into the pipe, unless nobody reads any more.  *)
LEMMA ChildWritesKeeps ==
  ASSUME FilterInv, ChildWrites, UNCHANGED <<job, filterpc, results>>
  PROVE  FilterInv'
<1>1. FilterTypeOK'
  BY DEF FilterInv, FilterTypeOK, ChildWrites
<1>2. Current' = Current /\ Output' = Output /\ (ResultsComplete <=> ResultsComplete')
  BY DEF Current, Output, ResultsComplete
<1>3. BytesInv'
  <2> SUFFICES ASSUME Talking PROVE BytesInv'
    BY DEF BytesInv, Talking
  <2>1. Len(Output) \in Nat
    BY OutputType DEF FilterInv, BytesInv
  <2>2. CASE filterpc = "wait"
    BY <1>2, <2>1, <2>2
      DEF FilterInv, FilterTypeOK, BytesInv, Talking, ChildWrites, Ended
  <2>3. CASE filterpc # "wait"
    BY <1>2, <2>1, <2>3
      DEF FilterInv, FilterTypeOK, BytesInv, Talking, ChildWrites, Begin, Ended
  <2> QED BY <2>2, <2>3
<1> QED BY <1>1, <1>2, <1>3 DEF FilterInv

(* Steps of msgfilter that leave the output and the filter alone.           *)
LEMMA OutputAlone ==
  ASSUME FilterInv, UNCHANGED <<job, results, output_side, filterchild>>,
         filterpc' \in FilterPoints \ {"create", "wait"}, Talking
  PROVE  FilterInv'
<1>1. Current' = Current /\ Output' = Output /\ (ResultsComplete <=> ResultsComplete')
  BY DEF Current, Output, ResultsComplete
<1> QED BY <1>1 DEF FilterInv, FilterTypeOK, BytesInv, Talking, Ended, output_side, filterchild

LEMMA ProcessMessageKeeps == ASSUME FilterInv, ProcessMessage PROVE FilterInv'
<1>1. Current' = Current /\ (ResultsComplete <=> ResultsComplete')
  BY DEF Current, ResultsComplete, ProcessMessage
<1>2. FilterTypeOK'
  BY DEF FilterInv, FilterTypeOK, ProcessMessage, FilterGoto, NextString, FilterPoints,
    output_side, filterchild
<1>3. ~Talking'
  BY DEF ProcessMessage, FilterGoto, NextString, Talking
<1>4. filterpc' = "create" => Current \in 1..Len(job.lengths)
  <2>1. job.lengths \in Seq(Nat)
    BY FilterAssumption DEF FilterInv, FilterTypeOK
  <2>2. Len(results) \in Nat
    BY LenProperties DEF FilterInv, FilterTypeOK
  <2> QED BY <2>1, <2>2, LenProperties
      DEF FilterInv, ProcessMessage, FilterGoto, NextString, Current
<1> QED BY <1>1, <1>2, <1>3, <1>4 DEF FilterInv, BytesInv, ProcessMessage

(* There is room for two bytes, or the output has no more than one.         *)
LEMMA CreatePipeKeeps == ASSUME Answerable, FilterInv, CreatePipe PROVE FilterInv'
<1>1. Current' = Current /\ Output' = Output /\ (ResultsComplete <=> ResultsComplete')
  BY DEF Current, Output, ResultsComplete, CreatePipe
<1>2. Current \in 1..Len(job.lengths) /\ job' = job /\ results' = results
  BY DEF FilterInv, CreatePipe
<1>3. Len(Output) \in Nat
  BY <1>2, OutputType DEF FilterInv
<1>4. CASE filterpc' = "no_process"
  BY <1>1, <1>2, <1>4 DEF FilterInv, FilterTypeOK, FilterPoints, BytesInv, Talking, CreatePipe,
    FilterGoto, output_side, filterchild
<1>5. CASE filterpc' # "no_process"
  <2> DEFINE n == job.lengths[Current]
  <2>1. n \in Nat
    <3>1. job.lengths \in Seq(Nat)
      BY FilterAssumption DEF FilterInv, FilterTypeOK
    <3> QED BY <3>1, <1>2, ElementOfSeq
  <2>2. /\ length' = 0 /\ allocated' = n + n \div 4 + 1 /\ from_child' = 0
        /\ produced' = 0 /\ Begin(FALSE, 0) /\ filterpc' \in {"select", "write"}
    BY <1>5 DEF CreatePipe, FilterGoto
  <2>3. allocated' \in Nat /\ (n > 0 => allocated' >= 2) /\ (n = 0 => allocated' = 1)
    BY <2>1, <2>2
  <2>4. n > 0 \/ Len(Output) <= 1
    BY <1>2 DEF Answerable, FilterInv, FilterTypeOK, Output
  <2>5. /\ child' = "writing" => 0 < Len(Output)
        /\ child' = "exited" => 0 = Len(Output)
    BY <2>2 DEF Begin
  <2>6. FilterTypeOK'
    BY <1>2, <2>2, <2>3 DEF FilterInv, FilterTypeOK, FilterPoints
  <2>7. BytesInv'
    BY <1>1, <1>2, <1>3, <2>1, <2>2, <2>3, <2>4, <2>5 DEF BytesInv
  <2> QED BY <1>1, <1>2, <2>2, <2>6, <2>7 DEF FilterInv
<1> QED BY <1>4, <1>5

LEMMA TryReadKeeps == ASSUME FilterInv, TryRead PROVE FilterInv'
<1>1. /\ Current' = Current /\ Output' = Output /\ (ResultsComplete <=> ResultsComplete')
      /\ job' = job /\ results' = results /\ child' = child /\ produced' = produced
  BY DEF Current, Output, ResultsComplete, TryRead, filterchild
<1>2. /\ Talking /\ filterpc # "wait" /\ BytesInv
      /\ length \in Nat /\ allocated \in Nat /\ from_child \in Nat /\ produced \in Nat
  BY DEF FilterInv, FilterTypeOK, TryRead, Talking
<1>3. Len(Output) \in Nat
  BY <1>2, OutputType DEF FilterInv, BytesInv
(* The buffer grows when it is full, but for that of an empty string.       *)
<1>4. PICK room \in Nat :
        /\ allocated' = length + room
        /\ length + room >= 2 \/ (length + room = 1 /\ Len(Output) <= 1)
        /\ room = 0 => length = 1 /\ Len(Output) <= 1
  <2>1. CASE length = allocated
    <3>1. allocated' = allocated + allocated \div 2
      BY <2>1 DEF TryRead, Grown
    <3>2. allocated \div 2 \in Nat /\ (allocated >= 2 => allocated \div 2 >= 1)
            /\ (allocated = 1 => allocated \div 2 = 0)
      BY <1>2
    <3>3. allocated >= 2 \/ (allocated = 1 /\ Len(Output) <= 1)
      BY <1>2 DEF BytesInv
    <3> QED BY <3>1, <3>2, <3>3, <2>1, <1>2
  <2>2. CASE length # allocated
    <3>1. length < allocated /\ (allocated >= 2 \/ (allocated = 1 /\ Len(Output) <= 1))
      BY <2>2, <1>2 DEF BytesInv
    <3>2. PICK room \in Nat : allocated = length + room /\ room # 0
      BY <3>1, <1>2
    <3> QED BY <3>1, <3>2, <2>2 DEF TryRead
  <2> QED BY <2>1, <2>2
<1>5. allocated' \in Nat /\ allocated' - length = room
  BY <1>2, <1>4
<1>6. /\ length <= allocated'
      /\ allocated' >= 2 \/ (allocated' = 1 /\ Len(Output) <= 1)
  BY <1>2, <1>4
<1>7. CASE /\ room > 0 /\ from_child > 0
           /\ \E nread \in 1..Smaller(room, from_child) :
                /\ length' = length + nread /\ from_child' = from_child - nread
                /\ IF AllRead(room, nread) THEN FilterGoto("wait")
                   ELSE FilterGoto(IF job.have_select THEN "select" ELSE "write")
  <2>1. PICK nread \in 1..Smaller(room, from_child) :
          /\ length' = length + nread /\ from_child' = from_child - nread
          /\ IF AllRead(room, nread) THEN FilterGoto("wait")
             ELSE FilterGoto(IF job.have_select THEN "select" ELSE "write")
    BY <1>7
  <2>2. nread \in Nat /\ nread >= 1 /\ nread <= room /\ nread <= from_child
    BY <1>2 DEF Smaller
  <2>3. filterpc' \in {"select", "write"}
    BY <2>1, <2>2 DEF AllRead, FilterGoto
  <2>4. /\ length + nread \in Nat /\ from_child - nread \in Nat
        /\ length + nread <= length + room
        /\ (length + nread) + (from_child - nread) = length + from_child
    BY <2>2, <1>2
  <2>5. /\ length' \in Nat /\ from_child' \in Nat /\ length' <= allocated'
        /\ length' + from_child' = length + from_child
    BY <2>1, <2>4, <1>4
  <2>6. FilterTypeOK'
    BY <1>1, <1>2, <1>5, <2>3, <2>5 DEF FilterInv, FilterTypeOK, FilterPoints
  <2>7. BytesInv'
    BY <1>1, <1>2, <1>3, <1>6, <2>3, <2>5 DEF BytesInv, Talking
  <2> QED BY <1>1, <2>3, <2>6, <2>7 DEF FilterInv
<1>8. CASE /\ room = 0 \/ (from_child = 0 /\ Ended)
           /\ IF AllRead(room, 0) THEN FilterGoto("wait")
              ELSE FilterGoto(IF job.have_select THEN "select" ELSE "write")
           /\ UNCHANGED <<length, from_child>>
  (* The end is the end: the pipe is empty, and all is in the buffer.       *)
  <2>1. from_child = 0 /\ (Ended \/ produced = Len(Output))
    <3>1. CASE from_child = 0 /\ Ended
      BY <3>1
    <3>2. CASE room = 0
      <4>1. length + from_child = produced /\ produced <= Len(Output)
        BY <1>2 DEF BytesInv
      <4> QED BY <4>1, <3>2, <1>2, <1>3, <1>4
    <3> QED BY <3>1, <3>2, <1>8
  <2>2. filterpc' \in {"select", "write", "wait"}
    BY <1>8 DEF FilterGoto
  <2>3. FilterTypeOK'
    BY <1>1, <1>2, <1>5, <1>8, <2>2 DEF FilterInv, FilterTypeOK, FilterPoints
  <2>4. Ended' <=> Ended
    BY <1>1 DEF Ended
  <2>5. BytesInv'
    BY <1>1, <1>2, <1>6, <1>8, <2>1, <2>2, <2>4 DEF BytesInv, Talking
  <2> QED BY <1>1, <2>2, <2>3, <2>5 DEF FilterInv
<1>9. CASE /\ IF job.have_select THEN FilterGoto("failed")
              ELSE FilterGoto(IF job.have_select THEN "select" ELSE "write")
           /\ UNCHANGED <<length, from_child>>
  <2>1. filterpc' \in {"failed", "write"}
    BY <1>9 DEF FilterGoto
  <2>2. FilterTypeOK'
    BY <1>1, <1>2, <1>5, <1>9, <2>1 DEF FilterInv, FilterTypeOK, FilterPoints
  <2>3. BytesInv'
    BY <1>1, <1>2, <1>6, <1>9, <2>1 DEF BytesInv, Talking
  <2> QED BY <1>1, <2>1, <2>2, <2>3 DEF FilterInv
<1> QED BY <1>5, <1>7, <1>8, <1>9 DEF TryRead

(* The string is finished.                                                  *)
LEMMA WaitSubprocessKeeps == ASSUME FilterInv, WaitSubprocess PROVE FilterInv'
<1>1. Talking /\ BytesInv /\ job' = job
  BY DEF FilterInv, WaitSubprocess, Talking
<1>2. Current \in 1..Len(job.lengths)
  BY <1>1 DEF BytesInv
<1>3. /\ Output \in Seq({"byte", "NUL"}) /\ Len(Output) \in Nat
      /\ Current \in DOMAIN job.outputs
  BY <1>2, OutputType DEF FilterInv
<1>4. CASE child = "exited"
  <2>1. SubSeq(Output, 1, length) = Output
    <3>1. length = Len(Output)
      BY <1>1, <1>4 DEF BytesInv, WaitSubprocess, FilterInv, FilterTypeOK
    <3> QED BY <3>1, <1>3, SubSeqProperties, SeqEqual
  <2>2. results' = Append(results, WithoutNul(Output))
    BY <1>4, <2>1 DEF WaitSubprocess
  <2> DEFINE Filtered == {WithoutNul(job.outputs[i]) : i \in DOMAIN job.outputs}
  <2>3. results \in Seq(Filtered) /\ WithoutNul(Output) \in Filtered
    BY <1>3 DEF FilterInv, FilterTypeOK, Output
  <2>4. /\ results' \in Seq(Filtered) /\ Len(results') = Len(results) + 1
        /\ \A i \in 1..Len(results) : results'[i] = results[i]
        /\ results'[Len(results) + 1] = WithoutNul(Output)
    BY <2>2, <2>3, AppendProperties
  <2>5. Len(results) \in Nat
    BY <2>3, LenProperties
  <2>6. ResultsComplete'
    BY <2>4, <2>5, <1>1 DEF FilterInv, ResultsComplete, Output, Current
  <2>7. filterpc' \in {"create", "done"}
          /\ (filterpc' = "create" => Len(results') # Len(job.lengths))
    BY <1>1, <1>4 DEF WaitSubprocess, FilterGoto, NextString
  <2>8. Len(results') <= Len(job.lengths)
    BY <1>2, <2>4, <2>5 DEF Current
  <2>9. Len(job.lengths) \in Nat
    BY FilterAssumption, LenProperties DEF FilterInv, FilterTypeOK
  <2>10. filterpc' = "create" => Current' \in 1..Len(job.lengths)
    BY <2>4, <2>5, <2>7, <2>8, <2>9 DEF Current
  <2>11. FilterTypeOK'
    BY <1>1, <2>4, <2>7 DEF FilterInv, FilterTypeOK, FilterPoints, WaitSubprocess, output_side,
      filterchild
  <2>12. ~Talking'
    BY <2>7 DEF Talking
  <2> QED BY <1>1, <2>6, <2>8, <2>10, <2>11, <2>12 DEF FilterInv, BytesInv
<1>5. CASE child # "exited"
  <2>1. filterpc' = "failed" /\ results' = results
    BY <1>5 DEF WaitSubprocess, FilterGoto
  <2> QED BY <2>1, <1>1 DEF FilterInv, FilterTypeOK, FilterPoints, BytesInv, Talking,
        ResultsComplete, WaitSubprocess, output_side, filterchild
<1> QED BY <1>4, <1>5

LEMMA FilterStepKeeps == Answerable /\ FilterInv /\ [FilterNext]_filtervars => FilterInv'
<1> SUFFICES ASSUME Answerable, FilterInv, [FilterNext]_filtervars PROVE FilterInv'
  OBVIOUS
<1>1. CASE ProcessMessage BY <1>1, ProcessMessageKeeps
<1>2. CASE CreatePipe BY <1>2, CreatePipeKeeps
<1>3. CASE Select
  <2>1. Talking /\ filterpc' \in {"write", "read"}
    BY <1>3 DEF Select, Talking, FilterGoto
  <2> QED BY <2>1, <1>3, OutputAlone DEF Select, FilterPoints
<1>4. CASE TryWrite
  <2>1. Talking /\ filterpc' \in {"failed", "select", "read"}
    BY <1>4 DEF TryWrite, Talking, FilterGoto
  <2> QED BY <2>1, <1>4, OutputAlone DEF TryWrite, FilterPoints
<1>5. CASE TryRead BY <1>5, TryReadKeeps
<1>6. CASE WaitSubprocess BY <1>6, WaitSubprocessKeeps
<1>7. CASE ChildStep BY <1>7, ChildReadsKeeps, ChildWritesKeeps DEF ChildStep
<1>8. CASE UNCHANGED filtervars
  <2>1. Current' = Current /\ Output' = Output /\ (ResultsComplete <=> ResultsComplete')
    BY <1>8 DEF filtervars, Current, Output, ResultsComplete
  <2> QED BY <2>1, <1>8 DEF filtervars, FilterInv, FilterTypeOK, BytesInv, Talking, Ended
<1> QED BY <1>1, <1>2, <1>3, <1>4, <1>5, <1>6, <1>7, <1>8 DEF FilterNext, FilterStep

(* The whole output of the filter arrives, for pipes and outputs of any     *)
(* size, except where an empty string is answered with more than a byte.    *)
THEOREM OutputArrives == ASSUME Answerable PROVE FilterSpec => []ResultsComplete
<1>1. FilterInv => ResultsComplete
  BY DEF FilterInv
<1>2. FilterInv /\ [FilterNext]_filtervars => FilterInv'
  BY FilterStepKeeps
<1> QED BY <1>1, <1>2, FilterInitially, PTL DEF FilterSpec

-----------------------------------------------------------------------------
(* Colored output: the attributes a terminal may be set to.                 *)
Fields == DOMAIN default_attr
Colors == {"color", "bgcolor"}

IsScreen(s) ==
  /\ s = [f \in Fields |-> s[f]]
  /\ \A f \in Fields \ Supported : s[f] = default_attr[f]

LEMMA FieldNames ==
  /\ Fields = {"color", "bgcolor", "weight", "posture", "underline"}
  /\ default_attr = [f \in Fields |-> default_attr[f]]
BY DEF Fields, default_attr

LEMMA SameScreen ==
  ASSUME NEW s, NEW t, IsScreen(s), IsScreen(t), \A f \in Fields : s[f] = t[f]
  PROVE  s = t
BY DEF IsScreen

LEMMA DefaultScreen == IsScreen(default_attr)
BY FieldNames DEF IsScreen

(* What a sequence turns off, if it clears no more than its name says.      *)
Resets(name) ==
  CASE name = "op" -> Colors
    [] name = "ritm" -> {"posture"}
    [] name = "rmul" -> {"underline"}
    [] name = "sgr0" -> {"weight"} \cup (IF Has("ritm") THEN {} ELSE {"posture"})
                                   \cup (IF Has("rmul") THEN {} ELSE {"underline"})

LEMMA EscapeEffect ==
  ASSUME NEW s, IsScreen(s), NEW name \in {"op", "ritm", "rmul", "sgr0"}
  PROVE  LET e == Effect(s, Escape(name))
         IN /\ IsScreen(e)
            /\ \A f \in Fields : e[f] \in {s[f], default_attr[f]}
            /\ \A f \in Resets(name) : e[f] = default_attr[f]
            /\ name \notin terminal.clearing => \A f \in Fields \ Resets(name) : e[f] = s[f]
<1>. DEFINE e == Effect(s, Escape(name))
<1>1. DOMAIN s = Fields BY DEF IsScreen
<1>2. Resets(name) \subseteq Fields BY FieldNames DEF Resets, Colors
<1>3. e = IF name \in terminal.clearing THEN default_attr
          ELSE [f \in Fields |-> IF f \in Resets(name) THEN default_attr[f] ELSE s[f]]
  BY <1>1 DEF Effect, Escape, Resets, Colors
<1>. HIDE DEF e
<1>4. ASSUME name \in terminal.clearing
      PROVE  e = default_attr
  BY <1>3, <1>4
<1>5. ASSUME name \notin terminal.clearing
      PROVE  /\ e = [f \in Fields |-> e[f]]
             /\ \A f \in Fields : e[f] = IF f \in Resets(name) THEN default_attr[f] ELSE s[f]
  BY <1>3, <1>5
<1>6. IsScreen(e) BY <1>4, <1>5, DefaultScreen DEF IsScreen
<1>7. \A f \in Fields : e[f] \in {s[f], default_attr[f]} BY <1>4, <1>5
<1>8. \A f \in Resets(name) : e[f] = default_attr[f] BY <1>2, <1>4, <1>5
<1>9. name \notin terminal.clearing => \A f \in Fields \ Resets(name) : e[f] = s[f] BY <1>5
<1>. QED BY <1>6, <1>7, <1>8, <1>9 DEF e

LEMMA TurnOnEffect ==
  ASSUME NEW s, IsScreen(s), NEW f \in Fields, NEW v, f \in Supported \/ v = default_attr[f]
  PROVE  LET e == Effect(s, TurnOn(f, v))
         IN /\ IsScreen(e) /\ e[f] = v
            /\ \A g \in Fields \ {f} : e[g] = s[g]
<1>1. Effect(s, TurnOn(f, v)) = [s EXCEPT ![f] = v] BY DEF Effect, TurnOn
<1>. QED BY <1>1 DEF IsScreen

(* What the exit handler does.                                              *)
LEMMA Restored ==
  ASSUME NEW s, IsScreen(s)
  PROVE  restore(s) = default_attr
<1>. DEFINE After(a, f, name) == IF f \in Supported THEN Effect(a, Escape(name)) ELSE a
            posture == IF Has("ritm") THEN "ritm" ELSE "sgr0"
            underline == IF Has("rmul") THEN "rmul" ELSE "sgr0"
            plain == IF {"color", "bgcolor"} \cap Supported # {} THEN Effect(s, Escape("op")) ELSE s
            light == After(plain, "weight", "sgr0")
            upright == After(light, "posture", posture)
            last == After(upright, "underline", underline)
<1>1. restore(s) = last BY DEF restore
<1>2. posture \in {"ritm", "sgr0"} /\ "posture" \in Resets(posture) BY DEF Resets
<1>3. underline \in {"rmul", "sgr0"} /\ "underline" \in Resets(underline) BY DEF Resets
<1>4. Resets("op") = Colors /\ "weight" \in Resets("sgr0") BY DEF Resets
<1>. HIDE DEF posture, underline
<1>5. /\ IsScreen(plain) /\ \A f \in Colors : plain[f] = default_attr[f]
  BY <1>4, EscapeEffect, FieldNames DEF IsScreen, Colors
<1>. HIDE DEF plain
<1>6. /\ IsScreen(light)
      /\ \A f \in Colors \cup {"weight"} : light[f] = default_attr[f]
  BY <1>4, <1>5, EscapeEffect, FieldNames DEF IsScreen, Colors
<1>. HIDE DEF light
<1>7. /\ IsScreen(upright)
      /\ \A f \in Colors \cup {"weight", "posture"} : upright[f] = default_attr[f]
  <2>1. CASE "posture" \in Supported BY <1>2, <1>6, <2>1, EscapeEffect, FieldNames DEF Colors
  <2>2. CASE "posture" \notin Supported BY <1>6, <2>2, FieldNames DEF IsScreen, Colors
  <2>. QED BY <2>1, <2>2
<1>. HIDE DEF upright
<1>8. /\ IsScreen(last)
      /\ \A f \in Colors \cup {"weight", "posture", "underline"} : last[f] = default_attr[f]
  <2>1. CASE "underline" \in Supported BY <1>3, <1>7, <2>1, EscapeEffect, FieldNames DEF Colors
  <2>2. CASE "underline" \notin Supported BY <1>7, <2>2, FieldNames DEF IsScreen, Colors
  <2>. QED BY <2>1, <2>2
<1>. HIDE DEF last
<1>. QED BY <1>1, <1>8, DefaultScreen, SameScreen, FieldNames DEF Colors

(* The state that a step of output_buffer changes: the attributes the       *)
(* terminal has, the number of characters shown, and what guards the        *)
(* terminal: the signals blocked, and the exit handler.                     *)
At(s, n, g) == [screen |-> s, n |-> n, guards |-> g]
AllGuards == {"fatal", "stop", "exit"}

StepOf(a, x) ==
  [screen |-> IF x.do \in {"escape", "turn_on"} THEN Effect(a.screen, x) ELSE a.screen,
   n |-> IF x.do = "char" THEN a.n + 1 ELSE a.n,
   guards |-> CASE x.do = "block" -> a.guards \cup {x.signal}
                [] x.do = "unblock" -> a.guards \ {x.signal}
                [] x.do = "handler" -> IF x.fd >= 0 THEN a.guards \cup {"exit"}
                                       ELSE a.guards \ {"exit"}
                [] OTHER -> a.guards]

(* Terminals that are not in their default state are guarded, and the next  *)
(* character is shown as it was asked for.                                  *)
Guarded(a) == a.screen # default_attr => AllGuards \subseteq a.guards

Kinds == {"escape", "turn_on", "char", "newline", "block", "unblock", "handler"}

Good(a, x) ==
  /\ IsScreen(a.screen) /\ a.n \in Nat /\ Guarded(a)
  /\ x.do \in Kinds
  /\ x.do \in {"block", "unblock"} => x.signal \in {"fatal", "stop"}
  /\ x.do = "handler" => x.fd \in {-1, Stdout}
  /\ x.do = "char" => /\ a.n + 1 \in DOMAIN requested
                      /\ a.screen = simplify_attributes(requested[a.n + 1])

IsList(q) == q \in Seq({ q[i] : i \in DOMAIN q })

(* The steps q lead from a to b, and each of them is good.                  *)
Leads(a, q, b) ==
  /\ IsList(q)
  /\ \E tr : /\ tr[1] = a /\ tr[Len(q) + 1] = b
             /\ \A i \in 1..Len(q) : Good(tr[i], q[i]) /\ tr[i + 1] = StepOf(tr[i], q[i])

LEMMA ListFacts ==
  /\ IsList(<<>>)
  /\ \A x : IsList(<<x>>)
  /\ \A x, y, z : IsList(<<x, y, z>>)
  /\ \A p, q : IsList(p) /\ IsList(q) => IsList(p \o q)
  /\ \A S : \A q \in Seq(S) : IsList(q)
<1>1. \A S : \A q \in Seq(S) : IsList(q) BY DEF IsList
<1>0. <<>> \in Seq({}) OBVIOUS
<1>2. \A x : <<x>> \in Seq({x}) OBVIOUS
<1>3. \A x, y, z : <<x, y, z>> \in Seq({x, y, z}) OBVIOUS
<1>4. ASSUME NEW p, NEW q, IsList(p), IsList(q) PROVE IsList(p \o q)
  <2>1. PICK S : p \in Seq(S) BY <1>4 DEF IsList
  <2>2. PICK T : q \in Seq(T) BY <1>4 DEF IsList
  <2>3. p \in Seq(S \cup T) /\ q \in Seq(S \cup T) BY <2>1, <2>2
  <2>4. p \o q \in Seq(S \cup T) BY <2>3
  <2>. QED BY <1>1, <2>4
<1>5. IsList(<<>>) BY <1>0, <1>1
<1>6. \A x : IsList(<<x>>) BY <1>1, <1>2
<1>7. \A x, y, z : IsList(<<x, y, z>>) BY <1>1, <1>3
<1>. QED BY <1>1, <1>4, <1>5, <1>6, <1>7

LEMMA AtMostOne ==
  ASSUME NEW S, NEW x \in S, NEW l, l = <<>> \/ l = <<x>>
  PROVE  l \in Seq(S)
<1>1. <<>> \in Seq(S) /\ <<x>> \in Seq(S) OBVIOUS
<1>. QED BY <1>1, Zenon

LEMMA Reassociate ==
  ASSUME NEW S, NEW a \in Seq(S), NEW b \in Seq(S), NEW c \in Seq(S), NEW d \in Seq(S)
  PROVE  a \o (b \o c \o d) = a \o b \o c \o d
OBVIOUS

LEMMA LeadsNowhere == \A a, b : Leads(a, <<>>, b) <=> a = b
<1>1. ASSUME NEW a PROVE Leads(a, <<>>, a)
  <2>. DEFINE tr == [i \in {1} |-> a]
  <2>1. tr[1] = a OBVIOUS
  <2>. HIDE DEF tr
  <2>. QED BY <2>1, ListFacts DEF Leads
<1>2. \A a, b : Leads(a, <<>>, b) => a = b BY DEF Leads
<1>. QED BY <1>1, <1>2

LEMMA LeadsOne ==
  ASSUME NEW a, NEW x, Good(a, x)
  PROVE  Leads(a, <<x>>, StepOf(a, x))
<1>. DEFINE tr == [i \in {1, 2} |-> IF i = 1 THEN a ELSE StepOf(a, x)]
<1>1. tr[1] = a /\ tr[2] = StepOf(a, x) OBVIOUS
<1>2. Len(<<x>>) = 1 /\ <<x>>[1] = x OBVIOUS
<1>. HIDE DEF tr
<1>. QED BY <1>1, <1>2, ListFacts DEF Leads

LEMMA LeadsOn ==
  ASSUME NEW a, NEW b, NEW c, NEW p, NEW q, Leads(a, p, b), Leads(b, q, c)
  PROVE  Leads(a, p \o q, c)
<1>1. IsList(p) /\ IsList(q) /\ IsList(p \o q) BY ListFacts DEF Leads
<1>2. PICK S : p \in Seq(S) BY <1>1 DEF IsList
<1>3. PICK T : q \in Seq(T) BY <1>1 DEF IsList
<1>4. p \in Seq(S \cup T) /\ q \in Seq(S \cup T) BY <1>2, <1>3
<1>. DEFINE m == Len(p)
            n == Len(q)
<1>5. /\ m \in Nat /\ n \in Nat /\ Len(p \o q) = m + n
      /\ \A i \in 1..(m + n) : (p \o q)[i] = IF i <= m THEN p[i] ELSE q[i - m]
  BY <1>4
<1>6. PICK t1 : /\ t1[1] = a /\ t1[m + 1] = b
                /\ \A i \in 1..m : Good(t1[i], p[i]) /\ t1[i + 1] = StepOf(t1[i], p[i])
  BY DEF Leads
<1>7. PICK t2 : /\ t2[1] = b /\ t2[n + 1] = c
                /\ \A i \in 1..n : Good(t2[i], q[i]) /\ t2[i + 1] = StepOf(t2[i], q[i])
  BY DEF Leads
<1>. HIDE DEF m, n
<1>. DEFINE tr == [i \in 1..(m + n + 1) |-> IF i <= m THEN t1[i] ELSE t2[i - m]]
<1>8. \A i \in 1..(m + 1) : tr[i] = t1[i]
  <2>1. tr[m + 1] = t2[1] BY <1>5
  <2>. QED BY <1>5, <1>6, <1>7, <2>1
<1>9. \A i \in (m + 1)..(m + n + 1) : tr[i] = t2[i - m] BY <1>5
<1>. HIDE DEF tr
<1>10. tr[1] = a /\ tr[m + n + 1] = c
  <2>1. 1 \in 1..(m + 1) /\ m + n + 1 \in (m + 1)..(m + n + 1) /\ (m + n + 1) - m = n + 1
    BY <1>5
  <2>. QED BY <1>6, <1>7, <1>8, <1>9, <2>1
<1>11. ASSUME NEW i \in 1..(m + n)
       PROVE  Good(tr[i], (p \o q)[i]) /\ tr[i + 1] = StepOf(tr[i], (p \o q)[i])
  <2>1. CASE i <= m
    <3>1. i \in 1..m /\ i \in 1..(m + 1) /\ i + 1 \in 1..(m + 1) BY <1>5, <2>1
    <3>. QED BY <1>5, <1>6, <1>8, <2>1, <3>1
  <2>2. CASE i > m
    <3>1. /\ i - m \in 1..n /\ i \in (m + 1)..(m + n + 1) /\ i + 1 \in (m + 1)..(m + n + 1)
          /\ (i + 1) - m = (i - m) + 1 /\ ~(i <= m)
      BY <1>5, <2>2
    <3>2. Good(t2[i - m], q[i - m]) /\ t2[(i - m) + 1] = StepOf(t2[i - m], q[i - m])
      BY <1>7, <3>1
    <3>3. tr[i] = t2[i - m] /\ tr[i + 1] = t2[(i - m) + 1] BY <1>9, <3>1
    <3>4. (p \o q)[i] = q[i - m] BY <1>5, <3>1
    <3>. QED BY <3>2, <3>3, <3>4
  <2>. QED BY <1>5, <2>1, <2>2
<1>. QED BY <1>1, <1>5, <1>10, <1>11 DEF Leads

LEMMA LeadsTail ==
  ASSUME NEW a, NEW q, NEW b, Leads(a, q, b), q # <<>>
  PROVE  Good(a, q[1]) /\ Leads(StepOf(a, q[1]), Tail(q), b)
<1>1. PICK S : q \in Seq(S) BY DEF Leads, IsList
<1>. DEFINE n == Len(q)
<1>2. /\ n \in Nat /\ n >= 1 /\ Tail(q) \in Seq(S) /\ Len(Tail(q)) = n - 1
      /\ \A i \in 1..(n - 1) : Tail(q)[i] = q[i + 1]
  BY <1>1
<1>3. PICK t : /\ t[1] = a /\ t[n + 1] = b
               /\ \A i \in 1..n : Good(t[i], q[i]) /\ t[i + 1] = StepOf(t[i], q[i])
  BY DEF Leads
<1>. HIDE DEF n
<1>4. Good(a, q[1]) /\ t[2] = StepOf(a, q[1])
  <2>1. 1 \in 1..n BY <1>2
  <2>. QED BY <1>3, <2>1
<1>. DEFINE tr == [i \in 1..n |-> t[i + 1]]
<1>5. \A i \in 1..n : tr[i] = t[i + 1] OBVIOUS
<1>. HIDE DEF tr
<1>6. tr[1] = StepOf(a, q[1]) /\ tr[(n - 1) + 1] = b
  <2>1. 1 \in 1..n /\ n \in 1..n /\ 1 + 1 = 2 /\ (n - 1) + 1 = n BY <1>2
  <2>2. tr[1] = t[1 + 1] /\ tr[n] = t[n + 1] BY <1>5, <2>1
  <2>3. tr[1] = t[2] /\ tr[(n - 1) + 1] = t[n + 1] BY <2>1, <2>2
  <2>. QED BY <1>3, <1>4, <2>3
<1>7. ASSUME NEW i \in 1..(n - 1)
      PROVE  Good(tr[i], Tail(q)[i]) /\ tr[i + 1] = StepOf(tr[i], Tail(q)[i])
  <2>1. i \in 1..n /\ i + 1 \in 1..n BY <1>2
  <2>2. tr[i] = t[i + 1] /\ tr[i + 1] = t[(i + 1) + 1] BY <1>5, <2>1
  <2>3. Good(t[i + 1], q[i + 1]) /\ t[(i + 1) + 1] = StepOf(t[i + 1], q[i + 1]) BY <1>3, <2>1
  <2>4. Tail(q)[i] = q[i + 1] BY <1>2
  <2>. QED BY <2>2, <2>3, <2>4
<1>8. IsList(Tail(q)) BY <1>2, ListFacts
<1>. QED BY <1>2, <1>4, <1>6, <1>7, <1>8 DEF Leads

(* A sequence that is output, or not.                                       *)
LEMMA LeadsIf ==
  ASSUME NEW s, NEW n \in Nat, NEW g, IsScreen(s), AllGuards \subseteq g,
         NEW x, x.do \in {"escape", "turn_on"}, NEW l, l = <<>> \/ l = <<x>>
  PROVE  Leads(At(s, n, g), l, At(IF l = <<>> THEN s ELSE Effect(s, x), n, g))
<1>1. CASE l = <<>> BY <1>1, LeadsNowhere
<1>2. CASE l = <<x>>
  <2>1. Good(At(s, n, g), x) BY DEF Good, At, Guarded, Kinds
  <2>2. StepOf(At(s, n, g), x) = At(Effect(s, x), n, g) BY DEF StepOf, At
  <2>3. l # <<>> BY <1>2
  <2>. QED BY <1>2, <2>1, <2>2, <2>3, LeadsOne
<1>. QED BY <1>1, <1>2

LEMMA LeadsEscape ==
  ASSUME NEW s, NEW n \in Nat, NEW g, IsScreen(s), AllGuards \subseteq g,
         NEW name \in {"op", "ritm", "rmul", "sgr0"},
         NEW l, l = <<>> \/ l = <<Escape(name)>>
  PROVE  \E e : /\ Leads(At(s, n, g), l, At(e, n, g)) /\ IsScreen(e)
                /\ \A f \in Fields : e[f] \in {s[f], default_attr[f]}
                /\ l # <<>> => \A f \in Resets(name) : e[f] = default_attr[f]
                /\ l = <<>> \/ name \notin terminal.clearing
                     => \A f \in Fields \ Resets(name) : e[f] = s[f]
                /\ l = <<>> => e = s
<1>. DEFINE e == IF l = <<>> THEN s ELSE Effect(s, Escape(name))
<1>1. Leads(At(s, n, g), l, At(e, n, g)) BY LeadsIf DEF Escape
<1>2. /\ IsScreen(e) /\ \A f \in Fields : e[f] \in {s[f], default_attr[f]}
      /\ l # <<>> => \A f \in Resets(name) : e[f] = default_attr[f]
      /\ l = <<>> \/ name \notin terminal.clearing
           => \A f \in Fields \ Resets(name) : e[f] = s[f]
      /\ l = <<>> => e = s
  BY EscapeEffect
<1>. HIDE DEF e
<1>. QED BY <1>1, <1>2

After(s, l, x) == IF l = <<>> THEN s ELSE Effect(s, x)

LEMMA LeadsTurnOn ==
  ASSUME NEW s, NEW n \in Nat, NEW g, IsScreen(s), AllGuards \subseteq g,
         NEW f \in Fields, NEW v, f \in Supported \/ v = default_attr[f],
         NEW l, l = <<>> \/ l = <<TurnOn(f, v)>>
  PROVE  LET e == After(s, l, TurnOn(f, v))
         IN /\ Leads(At(s, n, g), l, At(e, n, g)) /\ IsScreen(e)
            /\ \A h \in Fields \ {f} : e[h] = s[h]
            /\ l # <<>> => e[f] = v
<1>1. Leads(At(s, n, g), l, At(After(s, l, TurnOn(f, v)), n, g))
  BY LeadsIf DEF TurnOn, After
<1>. QED BY <1>1, TurnOnEffect DEF After

(* out_attr_change takes the terminal from any attributes to any others.    *)
LEMMA ChangeLeads ==
  ASSUME NEW old, NEW new, IsScreen(old), IsScreen(new), terminal \in Terminals,
         NEW n \in Nat, NEW g, AllGuards \subseteq g
  PROVE  Leads(At(old, n, g), out_attr_change(old, new), At(new, n, g))
<1>. DEFINE Off(f) == old[f] # default_attr[f] /\ new[f] = default_attr[f]
            offPair == Off("color") \/ Off("bgcolor")
            offItalics == Off("posture") /\ Has("ritm")
            offUnderline == Off("underline") /\ Has("rmul")
            offAll == \/ Off("weight")
                      \/ Off("posture") /\ ~Has("ritm")
                      \/ Off("underline") /\ ~Has("rmul")
            pair == If(offPair, Escape("op"))
            l1 == If(offItalics, Escape("ritm"))
            l2 == If(offUnderline, Escape("rmul"))
            l3 == If(offAll, Escape("sgr0"))
            clear == l1 \o l2 \o l3
            Must(f) == /\ new[f] # default_attr[f]
                       /\ \/ old[f] # new[f]
                          \/ MayClear(clear)
                          \/ pair # <<>> /\ f \in {"color", "bgcolor"}
            On(f) == If(Must(f), TurnOn(f, new[f]))
<1>1. out_attr_change(old, new) = pair \o clear \o On("color") \o On("bgcolor")
        \o On("weight") \o On("posture") \o On("underline")
  BY DEF out_attr_change
<1>2. \A c, x : If(c, x) = <<>> \/ If(c, x) = <<x>> BY DEF If
<1>3. /\ offPair => pair # <<>>
      /\ offItalics => l1 # <<>>
      /\ offUnderline => l2 # <<>>
      /\ offAll => l3 # <<>>
  BY DEF If
<1>4. /\ pair = <<>> \/ pair = <<Escape("op")>>
      /\ l1 = <<>> \/ l1 = <<Escape("ritm")>>
      /\ l2 = <<>> \/ l2 = <<Escape("rmul")>>
      /\ l3 = <<>> \/ l3 = <<Escape("sgr0")>>
  BY <1>2
<1>5. clear = <<>> => l1 = <<>> /\ l2 = <<>> /\ l3 = <<>>
  <2>. HIDE DEF l1, l2, l3
  <2>1. PICK S : l1 \in Seq(S) /\ l2 \in Seq(S) /\ l3 \in Seq(S)
    <3>. DEFINE S == {Escape("ritm"), Escape("rmul"), Escape("sgr0")}
    <3>1. Escape("ritm") \in S /\ Escape("rmul") \in S /\ Escape("sgr0") \in S OBVIOUS
    <3>. HIDE DEF S
    <3>2. l1 \in Seq(S) /\ l2 \in Seq(S) /\ l3 \in Seq(S) BY <1>4, <3>1, AtMostOne
    <3>. QED BY <3>2
  <2>2. Len(clear) = Len(l1) + Len(l2) + Len(l3) BY <2>1
  <2>3. Len(l1) \in Nat /\ Len(l2) \in Nat /\ Len(l3) \in Nat BY <2>1
  <2>4. SUFFICES ASSUME clear = <<>> PROVE l1 = <<>> /\ l2 = <<>> /\ l3 = <<>> OBVIOUS
  <2>5. Len(l1) = 0 /\ Len(l2) = 0 /\ Len(l3) = 0 BY <2>2, <2>3, <2>4
  <2>. QED BY <2>1, <2>5
<1>. DEFINE Reached(l, e) == Leads(At(old, n, g), l, At(e, n, g)) /\ IsScreen(e)
<1>. HIDE DEF pair, l1, l2, l3
<1>6. PICK s1 : /\ Reached(pair, s1)
                /\ \A f \in Fields : s1[f] \in {old[f], default_attr[f]}
                /\ pair # <<>> => \A f \in Colors : s1[f] = default_attr[f]
                /\ \A f \in Fields : pair = <<>> \/ f \notin Colors => s1[f] = old[f]
  <2>1. "op" \notin terminal.clearing BY TerminalAssumption
  <2>2. Resets("op") = Colors BY DEF Resets
  <2>. QED BY <1>4, <2>1, <2>2, LeadsEscape
<1>7. PICK s2 : /\ Reached(pair \o l1, s2)
                /\ \A f \in Fields : s2[f] \in {s1[f], default_attr[f]}
                /\ l1 # <<>> => s2["posture"] = default_attr["posture"]
                /\ l1 = <<>> => s2 = s1
  <2>1. "posture" \in Resets("ritm") BY DEF Resets
  <2>2. PICK e : /\ Leads(At(s1, n, g), l1, At(e, n, g)) /\ IsScreen(e)
                 /\ \A f \in Fields : e[f] \in {s1[f], default_attr[f]}
                 /\ l1 # <<>> => \A f \in Resets("ritm") : e[f] = default_attr[f]
                 /\ l1 = <<>> => e = s1
    <3>1. IsScreen(s1) BY <1>6
    <3>2. l1 = <<>> \/ l1 = <<Escape("ritm")>> BY <1>4
    <3>3. "ritm" \in {"op", "ritm", "rmul", "sgr0"} OBVIOUS
    <3>. QED BY <3>1, <3>2, <3>3, LeadsEscape
  <2>3. Reached(pair \o l1, e) BY <1>6, <2>2, LeadsOn
  <2>. QED BY <2>1, <2>2, <2>3
<1>8. PICK s3 : /\ Reached(pair \o l1 \o l2, s3)
                /\ \A f \in Fields : s3[f] \in {s2[f], default_attr[f]}
                /\ l2 # <<>> => s3["underline"] = default_attr["underline"]
                /\ l2 = <<>> => s3 = s2
  <2>1. "underline" \in Resets("rmul") BY DEF Resets
  <2>2. PICK e : /\ Leads(At(s2, n, g), l2, At(e, n, g)) /\ IsScreen(e)
                 /\ \A f \in Fields : e[f] \in {s2[f], default_attr[f]}
                 /\ l2 # <<>> => \A f \in Resets("rmul") : e[f] = default_attr[f]
                 /\ l2 = <<>> => e = s2
    <3>1. IsScreen(s2) BY <1>7
    <3>2. l2 = <<>> \/ l2 = <<Escape("rmul")>> BY <1>4
    <3>3. "rmul" \in {"op", "ritm", "rmul", "sgr0"} OBVIOUS
    <3>. QED BY <3>1, <3>2, <3>3, LeadsEscape
  <2>3. Reached(pair \o l1 \o l2, e) BY <1>7, <2>2, LeadsOn
  <2>. QED BY <2>1, <2>2, <2>3
<1>9. PICK s4 : /\ Reached(pair \o l1 \o l2 \o l3, s4)
                /\ \A f \in Fields : s4[f] \in {s3[f], default_attr[f]}
                /\ l3 # <<>> => /\ s4["weight"] = default_attr["weight"]
                                /\ Has("ritm") \/ s4["posture"] = default_attr["posture"]
                                /\ Has("rmul") \/ s4["underline"] = default_attr["underline"]
                /\ l3 = <<>> => s4 = s3
  <2>1. /\ "weight" \in Resets("sgr0")
        /\ Has("ritm") \/ "posture" \in Resets("sgr0")
        /\ Has("rmul") \/ "underline" \in Resets("sgr0")
    BY DEF Resets
  <2>2. PICK e : /\ Leads(At(s3, n, g), l3, At(e, n, g)) /\ IsScreen(e)
                 /\ \A f \in Fields : e[f] \in {s3[f], default_attr[f]}
                 /\ l3 # <<>> => \A f \in Resets("sgr0") : e[f] = default_attr[f]
                 /\ l3 = <<>> => e = s3
    <3>1. IsScreen(s3) BY <1>8
    <3>2. l3 = <<>> \/ l3 = <<Escape("sgr0")>> BY <1>4
    <3>3. "sgr0" \in {"op", "ritm", "rmul", "sgr0"} OBVIOUS
    <3>. QED BY <3>1, <3>2, <3>3, LeadsEscape
  <2>3. Reached(pair \o l1 \o l2 \o l3, e) BY <1>8, <2>2, LeadsOn
  <2>. QED BY <2>1, <2>2, <2>3
<1>10. pair \o clear = pair \o l1 \o l2 \o l3
  <2>. DEFINE S == {Escape("op"), Escape("ritm"), Escape("rmul"), Escape("sgr0")}
  <2>1. /\ Escape("op") \in S /\ Escape("ritm") \in S
        /\ Escape("rmul") \in S /\ Escape("sgr0") \in S
    OBVIOUS
  <2>. HIDE DEF S
  <2>2. pair \in Seq(S) /\ l1 \in Seq(S) /\ l2 \in Seq(S) /\ l3 \in Seq(S)
    BY <1>4, <2>1, AtMostOne
  <2>3. PICK T, a, b, c, d :
          /\ a = pair /\ b = l1 /\ c = l2 /\ d = l3
          /\ a \in Seq(T) /\ b \in Seq(T) /\ c \in Seq(T) /\ d \in Seq(T)
    BY <2>2
  <2>4. a \o (b \o c \o d) = a \o b \o c \o d BY <2>3, Reassociate
  <2>. QED BY <2>3, <2>4
(* What must be cleared is, and without a reason nothing else is.           *)
<1>11. \A f \in Fields : new[f] = default_attr[f] => s4[f] = default_attr[f]
  <2>1. ASSUME NEW f \in Fields, old[f] = default_attr[f] PROVE s4[f] = default_attr[f]
    BY <1>6, <1>7, <1>8, <1>9, <2>1
  <2>2. ASSUME NEW f \in Colors, Off(f) PROVE s4[f] = default_attr[f]
    BY <1>3, <1>6, <1>7, <1>8, <1>9, <2>2, FieldNames DEF Colors
  <2>3. ASSUME Off("weight") PROVE s4["weight"] = default_attr["weight"]
    BY <1>3, <1>9, <2>3
  <2>4. ASSUME Off("posture") PROVE s4["posture"] = default_attr["posture"]
    BY <1>3, <1>7, <1>8, <1>9, <2>4, FieldNames
  <2>5. ASSUME Off("underline") PROVE s4["underline"] = default_attr["underline"]
    BY <1>3, <1>8, <1>9, <2>5, FieldNames
  <2>. QED BY <2>1, <2>2, <2>3, <2>4, <2>5, FieldNames DEF Colors
<1>12. \A f \in Fields : ~Must(f) /\ new[f] # default_attr[f] => s4[f] = new[f]
  BY <1>5, <1>6, <1>7, <1>8, <1>9 DEF MayClear, Colors
<1>13. \A f \in Fields : On(f) = IF Must(f) THEN <<TurnOn(f, new[f])>> ELSE <<>>
  BY DEF If
<1>14. \A f \in Fields : f \in Supported \/ new[f] = default_attr[f]
  BY DEF IsScreen
<1>. HIDE DEF Must, On, clear
<1>15. \A f \in Fields : On(f) = <<>> => s4[f] = new[f]
  <2>. SUFFICES ASSUME NEW f \in Fields, On(f) = <<>> PROVE s4[f] = new[f]
    OBVIOUS
  <2>1. ~Must(f) BY <1>13
  <2>2. CASE new[f] = default_attr[f] BY <1>11, <2>2
  <2>3. CASE new[f] # default_attr[f] BY <1>12, <2>1, <2>3
  <2>. QED BY <2>2, <2>3
<1>16. \A f \in Fields : On(f) = <<>> \/ On(f) = <<TurnOn(f, new[f])>> BY <1>13
<1>17. ASSUME NEW l, NEW e, Reached(l, e), NEW f \in Fields,
              On(f) = <<>> => e[f] = new[f]
       PROVE  \E d : /\ Reached(l \o On(f), d) /\ d[f] = new[f]
                     /\ \A h \in Fields \ {f} : d[h] = e[h]
  <2>1. PICK d : /\ Leads(At(e, n, g), On(f), At(d, n, g)) /\ IsScreen(d)
                 /\ \A h \in Fields \ {f} : d[h] = e[h]
                 /\ On(f) = <<>> => d[f] = e[f]
                 /\ On(f) # <<>> => d[f] = new[f]
    <3>1. PICK v : v = new[f] /\ (f \in Supported \/ v = default_attr[f]) BY <1>14
    <3>2. PICK o : o = On(f) /\ (o = <<>> \/ o = <<TurnOn(f, v)>>) BY <1>16, <3>1
    <3>. DEFINE d == After(e, o, TurnOn(f, v))
    <3>3. IsScreen(e) BY <1>17
    <3>4. /\ Leads(At(e, n, g), o, At(d, n, g)) /\ IsScreen(d)
          /\ \A h \in Fields \ {f} : d[h] = e[h]
          /\ o # <<>> => d[f] = v
      BY <3>1, <3>2, <3>3, LeadsTurnOn
    <3>5. o = <<>> => d = e BY DEF After
    <3>6. PICK c : c = d OBVIOUS
    <3>7. /\ Leads(At(e, n, g), On(f), At(c, n, g)) /\ IsScreen(c)
          /\ \A h \in Fields \ {f} : c[h] = e[h]
          /\ On(f) = <<>> => c[f] = e[f]
          /\ On(f) # <<>> => c[f] = new[f]
      <4>. HIDE DEF d
      <4>. QED BY <3>1, <3>2, <3>4, <3>5, <3>6
    <3>. QED BY <3>7
  <2>2. Reached(l \o On(f), d) BY <1>17, <2>1, LeadsOn
  <2>. QED BY <1>17, <2>1, <2>2
<1>18. Reached(pair \o clear, s4) BY <1>9, <1>10
<1>. HIDE DEF Reached
<1>. DEFINE q5 == pair \o clear \o On("color")
            q6 == q5 \o On("bgcolor")
            q7 == q6 \o On("weight")
            q8 == q7 \o On("posture")
            q9 == q8 \o On("underline")
<1>19. PICK s5 : /\ Reached(q5, s5) /\ s5["color"] = new["color"]
                 /\ \A h \in Fields \ {"color"} : s5[h] = s4[h]
  <2>1. "color" \in Fields BY FieldNames
  <2>2. On("color") = <<>> => s4["color"] = new["color"] BY <1>15, <1>18, FieldNames
  <2>3. Reached(pair \o clear, s4) BY <1>18
  <2>. QED BY <1>17, <2>1, <2>2, <2>3
<1>. HIDE DEF q5
<1>20. PICK s6 : /\ Reached(q6, s6) /\ s6["bgcolor"] = new["bgcolor"]
                 /\ \A h \in Fields \ {"bgcolor"} : s6[h] = s5[h]
  <2>1. "bgcolor" \in Fields BY FieldNames
  <2>2. On("bgcolor") = <<>> => s5["bgcolor"] = new["bgcolor"] BY <1>15, <1>19, FieldNames
  <2>3. Reached(q5, s5) BY <1>19
  <2>. QED BY <1>17, <2>1, <2>2, <2>3
<1>. HIDE DEF q6
<1>21. PICK s7 : /\ Reached(q7, s7) /\ s7["weight"] = new["weight"]
                 /\ \A h \in Fields \ {"weight"} : s7[h] = s6[h]
  <2>1. "weight" \in Fields BY FieldNames
  <2>2. On("weight") = <<>> => s6["weight"] = new["weight"] BY <1>15, <1>19, <1>20, FieldNames
  <2>3. Reached(q6, s6) BY <1>20
  <2>. QED BY <1>17, <2>1, <2>2, <2>3
<1>. HIDE DEF q7
<1>22. PICK s8 : /\ Reached(q8, s8) /\ s8["posture"] = new["posture"]
                 /\ \A h \in Fields \ {"posture"} : s8[h] = s7[h]
  <2>1. "posture" \in Fields BY FieldNames
  <2>2. On("posture") = <<>> => s7["posture"] = new["posture"] BY <1>15, <1>19, <1>20, <1>21, FieldNames
  <2>3. Reached(q7, s7) BY <1>21
  <2>. QED BY <1>17, <2>1, <2>2, <2>3
<1>. HIDE DEF q8
<1>23. PICK s9 : /\ Reached(q9, s9) /\ s9["underline"] = new["underline"]
                 /\ \A h \in Fields \ {"underline"} : s9[h] = s8[h]
  <2>1. "underline" \in Fields BY FieldNames
  <2>2. On("underline") = <<>> => s8["underline"] = new["underline"] BY <1>15, <1>19, <1>20, <1>21, <1>22, FieldNames
  <2>3. Reached(q8, s8) BY <1>22
  <2>. QED BY <1>17, <2>1, <2>2, <2>3
<1>24. \A f \in Fields : s9[f] = new[f] BY <1>19, <1>20, <1>21, <1>22, <1>23, FieldNames
<1>25. out_attr_change(old, new) = q9
  BY <1>1 DEF q5, q6, q7, q8
<1>. HIDE DEF q9
<1>26. s9 = new BY <1>23, <1>24, SameScreen DEF Reached
<1>. QED BY <1>23, <1>25, <1>26 DEF Reached

(* Characters that need no attributes.                                      *)
LEMMA CharsLead ==
  ASSUME NEW c \in Nat, NEW g, NEW k \in Nat,
         \A i \in 1..k : /\ c + i \in DOMAIN requested
                         /\ simplify_attributes(requested[c + i]) = default_attr
  PROVE  Leads(At(default_attr, c, g), [i \in 1..k |-> Char], At(default_attr, c + k, g))
<1>. DEFINE q == [i \in 1..k |-> Char]
            tr == [i \in 1..(k + 1) |-> At(default_attr, c + (i - 1), g)]
<1>1. q \in Seq({Char}) /\ Len(q) = k OBVIOUS
<1>2. IsList(q) BY <1>1, ListFacts
<1>3. tr[1] = At(default_attr, c, g) /\ tr[k + 1] = At(default_attr, c + k, g)
  <2>1. c + (1 - 1) = c /\ c + ((k + 1) - 1) = c + k OBVIOUS
  <2>2. tr[1] = At(default_attr, c + (1 - 1), g) OBVIOUS
  <2>3. tr[k + 1] = At(default_attr, c + ((k + 1) - 1), g) OBVIOUS
  <2>. QED BY <2>1, <2>2, <2>3
<1>4. ASSUME NEW i \in 1..k PROVE Good(tr[i], q[i]) /\ tr[i + 1] = StepOf(tr[i], q[i])
  <2>. DEFINE m == c + (i - 1)
  <2>1. m \in Nat /\ m + 1 = c + i /\ c + ((i + 1) - 1) = m + 1 OBVIOUS
  <2>2. q[i] = Char /\ tr[i] = At(default_attr, m, g)
    OBVIOUS
  <2>3. tr[i + 1] = At(default_attr, c + ((i + 1) - 1), g) OBVIOUS
  <2>4. m + 1 \in DOMAIN requested /\ simplify_attributes(requested[m + 1]) = default_attr
    BY <2>1
  <2>. HIDE DEF m, q, tr
  <2>5. Good(At(default_attr, m, g), Char)
    BY <2>1, <2>4, DefaultScreen DEF Good, At, Guarded, Char, Kinds
  <2>6. StepOf(At(default_attr, m, g), Char) = At(default_attr, m + 1, g)
    BY DEF StepOf, At, Char
  <2>. QED BY <2>1, <2>2, <2>3, <2>5, <2>6
<1>. HIDE DEF q, tr
<1>. QED BY <1>1, <1>2, <1>3, <1>4 DEF Leads, q

LEMMA LeastElement ==
  ASSUME NEW S \in SUBSET Nat, S # {}
  PROVE  \E i \in S : \A j \in S : i <= j
<1>. DEFINE R == {p \in Nat \X Nat : p[1] < p[2]}
<1>1. IsWellFoundedOn(R, Nat)
  <2>1. IsWellFoundedOn({p \in Nat \X Nat : p[1] < p[2]}, Nat)
    BY NatLessThanWellFounded, Zenon DEF OpToRel
  <2>. QED BY <2>1
<1>. HIDE DEF R
<1>2. PICK i \in S : \A j \in S : ~(<<j, i>> \in R)
  BY <1>1, WFMin
<1>3. \A j \in S : ~(j < i)
  BY <1>2 DEF R
<1>. QED BY <1>3

(* FlattenSeq is defined by recursion over the length of its argument.      *)
Flattens(F, s, n) ==
  /\ FlattenSeq(s) = F[n] /\ F[1] = s[1]
  /\ \A j \in 1..(n - 1) : F[j + 1] = F[j] \o s[j + 1]

LEMMA Flattening ==
  ASSUME NEW n \in Nat \ {0}, NEW s, s = [j \in 1..n |-> s[j]]
  PROVE  \E F : Flattens(F, s, n)
<1>. DEFINE Rec(f, k) == f = [i \in 1..k |-> IF i = 1 THEN s[i] ELSE f[i - 1] \o s[i]]
            S == { k \in 0..n : ~\E f : Rec(f, k) }
<1>1. S = {}
  <2>. SUFFICES ASSUME S # {} PROVE FALSE
    OBVIOUS
  <2>. HIDE DEF Rec
  <2>1. S \subseteq Nat OBVIOUS
  <2>2. PICK k \in S : \A j \in S : k <= j BY <2>1, LeastElement
  <2>. HIDE DEF S
  <2>3. k \in 0..n /\ ~\E f : Rec(f, k) BY <2>2 DEF S
  <2>4. k # 0
    <3>1. Rec([i \in 1..0 |-> 0], 0) BY DEF Rec
    <3>. QED BY <2>3, <3>1
  <2>5. k - 1 \in 0..n /\ k - 1 \notin S BY <2>2, <2>3, <2>4
  <2>6. PICK f : Rec(f, k - 1) BY <2>5 DEF S
  <2>. DEFINE g == [i \in 1..k |-> IF i < k THEN f[i] ELSE IF i = 1 THEN s[i] ELSE f[i - 1] \o s[i]]
  <2>7. \A i \in 1..(k - 1) : f[i] = IF i = 1 THEN s[i] ELSE f[i - 1] \o s[i]
    BY <2>6 DEF Rec
  <2>8. ASSUME NEW i \in 1..k PROVE g[i] = IF i = 1 THEN s[i] ELSE g[i - 1] \o s[i]
    <3>1. i # 1 => g[i - 1] = f[i - 1] BY <2>3
    <3>2. CASE i < k
      <4>1. i \in 1..(k - 1) /\ g[i] = f[i] BY <2>3, <3>2
      <4>. HIDE DEF g
      <4>. QED BY <2>7, <3>1, <4>1
    <3>3. CASE ~(i < k)
      <4>1. g[i] = IF i = 1 THEN s[i] ELSE f[i - 1] \o s[i] BY <3>3
      <4>. HIDE DEF g
      <4>. QED BY <3>1, <4>1
    <3>. QED BY <3>2, <3>3
  <2>9. g = [i \in 1..k |-> g[i]] OBVIOUS
  <2>10. Rec(g, k)
    <3>. HIDE DEF g
    <3>. QED BY <2>8, <2>9 DEF Rec
  <2>. QED BY <2>3, <2>10
<1>2. Len(s) = n OBVIOUS
<1>. DEFINE flatten == CHOOSE f : Rec(f, n)
<1>3. Rec(flatten, n)
  <2>. HIDE DEF Rec
  <2>1. \E f : Rec(f, n) BY <1>1
  <2>. QED BY <2>1, Zenon
<1>4. FlattenSeq(s) = flatten[n] BY <1>2 DEF FlattenSeq
<1>. HIDE DEF flatten
<1>5. \A i \in 1..n : flatten[i] = IF i = 1 THEN s[i] ELSE flatten[i - 1] \o s[i] BY <1>3
<1>. HIDE DEF Rec
<1>6. flatten[1] = s[1] BY <1>5
<1>7. ASSUME NEW j \in 1..(n - 1) PROVE flatten[j + 1] = flatten[j] \o s[j + 1]
  <2>1. j + 1 \in 1..n /\ j + 1 # 1 /\ (j + 1) - 1 = j OBVIOUS
  <2>. QED BY <1>5, <2>1
<1>8. Flattens(flatten, s, n) BY <1>4, <1>6, <1>7 DEF Flattens
<1>. QED BY <1>8

(* Of the characters from the first one that needs attributes, each is      *)
(* preceded by the change from those of the one before it.                  *)
Block(a, n, i) ==
  out_attr_change(IF i = n + 1 THEN default_attr ELSE a[i - 1], a[i]) \o <<Char>>

LEMMA BlockLeads ==
  ASSUME terminal \in Terminals, NEW a, NEW old, NEW i \in Nat \ {0}, NEW c \in Nat, NEW g,
         AllGuards \subseteq g, IsScreen(old), IsScreen(a[i]), c + i \in DOMAIN requested,
         a[i] = simplify_attributes(requested[c + i])
  PROVE  Leads(At(old, c + (i - 1), g), out_attr_change(old, a[i]) \o <<Char>>,
               At(a[i], c + i, g))
<1>. DEFINE m == c + (i - 1)
<1>1. m \in Nat /\ m + 1 = c + i OBVIOUS
<1>. HIDE DEF m
<1>2. Leads(At(old, m, g), out_attr_change(old, a[i]), At(a[i], m, g))
  BY <1>1, ChangeLeads
<1>3. Leads(At(a[i], m, g), <<Char>>, At(a[i], m + 1, g))
  <2>1. Good(At(a[i], m, g), Char) BY <1>1 DEF Good, At, Guarded, Char, Kinds
  <2>2. StepOf(At(a[i], m, g), Char) = At(a[i], m + 1, g) BY DEF StepOf, At, Char
  <2>. QED BY <2>1, <2>2, LeadsOne
<1>4. PICK q : q = out_attr_change(old, a[i]) OBVIOUS
<1>5. Leads(At(old, m, g), q \o <<Char>>, At(a[i], m + 1, g))
  BY <1>2, <1>3, <1>4, LeadsOn
<1>. QED BY <1>1, <1>4, <1>5 DEF m

LEMMA BlocksLead ==
  ASSUME terminal \in Terminals, NEW a, NEW m \in Nat, NEW n \in 0..(m - 1), NEW c \in Nat,
         NEW g, AllGuards \subseteq g,
         \A i \in 1..m : /\ IsScreen(a[i]) /\ c + i \in DOMAIN requested
                         /\ a[i] = simplify_attributes(requested[c + i])
  PROVE  Leads(At(default_attr, c + n, g),
               FlattenSeq([j \in 1..(m - n) |-> Block(a, n, n + j)]),
               At(a[m], c + m, g))
<1>. DEFINE k == m - n
            blocks == [j \in 1..k |-> Block(a, n, n + j)]
<1>1. k \in Nat \ {0} /\ n + k = m OBVIOUS
<1>2. PICK s : s = blocks OBVIOUS
<1>3. s = [j \in 1..k |-> s[j]] /\ \A j \in 1..k : s[j] = Block(a, n, n + j) BY <1>2
<1>. HIDE DEF blocks, k
<1>4. PICK F : Flattens(F, s, k) BY <1>1, <1>3, Flattening
<1>. DEFINE Reached(j) == Leads(At(default_attr, c + n, g), F[j], At(a[n + j], c + (n + j), g))
            S == { j \in 1..k : ~Reached(j) }
<1>5. Reached(1)
  <2>1. 1 \in 1..k /\ n + 1 \in 1..m /\ n + 1 \in Nat \ {0} /\ c + ((n + 1) - 1) = c + n
    BY <1>1
  <2>2. s[1] = out_attr_change(default_attr, a[n + 1]) \o <<Char>> BY <1>3, <2>1 DEF Block
  <2>3. PICK i : i = n + 1 OBVIOUS
  <2>4. Leads(At(default_attr, c + (i - 1), g), out_attr_change(default_attr, a[i]) \o <<Char>>,
              At(a[i], c + i, g))
    <3>1. i \in 1..m /\ i \in Nat \ {0} BY <2>1, <2>3
    <3>. QED BY <3>1, DefaultScreen, BlockLeads
  <2>. QED BY <1>4, <2>1, <2>2, <2>3, <2>4 DEF Flattens
<1>6. ASSUME NEW j \in 1..(k - 1), Reached(j) PROVE Reached(j + 1)
  <2>. DEFINE i == n + (j + 1)
  <2>1. /\ j + 1 \in 1..k /\ i \in 1..m /\ i \in Nat \ {0} /\ i # n + 1 /\ i - 1 = n + j
        /\ i - 1 \in 1..m
    BY <1>1
  <2>2. PICK o : o = a[i - 1] OBVIOUS
  <2>3. s[j + 1] = out_attr_change(o, a[i]) \o <<Char>>
    <3>1. s[j + 1] = Block(a, n, i) BY <1>3, <2>1
    <3>. HIDE DEF i
    <3>. QED BY <2>1, <2>2, <3>1 DEF Block
  <2>. HIDE DEF i
  <2>4. Leads(At(o, c + (i - 1), g), out_attr_change(o, a[i]) \o <<Char>>, At(a[i], c + i, g))
    BY <2>1, <2>2, BlockLeads
  <2>5. Leads(At(default_attr, c + n, g), F[j], At(o, c + (i - 1), g))
    BY <1>6, <2>1, <2>2
  <2>6. Leads(At(default_attr, c + n, g), F[j] \o s[j + 1], At(a[i], c + i, g))
    BY <2>3, <2>4, <2>5, LeadsOn
  <2>7. F[j + 1] = F[j] \o s[j + 1] BY <1>4 DEF Flattens
  <2>. QED BY <2>6, <2>7 DEF i
<1>. HIDE DEF Reached
<1>7. S = {}
  <2>. SUFFICES ASSUME S # {} PROVE FALSE
    OBVIOUS
  <2>1. S \subseteq Nat BY <1>1
  <2>2. PICK j \in S : \A i \in S : j <= i BY <2>1, LeastElement
  <2>3. j \in 1..k /\ ~Reached(j) /\ j # 1 BY <1>5, <2>2
  <2>4. j - 1 \in 1..(k - 1) /\ (j - 1) + 1 = j BY <1>1, <2>3
  <2>5. Reached(j - 1)
    <3>1. j - 1 \in 1..k /\ ~(j <= j - 1) BY <1>1, <2>3, <2>4
    <3>. QED BY <2>2, <3>1
  <2>6. Reached((j - 1) + 1) BY <1>6, <2>4, <2>5
  <2>. QED BY <2>3, <2>4, <2>6
<1>8. Reached(k) BY <1>1, <1>7
<1>. QED BY <1>1, <1>2, <1>4, <1>8 DEF Flattens, Reached, blocks, k

LEMMA LeadsThree ==
  ASSUME NEW a, NEW x, NEW y, NEW z, NEW b, NEW c,
         Good(a, x), b = StepOf(a, x), Good(b, y), c = StepOf(b, y), Good(c, z)
  PROVE  Leads(a, <<x, y, z>>, StepOf(c, z))
<1>1. Leads(a, <<x>>, b) /\ Leads(b, <<y>>, c) /\ Leads(c, <<z>>, StepOf(c, z))
  BY LeadsOne
<1>2. Leads(a, <<x>> \o <<y>>, c) BY <1>1, LeadsOn
<1>3. Leads(a, (<<x>> \o <<y>>) \o <<z>>, StepOf(c, z)) BY <1>1, <1>2, LeadsOn
<1>4. (<<x>> \o <<y>>) \o <<z>> = <<x, y, z>>
  <2>. DEFINE S == {x, y, z}
              p == (<<x>> \o <<y>>) \o <<z>>
              q == <<x, y, z>>
  <2>1. <<x>> \in Seq(S) /\ <<y>> \in Seq(S) /\ <<z>> \in Seq(S) /\ q \in Seq(S) OBVIOUS
  <2>2. p \in Seq(S) /\ Len(p) = 3 /\ p[1] = x /\ p[2] = y /\ p[3] = z
    <3>. HIDE DEF S
    <3>. QED BY <2>1
  <2>3. Len(q) = 3 /\ q[1] = x /\ q[2] = y /\ q[3] = z OBVIOUS
  <2>. HIDE DEF S, p, q
  <2>4. \A i \in 1..Len(p) : p[i] = q[i] BY <2>2, <2>3
  <2>5. p = q BY <2>1, <2>2, <2>3, <2>4, SeqEqual
  <2>. QED BY <2>5 DEF p, q
<1>. QED BY <1>3, <1>4

(* The steps between are guarded, and then nothing is left to guard.        *)
LEMMA ProtectLeads ==
  ASSUME NEW c \in Nat, NEW d \in Nat, NEW g, NEW q,
         \A h : AllGuards \subseteq h =>
           Leads(At(default_attr, c, h), q, At(default_attr, d, h))
  PROVE  \E h : Leads(At(default_attr, c, g), Protect(q), At(default_attr, d, h))
<1>. DEFINE first == <<Signals("block", "fatal"), Signals("block", "stop"), Handler(Stdout)>>
            last == <<Handler(-1), Signals("unblock", "stop"), Signals("unblock", "fatal")>>
            g1 == g \cup {"fatal"}
            g2 == g1 \cup {"stop"}
            g3 == g2 \cup {"exit"}
            g4 == g3 \ {"exit"}
            g5 == g4 \ {"stop"}
            g6 == g5 \ {"fatal"}
<1>1. Protect(q) = first \o q \o last BY DEF Protect
<1>2. AllGuards \subseteq g3 BY DEF AllGuards
<1>. DEFINE Signal(how, s) == /\ Signals(how, s).do = how /\ Signals(how, s).signal = s
<1>3. ASSUME NEW m \in Nat, NEW h, NEW s \in {"fatal", "stop"}
      PROVE  /\ Good(At(default_attr, m, h), Signals("block", s))
             /\ StepOf(At(default_attr, m, h), Signals("block", s))
                  = At(default_attr, m, h \cup {s})
             /\ Good(At(default_attr, m, h), Signals("unblock", s))
             /\ StepOf(At(default_attr, m, h), Signals("unblock", s))
                  = At(default_attr, m, h \ {s})
  BY DefaultScreen DEF Good, Guarded, At, StepOf, Signals, Kinds
<1>4. ASSUME NEW m \in Nat, NEW h
      PROVE  /\ Good(At(default_attr, m, h), Handler(Stdout))
             /\ StepOf(At(default_attr, m, h), Handler(Stdout))
                  = At(default_attr, m, h \cup {"exit"})
             /\ Good(At(default_attr, m, h), Handler(-1))
             /\ StepOf(At(default_attr, m, h), Handler(-1))
                  = At(default_attr, m, h \ {"exit"})
  BY DefaultScreen DEF Good, Guarded, At, StepOf, Handler, Stdout, Kinds
<1>5. Leads(At(default_attr, c, g), first, At(default_attr, c, g3))
  <2>. HIDE DEF first, g1, g2, g3
  <2>1. /\ Good(At(default_attr, c, g), Signals("block", "fatal"))
        /\ StepOf(At(default_attr, c, g), Signals("block", "fatal")) = At(default_attr, c, g1)
    BY <1>3 DEF g1
  <2>2. /\ Good(At(default_attr, c, g1), Signals("block", "stop"))
        /\ StepOf(At(default_attr, c, g1), Signals("block", "stop")) = At(default_attr, c, g2)
    BY <1>3 DEF g2
  <2>3. /\ Good(At(default_attr, c, g2), Handler(Stdout))
        /\ StepOf(At(default_attr, c, g2), Handler(Stdout)) = At(default_attr, c, g3)
    BY <1>4 DEF g3
  <2>. QED BY <2>1, <2>2, <2>3, LeadsThree DEF first
<1>6. Leads(At(default_attr, d, g3), last, At(default_attr, d, g6))
  <2>. HIDE DEF last, g3, g4, g5, g6
  <2>1. /\ Good(At(default_attr, d, g3), Handler(-1))
        /\ StepOf(At(default_attr, d, g3), Handler(-1)) = At(default_attr, d, g4)
    BY <1>4 DEF g4
  <2>2. /\ Good(At(default_attr, d, g4), Signals("unblock", "stop"))
        /\ StepOf(At(default_attr, d, g4), Signals("unblock", "stop")) = At(default_attr, d, g5)
    BY <1>3 DEF g5
  <2>3. /\ Good(At(default_attr, d, g5), Signals("unblock", "fatal"))
        /\ StepOf(At(default_attr, d, g5), Signals("unblock", "fatal")) = At(default_attr, d, g6)
    BY <1>3 DEF g6
  <2>. QED BY <2>1, <2>2, <2>3, LeadsThree DEF last
<1>. HIDE DEF first, last, g3, g6
<1>7. Leads(At(default_attr, c, g3), q, At(default_attr, d, g3)) BY <1>2
<1>8. Leads(At(default_attr, c, g), first \o q, At(default_attr, d, g3))
  BY <1>5, <1>7, LeadsOn
<1>9. Leads(At(default_attr, c, g), first \o q \o last, At(default_attr, d, g6))
  BY <1>6, <1>8, LeadsOn
<1>. QED BY <1>1, <1>9

(* output_buffer.                                                           *)
LEMMA OutputLeads ==
  ASSUME terminal \in Terminals, NEW a, IsList(a), NEW c \in Nat, NEW g,
         \A i \in 1..Len(a) : /\ IsScreen(a[i]) /\ c + i \in DOMAIN requested
                              /\ a[i] = simplify_attributes(requested[c + i])
  PROVE  \E h : Leads(At(default_attr, c, g), output_buffer(a), At(default_attr, c + Len(a), h))
<1>. DEFINE m == Len(a)
            Styled(i) == a[i] # default_attr
            Plain(k) == /\ \A i \in 1..k : ~Styled(i)
                        /\ k = m \/ Styled(k + 1)
            n == CHOOSE k \in 0..m : Plain(k)
            blocks == [j \in 1..(m - n) |-> Block(a, n, n + j)]
            back == out_attr_change(a[m], default_attr)
<1>1. m \in Nat BY DEF IsList
<1>2. \E k \in 0..m : Plain(k)
  <2>. DEFINE S == { k \in 0..m : k = m \/ Styled(k + 1) }
  <2>1. S \subseteq Nat /\ m \in S BY <1>1
  <2>2. PICK k \in S : \A j \in S : k <= j BY <2>1, LeastElement
  <2>3. ASSUME NEW i \in 1..k PROVE ~Styled(i)
    <3>1. i - 1 \in 0..m /\ (i - 1) + 1 = i /\ ~(k <= i - 1) BY <1>1, <2>2
    <3>2. i - 1 \notin S BY <2>2, <3>1
    <3>. QED BY <3>1, <3>2
  <2>4. k \in 0..m /\ (k = m \/ Styled(k + 1)) BY <2>2
  <2>. QED BY <2>3, <2>4
<1>3. n \in 0..m /\ Plain(n)
  <2>. HIDE DEF Plain
  <2>. QED BY <1>2, Zenon
<1>4. output_buffer(a) =
        [i \in 1..n |-> Char]
          \o IF n = m THEN <<>> ELSE Protect(FlattenSeq(blocks) \o back)
  BY DEF output_buffer, Block
<1>. HIDE DEF n, m
<1>5. Leads(At(default_attr, c, g), [i \in 1..n |-> Char], At(default_attr, c + n, g))
  <2>1. n \in Nat BY <1>1, <1>3
  <2>2. \A i \in 1..n : /\ c + i \in DOMAIN requested
                        /\ simplify_attributes(requested[c + i]) = default_attr
    <3>1. \A i \in 1..n : i \in 1..m /\ a[i] = default_attr BY <1>1, <1>3
    <3>. QED BY <3>1 DEF m
  <2>. QED BY <2>1, <2>2, CharsLead
<1>6. CASE n = m
  <2>1. Leads(At(default_attr, c + n, g), <<>>, At(default_attr, c + m, g))
    BY <1>6, LeadsNowhere
  <2>2. Leads(At(default_attr, c, g), [i \in 1..n |-> Char] \o <<>>, At(default_attr, c + m, g))
    BY <1>5, <2>1, LeadsOn
  <2>. QED BY <1>4, <1>6, <2>2 DEF m
<1>7. CASE n # m
  <2>1. n \in 0..(m - 1) /\ m \in 1..m BY <1>1, <1>3, <1>7
  <2>2. c + n \in Nat /\ c + m \in Nat BY <1>1, <1>3
  <2>3. PICK q : q = FlattenSeq(blocks) \o back OBVIOUS
  <2>4. ASSUME NEW h, AllGuards \subseteq h
        PROVE  Leads(At(default_attr, c + n, h), q, At(default_attr, c + m, h))
    <3>1. PICK p : p = FlattenSeq(blocks) OBVIOUS
    <3>2. PICK r : r = back OBVIOUS
    <3>3. Leads(At(default_attr, c + n, h), p, At(a[m], c + m, h))
      BY <1>1, <2>1, <2>4, <3>1, BlocksLead DEF m
    <3>4. Leads(At(a[m], c + m, h), r, At(default_attr, c + m, h))
      <4>1. IsScreen(a[m]) BY <2>1 DEF m
      <4>. QED BY <2>2, <2>4, <3>2, <4>1, DefaultScreen, ChangeLeads
    <3>5. Leads(At(default_attr, c + n, h), p \o r, At(default_attr, c + m, h))
      BY <3>3, <3>4, LeadsOn
    <3>. HIDE DEF blocks, back
    <3>. QED BY <2>3, <3>1, <3>2, <3>5
  <2>5. PICK h : Leads(At(default_attr, c + n, g), Protect(q), At(default_attr, c + m, h))
    BY <2>2, <2>4, ProtectLeads
  <2>6. Leads(At(default_attr, c, g), [i \in 1..n |-> Char] \o Protect(q),
              At(default_attr, c + m, h))
    BY <1>5, <2>5, LeadsOn
  <2>. HIDE DEF blocks, back
  <2>. QED BY <1>4, <1>7, <2>3, <2>6 DEF m
<1>. QED BY <1>6, <1>7

-----------------------------------------------------------------------------
(* Colored output: the invariant.                                        *)

Asked == Styles \cup {default_attr}

Guards == blocked \cup (IF out_fd >= 0 THEN {"exit"} ELSE {})
Now == At(screen, Len(shown), Guards)

(* The line buffer has the characters from n on.                            *)
BufferFrom(n) ==
  /\ n + Len(attrbuffer) = Len(requested)
  /\ \A k \in 1..Len(attrbuffer) : attrbuffer[k] = simplify_attributes(requested[n + k])

(* What is pending shows every character up to the line buffer's, and       *)
(* leaves the terminal in its default state.                                *)
OutputInv ==
  \E n \in Nat : \E h : Leads(Now, pending, At(default_attr, n, h)) /\ BufferFrom(n)

TermTypes ==
  /\ terminal \in Terminals
  /\ curr_attr \in Asked /\ simp_attr = simplify_attributes(curr_attr)
  /\ requested \in Seq(Asked) /\ IsList(attrbuffer)
  /\ IsList(shown) /\ Len(shown) <= Len(requested)
  /\ out_fd \in {-1, Stdout} /\ blocked \cup raised \subseteq {"fatal", "stop"}
  /\ process \in {"running", "stopped", "ended"}

TermInv ==
  /\ TermTypes /\ AttributesShown
  /\ process # "ended" => OutputInv
  /\ process # "running" => screen = default_attr

LEMMA SimplifiedScreen ==
  ASSUME NEW a \in Asked
  PROVE  IsScreen(simplify_attributes(a))
<1>1. DOMAIN a = Fields
  <2>1. CASE a \in Styles
    <3>1. a = [f \in DOMAIN default_attr |-> a[f]] BY <2>1, StylesAssumption
    <3>. QED BY <3>1 DEF Fields
  <2>2. CASE a = default_attr BY <2>2 DEF Fields
  <2>. QED BY <2>1, <2>2 DEF Asked
<1>. DEFINE colored == a.color # default_attr.color \/ a.bgcolor # default_attr.bgcolor
            Dropped(f) == f \notin Supported \/ (colored /\ f \in terminal.ncv)
            s == [f \in Fields |-> IF Dropped(f) THEN default_attr[f] ELSE a[f]]
<1>2. simplify_attributes(a) = s BY <1>1 DEF simplify_attributes
<1>3. s = [f \in Fields |-> s[f]] OBVIOUS
<1>4. \A f \in Fields \ Supported : s[f] = default_attr[f] OBVIOUS
<1>. HIDE DEF s
<1>. QED BY <1>2, <1>3, <1>4 DEF IsScreen

LEMMA DefaultSimplified == simplify_attributes(default_attr) = default_attr
<1>1. DOMAIN default_attr = Fields /\ default_attr = [f \in Fields |-> default_attr[f]]
  BY FieldNames DEF Fields
<1>. QED BY <1>1 DEF simplify_attributes

LEMMA Appended ==
  ASSUME NEW q, IsList(q), NEW x
  PROVE  /\ IsList(Append(q, x)) /\ Append(q, x) = q \o <<x>>
         /\ Len(q) \in Nat /\ Len(Append(q, x)) = Len(q) + 1
         /\ \A i \in 1..Len(q) : Append(q, x)[i] = q[i]
         /\ Append(q, x)[Len(q) + 1] = x
<1>1. PICK S : q \in Seq(S) BY DEF IsList
<1>2. q \in Seq(S \cup {x}) BY <1>1
<1>3. Append(q, x) \in Seq(S \cup {x}) BY <1>2
<1>4. IsList(Append(q, x)) BY <1>3, ListFacts
<1>5. Append(q, x) = q \o <<x>> BY <1>2, AppendIsConcat
<1>. QED BY <1>2, <1>4, <1>5

LEMMA SimplifyKept ==
  ASSUME UNCHANGED terminal
  PROVE  /\ \A a : simplify_attributes(a)' = simplify_attributes(a)
         /\ \A a, x : Effect(a, x)' = Effect(a, x)
         /\ \A a : IsScreen(a)' <=> IsScreen(a)
<1>1. \A x : Has(x)' <=> Has(x) BY DEF Has
<1>2. Supported' = Supported BY <1>1 DEF Supported
<1>3. \A a : simplify_attributes(a)' = simplify_attributes(a) BY <1>2 DEF simplify_attributes
<1>4. \A a, x : Effect(a, x)' = Effect(a, x) BY <1>1 DEF Effect
<1>5. \A a : IsScreen(a)' <=> IsScreen(a) BY <1>2 DEF IsScreen
<1>. QED BY <1>3, <1>4, <1>5

LEMMA LeadsKept ==
  ASSUME UNCHANGED <<terminal, requested>>
  PROVE  \A a, q, b : Leads(a, q, b) => Leads(a, q, b)'
<1>1. \A a, x : StepOf(a, x)' = StepOf(a, x) BY SimplifyKept DEF StepOf
<1>2. \A a, x : Good(a, x)' <=> Good(a, x) BY SimplifyKept DEF Good
<1>. QED BY <1>1, <1>2 DEF Leads

LEMMA NowGuarded ==
  ASSUME OutputInv
  PROVE  /\ IsScreen(screen) /\ Guarded(Now)
         /\ pending = <<>> => screen = default_attr
<1>1. PICK n, h : n \in Nat /\ Leads(Now, pending, At(default_attr, n, h)) BY DEF OutputInv
<1>2. CASE pending = <<>>
  <2>1. Now = At(default_attr, n, h) BY <1>1, <1>2, LeadsNowhere
  <2>2. screen = default_attr BY <2>1 DEF Now, At
  <2>. QED BY <2>2, DefaultScreen DEF Guarded, Now, At
<1>3. CASE pending # <<>>
  <2>1. Good(Now, pending[1]) BY <1>1, <1>3, LeadsTail
  <2>. QED BY <1>3, <2>1 DEF Good, Now, At
<1>. QED BY <1>2, <1>3

(* When nothing is pending, the buffer has the characters not yet shown.    *)
LEMMA ReadyBuffer ==
  ASSUME OutputInv, pending = <<>>, Len(shown) \in Nat
  PROVE  screen = default_attr /\ BufferFrom(Len(shown))
<1>1. PICK n, h : n \in Nat /\ Leads(Now, pending, At(default_attr, n, h)) /\ BufferFrom(n)
  BY DEF OutputInv
<1>2. Now = At(default_attr, n, h) BY <1>1, LeadsNowhere
<1>3. screen = default_attr /\ n = Len(shown) BY <1>2 DEF Now, At
<1>. QED BY <1>1, <1>3

LEMMA InitTerm == TermInit => TermInv
<1>. SUFFICES ASSUME TermInit PROVE TermInv
  OBVIOUS
<1>1. /\ screen = default_attr /\ pending = <<>> /\ attrbuffer = <<>> /\ requested = <<>>
      /\ shown = <<>> /\ process = "running" /\ terminal \in Terminals
      /\ curr_attr = default_attr /\ simp_attr = default_attr
      /\ out_fd = -1 /\ blocked = {} /\ raised = {}
  BY DEF TermInit
<1>2. TermTypes
  BY <1>1, DefaultSimplified, ListFacts DEF TermTypes, Asked
<1>3. AttributesShown BY <1>1 DEF AttributesShown
<1>4. OutputInv
  <2>1. PICK h : h = Guards OBVIOUS
  <2>2. Now = At(default_attr, 0, h) BY <1>1, <2>1 DEF Now
  <2>3. Leads(Now, pending, At(default_attr, 0, h)) BY <1>1, <2>2, LeadsNowhere
  <2>4. BufferFrom(0) BY <1>1 DEF BufferFrom
  <2>. QED BY <2>3, <2>4 DEF OutputInv
<1>. QED BY <1>1, <1>2, <1>3, <1>4 DEF TermInv

LEMMA OutputKept ==
  ASSUME OutputInv, UNCHANGED <<terminal, requested, attrbuffer, pending, screen, shown,
                                out_fd, blocked>>
  PROVE  OutputInv'
<1>1. PICK n, h : n \in Nat /\ Leads(Now, pending, At(default_attr, n, h)) /\ BufferFrom(n)
  BY DEF OutputInv
<1>2. PICK a, q, b : /\ a = Now /\ q = pending /\ b = At(default_attr, n, h)
                     /\ Leads(a, q, b)
  BY <1>1
<1>3. Leads(a, q, b)' BY <1>2, LeadsKept
<1>4. Now' = a /\ pending' = q /\ At(default_attr, n, h)' = b BY <1>2 DEF Now, At, Guards
<1>5. BufferFrom(n)' BY <1>1, SimplifyKept DEF BufferFrom
<1>6. Leads(Now, pending, At(default_attr, n, h))' BY <1>3, <1>4
<1>7. n \in Nat BY <1>1
<1>. QED BY <1>5, <1>6, <1>7 DEF OutputInv

LEMMA ShownKept ==
  ASSUME AttributesShown, UNCHANGED <<terminal, requested, shown>>
  PROVE  AttributesShown'
BY SimplifyKept DEF AttributesShown

LEMMA SetStep == TermInv /\ SetAttributes => TermInv'
<1>. SUFFICES ASSUME TermInv, SetAttributes PROVE TermInv'
  OBVIOUS
<1>. USE DEF TermInv
<1>1. /\ UNCHANGED <<terminal, requested, attrbuffer, pending, screen, shown, out_fd, blocked,
                     raised, process>>
      /\ process = "running"
  BY DEF SetAttributes, termsignals, display, Ready
<1>2. PICK a \in Styles : curr_attr' = a /\ simp_attr' = simplify_attributes(a)
  BY DEF SetAttributes
<1>3. simplify_attributes(curr_attr)' = simplify_attributes(a) BY <1>1, <1>2, SimplifyKept
<1>4. TermTypes' BY <1>1, <1>2, <1>3 DEF TermTypes, Asked, IsList
<1>. QED BY <1>1, <1>4, OutputKept, ShownKept

(* A character is added to the line, or the line is output.                 *)
LEMMA BufferStep ==
  ASSUME TermInv, Ready, NEW tail, attrbuffer' = <<>>,
         \/ tail = <<>> /\ pending' = output_buffer(attrbuffer)
         \/ tail = <<Newline>> /\ pending' = Append(output_buffer(attrbuffer), Newline),
         UNCHANGED <<terminal, curr_attr, simp_attr, requested, screen, shown, out_fd, blocked,
                     raised, process>>
  PROVE  TermInv'
<1>. USE DEF TermInv
<1>1. process = "running" /\ pending = <<>> BY DEF Ready
<1>. DEFINE c == Len(shown)
<1>2. c \in Nat BY DEF TermTypes, IsList
<1>3. screen = default_attr /\ BufferFrom(c) BY <1>1, <1>2, ReadyBuffer
<1>. DEFINE m == Len(attrbuffer)
<1>4. m \in Nat /\ c + m = Len(requested) BY <1>3 DEF TermTypes, IsList, BufferFrom
<1>5. PICK a, q, g : a = attrbuffer /\ q = output_buffer(attrbuffer) /\ g = Guards OBVIOUS
<1>6. PICK h : Leads(At(default_attr, c, g), q, At(default_attr, c + m, h))
  <2>1. IsList(a) /\ terminal \in Terminals BY <1>5 DEF TermTypes
  <2>2. \A i \in 1..Len(a) : /\ IsScreen(a[i]) /\ c + i \in DOMAIN requested
                             /\ a[i] = simplify_attributes(requested[c + i])
    <3>. SUFFICES ASSUME NEW i \in 1..Len(a)
                  PROVE  /\ IsScreen(a[i]) /\ c + i \in DOMAIN requested
                         /\ a[i] = simplify_attributes(requested[c + i])
      OBVIOUS
    <3>1. a[i] = simplify_attributes(requested[c + i]) BY <1>3, <1>5 DEF BufferFrom
    <3>2. c + i \in DOMAIN requested /\ requested[c + i] \in Asked
      BY <1>2, <1>4, <1>5 DEF TermTypes
    <3>3. PICK r \in Asked : r = requested[c + i] BY <3>2
    <3>4. IsScreen(simplify_attributes(r)) BY SimplifiedScreen
    <3>. QED BY <3>1, <3>2, <3>3, <3>4
  <2>3. PICK h : Leads(At(default_attr, c, g), output_buffer(a), At(default_attr, c + Len(a), h))
    BY <1>2, <2>1, <2>2, OutputLeads
  <2>. QED BY <1>5, <2>3
<1>7. \E n : Leads(At(default_attr, c + m, h), tail, At(default_attr, c + m, n))
  <2>1. CASE tail = <<>> BY <2>1, LeadsNowhere
  <2>2. CASE tail = <<Newline>>
    <3>. DEFINE d == c + m
    <3>1. d \in Nat BY <1>2, <1>4
    <3>. HIDE DEF d
    <3>2. Good(At(default_attr, d, h), Newline)
      BY <3>1, DefaultScreen DEF Good, At, Guarded, Newline, Kinds
    <3>3. StepOf(At(default_attr, d, h), Newline) = At(default_attr, d, h)
      BY DEF StepOf, At, Newline
    <3>4. Leads(At(default_attr, d, h), <<Newline>>, At(default_attr, d, h))
      BY <3>2, <3>3, LeadsOne
    <3>. QED BY <2>2, <3>4 DEF d
  <2>. QED BY <2>1, <2>2
<1>8. PICK n, e : /\ e = At(default_attr, c + m, n)
                  /\ Leads(At(default_attr, c, g), q \o tail, e)
  <2>1. PICK n : Leads(At(default_attr, c + m, h), tail, At(default_attr, c + m, n)) BY <1>7
  <2>2. Leads(At(default_attr, c, g), q \o tail, At(default_attr, c + m, n))
    BY <1>6, <2>1, LeadsOn
  <2>. QED BY <2>2
<1>9. OutputInv'
  <2>1. PICK s : s = At(default_attr, c, g) OBVIOUS
  <2>2. PICK p : p = q \o tail OBVIOUS
  <2>3. Leads(s, p, e)' BY <1>8, <2>1, <2>2, LeadsKept
  <2>4. Now' = s BY <1>3, <1>5, <2>1 DEF Now, Guards
  <2>5. pending' = p
    <3>1. IsList(q) BY <1>6 DEF Leads
    <3>2. q \o <<>> = q BY <3>1 DEF IsList
    <3>3. Append(q, Newline) = q \o <<Newline>> BY <3>1, Appended
    <3>. QED BY <1>5, <2>2, <3>2, <3>3
  <2>6. PICK k \in Nat : k = c + m BY <1>2, <1>4
  <2>7. At(default_attr, k, n)' = e BY <1>8, <2>6 DEF At
  <2>8. BufferFrom(k)' BY <1>4, <2>6 DEF BufferFrom
  <2>9. Leads(Now, pending, At(default_attr, k, n))' BY <2>3, <2>4, <2>5, <2>7
  <2>. QED BY <2>8, <2>9 DEF OutputInv
<1>10. TermTypes'
  <2>1. simplify_attributes(curr_attr)' = simplify_attributes(curr_attr) BY SimplifyKept
  <2>. QED BY <2>1, ListFacts DEF TermTypes, IsList
<1>. QED BY <1>1, <1>9, <1>10, ShownKept

LEMMA WriteMemStep == TermInv /\ (WriteMem \/ TermFlush) => TermInv'
<1>1. ASSUME TermInv, Ready, attrbuffer' = Append(attrbuffer, simp_attr),
             requested' = Append(requested, curr_attr),
             UNCHANGED <<terminal, curr_attr, simp_attr, pending, screen, shown, out_fd, blocked,
                         raised, process>>
      PROVE  TermInv'
  <2>. USE <1>1 DEF TermInv
  <2>. DEFINE c == Len(shown)
              m == Len(attrbuffer)
              r == Len(requested)
  <2>1. process = "running" /\ pending = <<>> BY <1>1 DEF Ready
  <2>2. c \in Nat /\ c <= r BY DEF TermTypes, IsList
  <2>3. screen = default_attr /\ BufferFrom(c) BY <2>1, <2>2, ReadyBuffer
  <2>4. /\ IsList(attrbuffer') /\ m \in Nat /\ Len(attrbuffer') = m + 1
        /\ \A i \in 1..m : attrbuffer'[i] = attrbuffer[i]
        /\ attrbuffer'[m + 1] = simp_attr
    <3>1. PICK q, x : q = attrbuffer /\ x = simp_attr OBVIOUS
    <3>2. IsList(q) /\ attrbuffer' = Append(q, x) BY <1>1, <3>1 DEF TermTypes
    <3>3. /\ IsList(Append(q, x)) /\ Len(q) \in Nat /\ Len(Append(q, x)) = Len(q) + 1
          /\ \A i \in 1..Len(q) : Append(q, x)[i] = q[i]
          /\ Append(q, x)[Len(q) + 1] = x
      BY <3>2, Appended
    <3>. QED BY <3>1, <3>2, <3>3
  <2>5. /\ requested' \in Seq(Asked) /\ r \in Nat /\ Len(requested') = r + 1
        /\ \A i \in 1..r : requested'[i] = requested[i]
        /\ requested'[r + 1] = curr_attr
    BY <1>1 DEF TermTypes
  <2>6. \A a : simplify_attributes(a)' = simplify_attributes(a) BY <1>1, SimplifyKept
  <2>7. simp_attr = simplify_attributes(curr_attr) BY DEF TermTypes
  <2>8. TermTypes'
    <3>1. simplify_attributes(curr_attr)' = simplify_attributes(curr_attr) BY <1>1, <2>6
    <3>2. IsList(attrbuffer)' BY <2>4 DEF IsList
    <3>3. (Len(shown) <= Len(requested))' BY <1>1, <2>2, <2>5
    <3>. QED BY <1>1, <2>5, <3>1, <3>2, <3>3 DEF TermTypes, Asked, IsList
  <2>9. AttributesShown'
    <3>1. ASSUME NEW i \in 1..c PROVE shown[i] = simplify_attributes(requested'[i])
      <4>1. i \in 1..r BY <2>2, <2>5
      <4>2. shown[i] = simplify_attributes(requested[i]) BY DEF AttributesShown
      <4>. QED BY <2>5, <4>1, <4>2
    <3>2. \A i : simplify_attributes(requested[i])' = simplify_attributes(requested'[i])
      <4>. SUFFICES ASSUME NEW i
                    PROVE  simplify_attributes(requested[i])' = simplify_attributes(requested'[i])
        OBVIOUS
      <4>1. PICK a : a = requested'[i] OBVIOUS
      <4>. QED BY <2>6, <4>1
    <3>. QED BY <1>1, <3>1, <3>2 DEF AttributesShown
  <2>10. OutputInv'
    <3>1. PICK h : h = Guards OBVIOUS
    <3>2. Now' = At(default_attr, c, h) BY <1>1, <2>3, <3>1 DEF Now, Guards
    <3>3. PICK k \in Nat : k = c BY <2>2
    <3>4. Leads(Now, pending, At(default_attr, k, h))'
      <4>1. Leads(At(default_attr, k, h), <<>>, At(default_attr, k, h))'
        <5>1. (\A a, b : Leads(a, <<>>, b) <=> a = b)' BY LeadsNowhere, PTL
        <5>2. PICK a : a = At(default_attr, k, h) OBVIOUS
        <5>3. At(default_attr, k, h)' = a BY <5>2 DEF At
        <5>. QED BY <5>1, <5>3
      <4>2. Now' = At(default_attr, k, h)' BY <3>2, <3>3 DEF At
      <4>3. pending' = <<>> BY <1>1, <2>1
      <4>. QED BY <4>1, <4>2, <4>3
    <3>5. BufferFrom(k)'
      <4>1. k + m = r BY <2>3, <3>3 DEF BufferFrom
      <4>2. m \in Nat /\ r \in Nat BY <2>4, <2>5
      <4>3. Len(attrbuffer') = m + 1 /\ Len(requested') = r + 1 BY <2>4, <2>5
      <4>4. /\ \A i \in 1..m : attrbuffer'[i] = attrbuffer[i]
            /\ attrbuffer'[m + 1] = simplify_attributes(curr_attr)
            /\ \A i \in 1..r : requested'[i] = requested[i]
            /\ requested'[r + 1] = curr_attr
            /\ \A i \in 1..m : attrbuffer[i] = simplify_attributes(requested[k + i])
        BY <2>3, <2>4, <2>5, <2>7, <3>3 DEF BufferFrom
      <4>. HIDE DEF m, r
      <4>5. ASSUME NEW i \in 1..(m + 1)
            PROVE  attrbuffer'[i] = simplify_attributes(requested[k + i])'
        <5>1. PICK a : a = requested'[k + i] OBVIOUS
        <5>2. PICK w : /\ w = simplify_attributes(requested[k + i])'
                       /\ w = simplify_attributes(a)
          BY <2>6, <5>1
        <5>3. CASE i \in 1..m
          <6>1. k + i \in 1..r BY <4>1, <4>2, <5>3
          <6>2. a = requested[k + i] BY <4>4, <5>1, <6>1
          <6>3. simplify_attributes(requested[k + i]) = simplify_attributes(a)
            BY <6>2 DEF simplify_attributes
          <6>4. attrbuffer'[i] = w BY <4>4, <5>2, <5>3, <6>3
          <6>. QED BY <5>2, <6>4
        <5>4. CASE i = m + 1
          <6>1. k + i = r + 1 BY <4>1, <4>2, <5>4
          <6>2. a = curr_attr BY <4>4, <5>1, <6>1
          <6>3. simplify_attributes(curr_attr) = simplify_attributes(a)
            BY <6>2 DEF simplify_attributes
          <6>4. attrbuffer'[i] = w BY <4>4, <5>2, <5>4, <6>3
          <6>. QED BY <5>2, <6>4
        <5>5. i \in 1..m \/ i = m + 1 BY <4>2
        <5>. QED BY <5>3, <5>4, <5>5, Zenon
      <4>6. k + Len(attrbuffer') = Len(requested') BY <4>1, <4>2, <4>3
      <4>. QED BY <4>3, <4>5, <4>6 DEF BufferFrom
    <3>. QED BY <3>4, <3>5 DEF OutputInv
  <2>. QED BY <1>1, <2>1, <2>8, <2>9, <2>10
<1>2. ASSUME TermInv, WriteMem PROVE TermInv'
  <2>1. CASE requested' = Append(requested, curr_attr) /\ attrbuffer' = Append(attrbuffer, simp_attr)
               /\ UNCHANGED pending
    BY <1>1, <1>2, <2>1 DEF WriteMem, termsignals, display
  <2>2. CASE pending' = Append(output_buffer(attrbuffer), Newline) /\ attrbuffer' = <<>>
               /\ UNCHANGED requested
    BY <1>2, <2>2, BufferStep DEF WriteMem, termsignals, display
  <2>. QED BY <1>2, <2>1, <2>2 DEF WriteMem
<1>3. ASSUME TermInv, TermFlush PROVE TermInv'
  BY <1>3, BufferStep DEF TermFlush, termsignals, display
<1>. QED BY <1>2, <1>3

LEMMA ExitStep ==
  ASSUME TermInv, process = "running", Exit
  PROVE  TermInv'
<1>. USE DEF TermInv
<1>1. /\ process' = "ended" /\ screen' = IF out_fd >= 0 THEN restore(screen) ELSE screen
      /\ UNCHANGED <<terminal, curr_attr, simp_attr, attrbuffer, requested, out_fd, blocked,
                     raised, shown>>
  BY DEF Exit, termstream, termsignals
<1>2. OutputInv BY DEF TermTypes
<1>3. screen' = default_attr
  <2>1. PICK s : s = screen OBVIOUS
  <2>2. CASE out_fd >= 0
    <3>1. IsScreen(s) BY <1>2, <2>1, NowGuarded
    <3>2. restore(s) = default_attr BY <3>1, Restored
    <3>3. restore(screen) = restore(s) BY <2>1
    <3>4. screen' = restore(screen) BY <1>1, <2>2
    <3>. QED BY <3>2, <3>3, <3>4
  <2>3. CASE ~(out_fd >= 0)
    <3>1. "exit" \notin Guards BY <2>3 DEF Guards, TermTypes
    <3>2. screen = default_attr BY <1>2, <3>1, NowGuarded DEF Guarded, Now, At, AllGuards
    <3>. QED BY <1>1, <2>3, <3>2
  <2>. QED BY <2>2, <2>3
<1>4. TermTypes'
  <2>1. simplify_attributes(curr_attr)' = simplify_attributes(curr_attr) BY <1>1, SimplifyKept
  <2>. QED BY <1>1, <2>1 DEF TermTypes, IsList
<1>. QED BY <1>1, <1>3, <1>4, ShownKept

(* A step of what is pending.                                               *)
LEMMA PendingStep ==
  ASSUME TermInv, process = "running", pending # <<>>, pending' = Tail(pending),
         UNCHANGED <<terminal, curr_attr, simp_attr, attrbuffer, requested, process>>
  PROVE  /\ Good(Now, pending[1])
         /\ Now' = StepOf(Now, pending[1]) => OutputInv'
<1>. USE DEF TermInv
<1>1. PICK n, h : n \in Nat /\ Leads(Now, pending, At(default_attr, n, h)) /\ BufferFrom(n)
  BY DEF OutputInv
<1>2. PICK a, q, b : a = Now /\ q = pending /\ b = At(default_attr, n, h) OBVIOUS
<1>3. Good(a, q[1]) /\ Leads(StepOf(a, q[1]), Tail(q), b) BY <1>1, <1>2, LeadsTail
<1>4. Good(Now, pending[1]) BY <1>2, <1>3
<1>5. ASSUME Now' = StepOf(Now, pending[1]) PROVE OutputInv'
  <2>1. PICK c, t : c = StepOf(a, q[1]) /\ t = Tail(q) OBVIOUS
  <2>2. Leads(c, t, b)' BY <1>3, <2>1, LeadsKept
  <2>3. Now' = c BY <1>2, <1>5, <2>1
  <2>4. pending' = t /\ At(default_attr, n, h)' = b BY <1>2, <2>1 DEF At
  <2>5. Leads(Now, pending, At(default_attr, n, h))' BY <2>2, <2>3, <2>4
  <2>6. BufferFrom(n)' BY <1>1, SimplifyKept DEF BufferFrom
  <2>7. n \in Nat BY <1>1
  <2>. QED BY <2>5, <2>6, <2>7 DEF OutputInv
<1>. QED BY <1>4, <1>5

LEMMA WriteOutStep ==
  ASSUME TermInv, WriteOut
  PROVE  TermInv'
<1>. USE DEF TermInv
<1>. DEFINE x == pending[1]
            c == Len(shown)
<1>1. /\ process = "running" /\ pending # <<>> /\ x.do \in {"escape", "turn_on", "char", "newline"}
      /\ pending' = Tail(pending)
      /\ screen' = IF x.do \in {"escape", "turn_on"} THEN Effect(screen, x) ELSE screen
      /\ shown' = IF x.do = "char" THEN Append(shown, screen) ELSE shown
      /\ UNCHANGED <<terminal, curr_attr, simp_attr, attrbuffer, requested, out_fd, blocked,
                     raised, process>>
  BY DEF WriteOut, Does, termstream, termsignals
<1>2. Good(Now, x) /\ (Now' = StepOf(Now, x) => OutputInv') BY <1>1, PendingStep
<1>3. IsList(shown) /\ c \in Nat BY DEF TermTypes, IsList
<1>4. PICK l, s : l = shown /\ s = screen OBVIOUS
<1>5. /\ IsList(shown') /\ Len(shown') = IF x.do = "char" THEN c + 1 ELSE c
      /\ \A i \in 1..c : shown'[i] = shown[i]
      /\ x.do = "char" => shown'[c + 1] = screen
  <2>1. /\ IsList(Append(l, s)) /\ Len(Append(l, s)) = c + 1
        /\ \A i \in 1..c : Append(l, s)[i] = l[i]
        /\ Append(l, s)[c + 1] = s
    <3>1. IsList(l) BY <1>3, <1>4
    <3>2. /\ IsList(Append(l, s)) /\ Len(Append(l, s)) = Len(l) + 1
          /\ \A i \in 1..Len(l) : Append(l, s)[i] = l[i]
          /\ Append(l, s)[Len(l) + 1] = s
      BY <3>1, Appended
    <3>3. c = Len(l) BY <1>4
    <3>. QED BY <3>2, <3>3
  <2>2. CASE x.do = "char"
    <3>1. shown' = Append(l, s) BY <1>1, <1>4, <2>2
    <3>. QED BY <1>4, <2>1, <2>2, <3>1
  <2>3. CASE x.do # "char" BY <1>1, <1>3, <2>3
  <2>. QED BY <2>2, <2>3
<1>6. x.do = "char" => /\ c + 1 \in DOMAIN requested
                       /\ screen = simplify_attributes(requested[c + 1])
  BY <1>2 DEF Good, Now, At
<1>7. Now' = StepOf(Now, x)
  <2>1. Now.screen = screen /\ Now.n = c /\ Now.guards = Guards BY DEF Now, At
  <2>2. Guards' = Guards BY <1>1 DEF Guards
  <2>3. StepOf(Now, x) = [screen |-> screen', n |-> Len(shown'), guards |-> Guards']
    <3>1. StepOf(Now, x).screen = screen'
      <4>1. StepOf(Now, x).screen =
              IF x.do \in {"escape", "turn_on"} THEN Effect(Now.screen, x) ELSE Now.screen
        BY DEF StepOf
      <4>2. Effect(Now.screen, x) = Effect(screen, x) BY <2>1
      <4>. QED BY <1>1, <2>1, <4>1, <4>2
    <3>2. StepOf(Now, x).n = Len(shown') BY <1>5, <2>1 DEF StepOf
    <3>3. StepOf(Now, x).guards = Guards' BY <1>1, <2>1, <2>2 DEF StepOf
    <3>. QED BY <3>1, <3>2, <3>3 DEF StepOf
  <2>. QED BY <2>3 DEF Now, At
<1>8. TermTypes'
  <2>1. simplify_attributes(curr_attr)' = simplify_attributes(curr_attr) BY <1>1, SimplifyKept
  <2>2. Len(shown') <= Len(requested)
    <3>1. requested \in Seq(Asked) /\ c <= Len(requested) BY DEF TermTypes
    <3>. QED BY <1>3, <1>5, <1>6, <3>1
  <2>. QED BY <1>1, <1>5, <2>1, <2>2 DEF TermTypes, IsList
<1>9. AttributesShown'
  <2>. SUFFICES ASSUME NEW i \in 1..Len(shown')
                PROVE  (shown[i] = simplify_attributes(requested[i]))'
    BY DEF AttributesShown
  <2>1. PICK r : r = requested[i] OBVIOUS
  <2>2. simplify_attributes(requested[i])' = simplify_attributes(r) BY <1>1, <2>1, SimplifyKept
  <2>3. CASE i \in 1..c
    BY <1>5, <2>1, <2>2, <2>3 DEF AttributesShown
  <2>4. CASE i = c + 1 /\ x.do = "char" BY <1>5, <1>6, <2>1, <2>2, <2>4
  <2>. QED BY <1>3, <1>5, <2>3, <2>4
<1>. QED BY <1>1, <1>2, <1>7, <1>8, <1>9

LEMMA GuardStep ==
  ASSUME TermInv, SetHandler \/ BlockSignals
  PROVE  TermInv'
<1>. USE DEF TermInv
<1>. DEFINE x == pending[1]
<1>1. /\ process = "running" /\ pending # <<>> /\ pending' = Tail(pending)
      /\ x.do \in {"handler", "block", "unblock"}
      /\ UNCHANGED <<terminal, curr_attr, simp_attr, attrbuffer, requested, process, screen, shown,
                     raised>>
  BY DEF SetHandler, BlockSignals, Does, termstream, termsignals, display
<1>2. /\ x.do = "handler" => out_fd' = x.fd /\ blocked' = blocked
      /\ x.do = "block" => blocked' = blocked \cup {x.signal} /\ out_fd' = out_fd
      /\ x.do = "unblock" => blocked' = blocked \ {x.signal} /\ out_fd' = out_fd
  BY DEF SetHandler, BlockSignals, Does, termsignals
<1>3. Good(Now, x) /\ (Now' = StepOf(Now, x) => OutputInv') BY <1>1, PendingStep
<1>4. /\ x.do \in {"block", "unblock"} => x.signal \in {"fatal", "stop"}
      /\ x.do = "handler" => x.fd \in {-1, Stdout}
  BY <1>3 DEF Good
<1>5. blocked \subseteq {"fatal", "stop"} /\ out_fd \in {-1, Stdout} BY DEF TermTypes
<1>6. Guards' = StepOf(Now, x).guards
  <2>1. Now.guards = Guards BY DEF Now, At
  <2>2. CASE x.do = "handler"
    <3>1. StepOf(Now, x).guards = IF x.fd >= 0 THEN Guards \cup {"exit"} ELSE Guards \ {"exit"}
      BY <2>1, <2>2 DEF StepOf
    <3>. QED BY <1>2, <1>4, <1>5, <2>2, <3>1 DEF Guards, Stdout
  <2>3. CASE x.do = "block"
    <3>1. StepOf(Now, x).guards = Guards \cup {x.signal} BY <2>1, <2>3 DEF StepOf
    <3>. QED BY <1>2, <2>3, <3>1 DEF Guards
  <2>4. CASE x.do = "unblock"
    <3>1. StepOf(Now, x).guards = Guards \ {x.signal} BY <2>1, <2>4 DEF StepOf
    <3>2. x.signal # "exit" BY <1>4, <2>4
    <3>. QED BY <1>2, <2>4, <3>1, <3>2 DEF Guards
  <2>. QED BY <1>1, <2>2, <2>3, <2>4
<1>7. Now' = StepOf(Now, x)
  <2>1. Now.screen = screen /\ Now.n = Len(shown) BY DEF Now, At
  <2>2. StepOf(Now, x) = [screen |-> screen, n |-> Len(shown), guards |-> StepOf(Now, x).guards]
    BY <1>1, <2>1 DEF StepOf
  <2>. QED BY <1>1, <1>6, <2>2 DEF Now, At
<1>8. TermTypes'
  <2>1. simplify_attributes(curr_attr)' = simplify_attributes(curr_attr) BY <1>1, SimplifyKept
  <2>2. out_fd' \in {-1, Stdout} /\ blocked' \subseteq {"fatal", "stop"}
    BY <1>1, <1>2, <1>4, <1>5
  <2>. QED BY <1>1, <2>1, <2>2 DEF TermTypes, IsList
<1>. QED BY <1>1, <1>3, <1>7, <1>8, ShownKept

(* A signal that is delivered finds the terminal in its default state.      *)
LEMMA SignalStep ==
  ASSUME TermInv, Raise \/ Deliver \/ Continue
  PROVE  TermInv'
<1>. USE DEF TermInv
<1>1. /\ process \in {"running", "stopped"} /\ process' \in {"running", "stopped", "ended"}
      /\ UNCHANGED <<terminal, curr_attr, simp_attr, attrbuffer, requested, pending, screen,
                     shown, out_fd, blocked>>
  BY DEF Raise, Deliver, Continue, termstream, termsignals, display
<1>2. raised' \subseteq {"fatal", "stop"}
  <2>1. raised \subseteq {"fatal", "stop"} BY DEF TermTypes
  <2>. QED BY <2>1 DEF Raise, Deliver, Continue, termsignals
<1>3. OutputInv' BY <1>1, OutputKept
<1>4. process' # "running" => screen = default_attr
  <2>1. CASE Deliver
    <3>1. PICK s \in {"fatal", "stop"} : s \notin blocked BY <2>1 DEF Deliver, TermTypes
    <3>2. s \notin Guards BY <3>1 DEF Guards
    <3>. QED BY <1>1, <3>1, <3>2, NowGuarded DEF Guarded, Now, At, AllGuards
  <2>2. CASE Raise \/ Continue BY <2>2 DEF Raise, Continue
  <2>. QED BY <2>1, <2>2
<1>5. TermTypes'
  <2>1. simplify_attributes(curr_attr)' = simplify_attributes(curr_attr) BY <1>1, SimplifyKept
  <2>. QED BY <1>1, <1>2, <2>1 DEF TermTypes, IsList
<1>. QED BY <1>1, <1>3, <1>4, <1>5, ShownKept

LEMMA TermKept == TermInv /\ [TermNext]_termvars => TermInv'
<1>. SUFFICES ASSUME TermInv, [TermNext]_termvars PROVE TermInv'
  OBVIOUS
<1>1. CASE SetAttributes BY <1>1, SetStep
<1>2. CASE WriteMem \/ TermFlush BY <1>2, WriteMemStep
<1>3. CASE ExitProgram \/ WriteFails
  BY <1>3, ExitStep DEF ExitProgram, WriteFails, Ready, Does
<1>4. CASE WriteOut BY <1>4, WriteOutStep
<1>5. CASE SetHandler \/ BlockSignals BY <1>5, GuardStep
<1>6. CASE Raise \/ Deliver \/ Continue BY <1>6, SignalStep
<1>7. CASE UNCHANGED termvars
  <2>1. /\ UNCHANGED <<terminal, curr_attr, simp_attr, attrbuffer, pending, out_fd, blocked,
                       raised, process, screen, requested, shown>>
    BY <1>7 DEF termvars
  <2>2. simplify_attributes(curr_attr)' = simplify_attributes(curr_attr) BY <2>1, SimplifyKept
  <2>3. TermTypes' BY <2>1, <2>2 DEF TermInv, TermTypes, IsList
  <2>. QED BY <2>1, <2>3, OutputKept, ShownKept DEF TermInv
<1>. QED BY <1>1, <1>2, <1>3, <1>4, <1>5, <1>6, <1>7 DEF TermNext

(* The invariant of a stream: what output_buffer has still to do shows each *)
(* character as it was asked for and leads back to the default state, and   *)
(* wherever it leaves that state, signals and exits are taken care of.      *)
THEOREM TermInvariant == TermSpec => []TermInv
BY InitTerm, TermKept, PTL DEF TermSpec

(* Whatever the terminal's sequences clear on the way, each character is    *)
(* shown with the attributes that were asked for.                           *)
THEOREM ShownAsRequested == TermSpec => []AttributesShown
<1>1. TermInv => AttributesShown BY DEF TermInv
<1>. QED BY <1>1, TermInvariant, PTL

(* The terminal is in its default state between two lines, and when a       *)
(* signal or a failed write stops or ends the program.                      *)
THEOREM TerminalRestored == TermSpec => []DefaultRestored
<1>1. TermInv => DefaultRestored
  <2>. SUFFICES ASSUME TermInv, Ready PROVE screen = default_attr
    BY DEF TermInv, DefaultRestored
  <2>. QED BY NowGuarded DEF TermInv, Ready
<1>. QED BY <1>1, TermInvariant, PTL
=============================================================================
