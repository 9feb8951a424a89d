------------------------------- MODULE Filter -------------------------------
(***************************************************************************)
(* How msgfilter sends a translation through a filter program              *)
(* (msgfilter.c).  Each string of the translation goes to a subprocess of  *)
(* its own, over two pipes that both may fill up: msgfilter must not wait  *)
(* for one while the filter waits for the other.                           *)
(***************************************************************************)
EXTENDS Naturals, Sequences

CONSTANTS
  \* The translations and what the filter does to them: records of the
  \* lengths of the strings, the outputs (sequences of "byte" and "NUL"),
  \* kept (a header entry that is kept), reads_all (a filter that reads its
  \* input to the end and succeeds) and have_select (the build).
  FilterInputs,
  PipeSize      \* how many bytes fit into a pipe

ASSUME FilterAssumption ==
  /\ PipeSize \in Nat \ {0}
  /\ \A j \in FilterInputs :
       /\ j.lengths \in Seq(Nat)
       /\ j.outputs \in Seq(Seq({"byte", "NUL"})) /\ Len(j.lengths) <= Len(j.outputs)

VARIABLES
  job,         \* the translation, an element of FilterInputs
  filterpc,    \* the point msgfilter is at
  results,     \* the strings that have been filtered
  sending,     \* str # NULL: the pipe to the filter is open
  len,         \* how many bytes are still to be written
  length,      \* how many bytes have been read
  allocated,   \* and for how many there is room
  to_child,    \* how many bytes are in the pipe to the filter
  from_child,  \* and in the one from it
  child,       \* what the filter is about to do, or how it has ended
  seen_eof,    \* whether it has seen the end of its input
  produced     \* how many bytes it has written

filtervars == <<job, filterpc, results, sending, len, length, allocated, to_child, from_child,
                child, seen_eof, produced>>
input_side == <<sending, len, to_child>>
output_side == <<length, allocated, from_child>>
filterchild == <<child, seen_eof, produced>>

FilterInit ==
  /\ job \in FilterInputs
  /\ filterpc = "start" /\ results = <<>>
  /\ sending = FALSE /\ len = 0 /\ length = 0 /\ allocated = 0
  /\ to_child = 0 /\ from_child = 0
  /\ child = "none" /\ seen_eof = FALSE /\ produced = 0

Smaller(i, j) == IF i < j THEN i ELSE j
FilterGoto(p) == filterpc' = p

Current == Len(results) + 1
Output == job.outputs[Current]
Ended == child \in {"exited", "died"}

----------------------------------------------------------------------------
(* The filter.  It reads and writes in any order, but what it has begun it  *)
(* waits for.                                                               *)
Begin(eof, n) ==
  \/ ~eof /\ child' = "reading"
  \/ n < Len(Output) /\ child' = "writing"
  \/ n = Len(Output) /\ (eof \/ ~job.reads_all) /\ child' = "exited"
  \/ ~job.reads_all /\ child' = "died"

ChildReads ==
  /\ child = "reading"
  /\ \/ /\ to_child > 0
        /\ \E n \in 1..to_child : to_child' = to_child - n
        /\ UNCHANGED seen_eof
     \/ /\ to_child = 0 /\ ~sending
        /\ seen_eof' = TRUE
        /\ UNCHANGED to_child
  /\ Begin(seen_eof', produced)
  /\ UNCHANGED <<produced, sending, len, output_side>>

(* When msgfilter no longer reads, the filter gets SIGPIPE.                 *)
ChildWrites ==
  /\ child = "writing"
  /\ IF filterpc = "wait"
     THEN child' = "died" /\ UNCHANGED <<produced, from_child>>
     ELSE /\ from_child < PipeSize
          /\ produced' = produced + 1
          /\ from_child' = from_child + 1
          /\ Begin(seen_eof, produced')
  /\ UNCHANGED <<seen_eof, input_side, length, allocated>>

ChildStep == (ChildReads \/ ChildWrites) /\ UNCHANGED <<job, filterpc, results>>

----------------------------------------------------------------------------
(* process_message: a header entry may be kept; each string of another      *)
(* message is filtered.                                                     *)
NextString ==
  IF job.kept \/ Len(results') = Len(job.lengths) THEN "done" ELSE "create"

ProcessMessage ==
  /\ filterpc = "start"
  /\ UNCHANGED <<job, results, input_side, output_side, filterchild>>
  /\ FilterGoto(NextString)

(* generic_filter: create_pipe_bidi and fcntl may fail.                     *)
CreatePipe ==
  /\ filterpc = "create"
  /\ LET n == job.lengths[Current]
     IN \/ /\ sending' = TRUE /\ len' = n /\ to_child' = 0
           /\ length' = 0 /\ allocated' = n + n \div 4 + 1 /\ from_child' = 0
           /\ seen_eof' = FALSE /\ produced' = 0 /\ Begin(FALSE, 0)
           /\ FilterGoto(IF job.have_select THEN "select" ELSE "write")
        \/ /\ FilterGoto("no_process")
           /\ UNCHANGED <<input_side, output_side, filterchild>>
  /\ UNCHANGED <<job, results>>

Writable == sending /\ (to_child < PipeSize \/ Ended)

ReadableMutant == ~sending /\ (from_child > 0 \/ Ended)
Readable == from_child > 0 \/ Ended

(* select waits until one of the pipes is ready; to write comes first.      *)
Select ==
  /\ filterpc = "select"
  /\ \/ Writable /\ FilterGoto("write")
     \/ ~Writable /\ Readable /\ FilterGoto("read")
  /\ UNCHANGED <<job, results, input_side, output_side, filterchild>>

(* Attempt to write.  When no process reads, SIGPIPE ends msgfilter.        *)
TryWrite ==
  /\ filterpc = "write"
  /\ \/ /\ sending /\ len > 0 /\ to_child < PipeSize /\ ~Ended
        /\ \E n \in 1..Smaller(len, PipeSize - to_child) :
             len' = len - n /\ to_child' = to_child + n
        /\ UNCHANGED sending
     \/ /\ sending /\ len = 0
        /\ sending' = FALSE
        /\ UNCHANGED <<len, to_child>>
     \/ /\ ~sending \/ (len > 0 /\ (to_child = PipeSize \/ Ended))
        /\ UNCHANGED input_side
  /\ FilterGoto(IF sending /\ len > 0 /\ Ended THEN "failed"
                ELSE IF job.have_select THEN "select" ELSE "read")
  /\ UNCHANGED <<job, results, output_side, filterchild>>

GrownMutant(room) == room + room \div 4
Grown(room) == room + room \div 2

(* Whether what read has returned is the end of the output.                 *)
AllRead(room, nread) == ~sending /\ nread = 0

(* Attempt to read.  An empty pipe is an error or the end of the output,    *)
(* which matters when everything has been written; to read 0 bytes gives 0. *)
TryRead ==
  /\ filterpc = "read"
  /\ allocated' = IF length = allocated THEN Grown(allocated) ELSE allocated
  /\ LET room == allocated' - length
         Again == FilterGoto(IF job.have_select THEN "select" ELSE "write")
     IN \/ /\ room > 0 /\ from_child > 0
           /\ \E nread \in 1..Smaller(room, from_child) :
                /\ length' = length + nread /\ from_child' = from_child - nread
                /\ IF AllRead(room, nread) THEN FilterGoto("wait") ELSE Again
        \/ /\ room = 0 \/ (from_child = 0 /\ Ended)
           /\ IF AllRead(room, 0) THEN FilterGoto("wait") ELSE Again
           /\ UNCHANGED <<length, from_child>>
        \/ /\ room > 0 /\ from_child = 0 /\ ~Ended
           /\ IF job.have_select THEN FilterGoto("failed") ELSE Again
           /\ UNCHANGED <<length, from_child>>
  /\ UNCHANGED <<job, results, input_side, filterchild>>

(* process_string removes the NUL bytes.                                    *)
WithoutNul(output) == SelectSeq(output, LAMBDA b : b # "NUL")

(* The pipe from the filter is closed; wait_subprocess.                     *)
WaitSubprocess ==
  /\ filterpc = "wait" /\ Ended
  /\ IF child = "exited"
     THEN /\ results' = Append(results, WithoutNul(SubSeq(Output, 1, length)))
          /\ FilterGoto(NextString)
     ELSE FilterGoto("failed") /\ UNCHANGED results
  /\ UNCHANGED <<job, input_side, output_side, filterchild>>

FilterStep ==
  ProcessMessage \/ CreatePipe \/ Select \/ TryWrite \/ TryRead \/ WaitSubprocess

FilterNext == FilterStep \/ ChildStep

(* Both processes run, once msgfilter has begun.                            *)
FilterFairness ==
  /\ WF_filtervars(filterpc # "start" /\ FilterStep)
  /\ WF_filtervars(ChildStep)

FilterSpec == FilterInit /\ [][FilterNext]_filtervars /\ FilterFairness

----------------------------------------------------------------------------
(* Properties.                                                              *)

(* "Process a string STR of size LEN bytes through the subprogram": the     *)
(* result of a string is the whole output of the filter for this string,    *)
(* however the pipes cut it in pieces, without its NUL bytes.               *)
ResultsComplete ==
  \A i \in 1..Len(results) : results[i] = WithoutNul(job.outputs[i])

(* Neither process waits for the other for ever, however small the pipes;   *)
(* and with a filter that reads its input to the end, in whatever order it  *)
(* reads and writes, all strings are filtered.                              *)
FilterEnds ==
  filterpc # "start" ~>
    (filterpc \in {"done", "no_process"} \/ (filterpc = "failed" /\ ~job.reads_all))
=============================================================================
