-------------------------------- MODULE Log ---------------------------------
(***************************************************************************)
(* The log of untranslated messages (log.c).  dcigettext calls             *)
(* _nl_log_untranslated for every message it finds no translation of, in   *)
(* whatever thread; the log file stays open between the calls.             *)
(***************************************************************************)
EXTENDS Naturals, Sequences

CONSTANTS
  LogThreads,
  LogNames,     \* the values of GETTEXT_LOG_UNTRANSLATED
  NoName,       \* NULL: no log file is open or remembered; no thread
  LogCalls,     \* how often a thread calls (a bound of the model)
  Pieces        \* in how many pieces an entry is written

VARIABLES
  loglock,           \* the thread that holds lock
  last_logfilename,
  last_logfile,      \* the name of the file that is open
  logpc,             \* the point each thread is at
  logname,           \* its logfilename
  logcalls,          \* how many calls it has made
  written,           \* how many pieces of its entry it has written
  logged             \* the contents of each file: of which call each piece is

logvars == <<loglock, last_logfilename, last_logfile, logpc, logname, logcalls, written, logged>>
logstatic == <<last_logfilename, last_logfile>>
logthread == <<logname, logcalls>>

LogInit ==
  /\ loglock = NoName /\ last_logfilename = NoName /\ last_logfile = NoName
  /\ logpc = [t \in LogThreads |-> "idle"]
  /\ logname = [t \in LogThreads |-> NoName]
  /\ logcalls = [t \in LogThreads |-> 0]
  /\ written = [t \in LogThreads |-> 0]
  /\ logged = [n \in LogNames |-> <<>>]

(* A crash stops all threads.                                               *)
Crashed == \E t \in LogThreads : logpc[t] = "crash"
LogAt(t, p) == logpc[t] = p /\ ~Crashed
LogGoto(t, p) == logpc' = [logpc EXCEPT ![t] = p]

(* The environment variable may change between the calls.                   *)
CallLog(t) ==
  /\ LogAt(t, "idle") /\ logcalls[t] < LogCalls
  /\ \E n \in LogNames : logname' = [logname EXCEPT ![t] = n]
  /\ logcalls' = [logcalls EXCEPT ![t] = @ + 1]
  /\ LogGoto(t, "lock")
  /\ UNCHANGED <<loglock, logstatic, written, logged>>

LockLogMutant(t) == TRUE
LockLog(t) == loglock = NoName

Acquire(t) ==
  /\ LogAt(t, "lock") /\ LockLog(t)
  /\ loglock' = t
  /\ LogGoto(t, "reuse")
  /\ UNCHANGED <<logstatic, logthread, written, logged>>

(* Can we reuse the last opened logfile?  If not, it is closed.             *)
Reuse(t) ==
  /\ LogAt(t, "reuse")
  /\ IF last_logfilename = logname[t]
     THEN LogGoto(t, "write") /\ UNCHANGED logstatic
     ELSE LogGoto(t, "open") /\ last_logfilename' = NoName /\ last_logfile' = NoName
  /\ UNCHANGED <<loglock, logthread, written, logged>>

(* malloc and fopen, which may fail.  A failed fopen leaves the name there. *)
Open(t) ==
  /\ LogAt(t, "open")
  /\ \/ /\ LogGoto(t, "unlock")
        /\ UNCHANGED logstatic
     \/ /\ last_logfilename' = logname[t]
        /\ LogGoto(t, "unlock")
        /\ UNCHANGED last_logfile
     \/ /\ last_logfilename' = logname[t] /\ last_logfile' = logname[t]
        /\ LogGoto(t, "write")
  /\ UNCHANGED <<loglock, logthread, written, logged>>

(* The calls of fprintf and putc.  On a null pointer, the program crashes.  *)
WriteLog(t) ==
  /\ LogAt(t, "write")
  /\ IF last_logfile = NoName
     THEN LogGoto(t, "crash") /\ UNCHANGED <<written, logged>>
     ELSE /\ logged' = [logged EXCEPT ![last_logfile] = Append(@, <<t, logcalls[t], logname[t]>>)]
          /\ written' = [written EXCEPT ![t] = (@ + 1) % Pieces]
          /\ IF written'[t] = 0 THEN LogGoto(t, "unlock") ELSE UNCHANGED logpc
  /\ UNCHANGED <<loglock, logstatic, logthread>>

UnlockLog(t) ==
  /\ LogAt(t, "unlock")
  /\ loglock' = NoName
  /\ logname' = [logname EXCEPT ![t] = NoName]
  /\ LogGoto(t, "idle")
  /\ UNCHANGED <<logstatic, logcalls, written, logged>>

LogNext ==
  \E t \in LogThreads :
    CallLog(t) \/ Acquire(t) \/ Reuse(t) \/ Open(t) \/ WriteLog(t) \/ UnlockLog(t)

LogSpec == LogInit /\ [][LogNext]_logvars

----------------------------------------------------------------------------
(* Properties.                                                              *)

(* The entries in a log file are whole: the pieces of an entry stand next   *)
(* to each other, whatever the other threads log, and in the file the call  *)
(* named.  (A thread may be in the middle of the last entry.)               *)
EntriesWhole ==
  \A n \in LogNames : \A i \in 1..Len(logged[n]) :
    LET start == i - ((i - 1) % Pieces)
    IN logged[n][i] = logged[n][start] /\ logged[n][i][3] = n

(* While a thread writes, the file of the name it was given is open: the    *)
(* last log file is reused only if it is one.                               *)
ReusesOpenFile ==
  \A t \in LogThreads : logpc[t] = "write" => last_logfile = logname[t]
=============================================================================
