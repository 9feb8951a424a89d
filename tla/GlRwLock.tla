------------------------------ MODULE GlRwLock ------------------------------
(***************************************************************************)
(* The read-write lock of gettext-runtime/intl/lock.c for systems without  *)
(* pthread_rwlock_t: a mutex, two condition variables, and two counts.     *)
(*                                                                         *)
(* The mutex is held from the call to the return except while a thread     *)
(* sleeps in pthread_cond_wait, so what happens in between is one step.  A *)
(* thread that has been woken up, also without a signal (POSIX allows it), *)
(* tests its condition again when it gets the mutex.                       *)
(***************************************************************************)
EXTENDS Integers, FiniteSets

CONSTANTS RwThreads, NoThread

\* runcount counts the threads, in an int that they do not overflow.
ASSUME ThreadsAssumption ==
  IsFiniteSet(RwThreads) /\ NoThread \notin RwThreads

VARIABLES
  runcount,             \* -1 with a writer, else the number of readers
  waitingWritersCount,
  rwpc                    \* where each thread is

rwvars == <<runcount, waitingWritersCount, rwpc>>

RwAt(label) == {t \in RwThreads : rwpc[t] = label}

RwInit == /\ runcount = 0
        /\ waitingWritersCount = 0
        /\ rwpc = [t \in RwThreads |-> "idle"]

(* A thread wants the lock.                                                *)
Request(t) ==
  /\ rwpc[t] = "idle"
  /\ \E op \in {"rdlock", "wrlock"} : rwpc' = [rwpc EXCEPT ![t] = op]
  /\ UNCHANGED <<runcount, waitingWritersCount>>

MayReadMutant == runcount + 1 > 0
MayRead == runcount + 1 > 0 /\ waitingWritersCount = 0

RdLock(t) ==
  /\ rwpc[t] \in {"rdlock", "rdwoken"}
  /\ IF MayRead
     THEN runcount' = runcount + 1 /\ rwpc' = [rwpc EXCEPT ![t] = "reading"]
     ELSE UNCHANGED runcount /\ rwpc' = [rwpc EXCEPT ![t] = "rdsleep"]
  /\ UNCHANGED waitingWritersCount

\* What WrLock finds in waitingWritersCount when it tests its condition: the
\* count goes down after the sleep, and up again before the next.
StillWaitingMutant(t) == waitingWritersCount
StillWaiting(t) ==
  IF rwpc[t] = "wrwoken" THEN waitingWritersCount - 1 ELSE waitingWritersCount

\* A writer that does not mind the readers.
MayWriteMutant == runcount >= 0
MayWrite == runcount = 0

WrLock(t) ==
  /\ rwpc[t] \in {"wrlock", "wrwoken"}
  /\ \/ /\ MayWrite
        /\ runcount' = -1 /\ waitingWritersCount' = StillWaiting(t)
        /\ rwpc' = [rwpc EXCEPT ![t] = "writing"]
     \/ /\ ~ MayWrite
        /\ UNCHANGED runcount /\ waitingWritersCount' = StillWaiting(t) + 1
        /\ rwpc' = [rwpc EXCEPT ![t] = "wrsleep"]

\* pthread_cond_signal wakes a sleeping writer, if there is one;
\* pthread_cond_broadcast all sleeping readers.
Signal(npc) ==
  \/ \E w \in RwAt("wrsleep") : rwpc' = [npc EXCEPT ![w] = "wrwoken"]
  \/ RwAt("wrsleep") = {} /\ rwpc' = npc
Broadcast(npc) == rwpc' = [u \in RwThreads |-> IF rwpc[u] = "rdsleep" THEN "rdwoken" ELSE npc[u]]

\* An unlock that wakes up writers only.
UnlockMutant(t) ==
  LET idle == [rwpc EXCEPT ![t] = "idle"]
  IN  /\ rwpc[t] \in {"reading", "writing"}
      /\ runcount' = IF runcount < 0 THEN 0 ELSE runcount - 1
      /\ IF runcount' = 0 THEN Signal(idle) ELSE rwpc' = idle
      /\ UNCHANGED waitingWritersCount

Unlock(t) ==
  LET idle == [rwpc EXCEPT ![t] = "idle"]
  IN  /\ rwpc[t] \in {"reading", "writing"}
      /\ runcount' = IF runcount < 0 THEN 0 ELSE runcount - 1
      /\ \/ runcount' # 0 /\ rwpc' = idle
         \/ runcount' = 0 /\ waitingWritersCount > 0 /\ Signal(idle)
         \/ runcount' = 0 /\ waitingWritersCount = 0 /\ Broadcast(idle)
      /\ UNCHANGED waitingWritersCount

(* A spurious wake-up.                                                     *)
Wake(t) ==
  /\ \/ rwpc[t] = "rdsleep" /\ rwpc' = [rwpc EXCEPT ![t] = "rdwoken"]
     \/ rwpc[t] = "wrsleep" /\ rwpc' = [rwpc EXCEPT ![t] = "wrwoken"]
  /\ UNCHANGED <<runcount, waitingWritersCount>>

RwNext == \E t \in RwThreads : Request(t) \/ RdLock(t) \/ WrLock(t) \/ Unlock(t) \/ Wake(t)

RwSpec == RwInit /\ [][RwNext]_rwvars

(* A thread that can run does, and releases the lock in the end.  Nobody   *)
(* is obliged to want the lock, and no wake-up comes without a signal.     *)
RwFairness == \A t \in RwThreads : WF_rwvars(RdLock(t) \/ WrLock(t) \/ Unlock(t))

RwFairSpec == RwSpec /\ RwFairness

-----------------------------------------------------------------------------
RwLabels == {"idle", "rdlock", "rdsleep", "rdwoken", "reading",
           "wrlock", "wrsleep", "wrwoken", "writing"}

\* The counts are those of the threads; a writer is alone.
Counts ==
  /\ rwpc \in [RwThreads -> RwLabels]
  /\ waitingWritersCount = Cardinality(RwAt("wrsleep") \cup RwAt("wrwoken"))
  /\ \/ runcount = Cardinality(RwAt("reading")) /\ RwAt("writing") = {}
     \/ runcount = -1 /\ RwAt("reading") = {} /\ \E w \in RwThreads : RwAt("writing") = {w}

(* No wake-up is lost: while the lock is free a sleeping writer can count  *)
(* on one that is awake, and a reader sleeps only as long as a writer      *)
(* holds the lock or waits for it.                                         *)
NoLostWakeup ==
  /\ runcount = 0 /\ RwAt("wrsleep") # {} => RwAt("wrwoken") # {}
  /\ RwAt("rdsleep") # {} => runcount = -1 \/ waitingWritersCount > 0

(* If a thread wants to write, one will write, however many readers come   *)
(* and go ("to avoid writer starvation", lock.c:234).                      *)
WriterEnters ==
  \A t \in RwThreads : rwpc[t] = "wrlock" ~> \E w \in RwThreads : rwpc[w] = "writing"

\* It is a read-write lock.
Holder(S) == IF S = {} THEN NoThread ELSE CHOOSE t \in RwThreads : t \in S

Abstract == INSTANCE RwLock
              WITH Threads <- RwThreads, Null <- NoThread,
                   readers <- RwAt("reading"), writer <- Holder(RwAt("writing"))

(* lock.c implements the lock that dcigettext.c and the other users of     *)
(* gl_rwlock_t rely on.                                                    *)
ImplementsRwLock == Abstract!Spec
=============================================================================
