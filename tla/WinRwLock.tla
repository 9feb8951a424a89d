------------------------------ MODULE WinRwLock -----------------------------
(***************************************************************************)
(* The read-write lock of lock.c for Win32.  Threads that must wait stand  *)
(* in two queues, circular arrays that grow, and whoever unlocks hands the *)
(* lock over to the first writer or to all readers that wait.  The first   *)
(* user of a lock initializes it.                                          *)
(*                                                                         *)
(* What a thread does inside of the critical section is one step.          *)
(***************************************************************************)
EXTENDS Integers, FiniteSets

CONSTANTS
  WinThreads,
  WinPrograms,  \* programs: sets of pairs of a thread and "rd" or "wr", what it
                \* may want of the lock
  NoEvent       \* no thread

ASSUME WinAssumption ==
  /\ IsFiniteSet(WinThreads) /\ NoEvent \notin WinThreads
  /\ \A p \in WinPrograms : p \subseteq WinThreads \X {"rd", "wr"}

VARIABLES
  winprogram,   \* a member of WinPrograms
  done,         \* lock->guard.done
  guardstarted, \* lock->guard.started
  winrun,       \* lock->runcount
  queue,        \* lock->waiting_readers and lock->waiting_writers
  signalled,    \* the waiting threads whose event is set
  want,         \* what each thread wants of the lock, or NoEvent
  winpc         \* the point it is at

winvars == <<winprogram, done, guardstarted, winrun, queue, signalled, want, winpc>>
guardvars == <<winprogram, done, guardstarted>>

(* gl_waitqueue_init.  An event is named by the thread that waits for it.   *)
EmptyQueue == [array |-> [i \in {} |-> NoEvent], count |-> 0, alloc |-> 0, offset |-> 0]

WinInit ==
  /\ winprogram \in WinPrograms
  /\ done = FALSE /\ guardstarted = -1 /\ winrun = 0
  /\ queue = [op \in {"rd", "wr"} |-> EmptyQueue]
  /\ signalled = {}
  /\ want = [t \in WinThreads |-> NoEvent]
  /\ winpc = [t \in WinThreads |-> "idle"]

WinGoto(t, p) == winpc' = [winpc EXCEPT ![t] = p]

----------------------------------------------------------------------------
(* gl_waitqueue_add: the array is enlarged when it is full, and rotated to  *)
(* start from 0.  An entry that is no longer in use counts as NoEvent.      *)
RotatedMutant(wq) ==   \* without the part that had wrapped around
  [i \in 0..(wq.alloc - 1) |->
     IF wq.offset + i < wq.alloc THEN wq.array[wq.offset + i] ELSE NoEvent]
Rotated(wq) == [i \in 0..(wq.alloc - 1) |-> wq.array[(wq.offset + i) % wq.alloc]]

Enlarged(wq) ==
  LET rotated == Rotated(wq)
  IN [array  |-> [i \in 0..(2 * wq.alloc) |-> IF i < wq.alloc THEN rotated[i] ELSE NoEvent],
      count  |-> wq.count, alloc |-> 2 * wq.alloc + 1, offset |-> 0]

Room(wq) == IF wq.count = wq.alloc THEN Enlarged(wq) ELSE wq

Added(wq, t) ==
  LET room == Room(wq)
  IN [room EXCEPT !.array[(room.offset + room.count) % room.alloc] = t,
                  !.count = @ + 1]

(* gl_waitqueue_notify_first.                                               *)
Dequeued(wq) ==
  [wq EXCEPT !.array[wq.offset] = NoEvent,
             !.count = @ - 1,
             !.offset = IF wq.count = 1 \/ wq.offset + 1 = wq.alloc THEN 0 ELSE @ + 1]

(* The events of a queue, and what gl_waitqueue_notify_all leaves.          *)
Events(wq) == { wq.array[(wq.offset + i) % wq.alloc] : i \in 0..(wq.count - 1) }
Emptied(wq) ==
  [wq EXCEPT !.array = [i \in DOMAIN wq.array |-> NoEvent], !.count = 0, !.offset = 0]

----------------------------------------------------------------------------
(* The spinlock that guards the initialization.                             *)
FirstUse(t, op) ==
  /\ winpc[t] = "idle" /\ ~done
  /\ want' = [want EXCEPT ![t] = op]
  /\ WinGoto(t, "increment")
  /\ UNCHANGED <<guardvars, winrun, queue, signalled>>

Increment(t) ==
  /\ winpc[t] = "increment"
  /\ guardstarted' = guardstarted + 1
  /\ WinGoto(t, IF guardstarted' = 0 THEN "init" ELSE "spin")
  /\ UNCHANGED <<winprogram, done, winrun, queue, signalled, want>>

InitLock(t) ==
  /\ winpc[t] = "init"
  /\ winrun' = 0 /\ queue' = [op \in {"rd", "wr"} |-> EmptyQueue]
  /\ done' = TRUE
  /\ WinGoto(t, "lock")
  /\ UNCHANGED <<winprogram, guardstarted, signalled, want>>

Spin(t) ==
  /\ winpc[t] = "spin" /\ done
  /\ WinGoto(t, "lock")
  /\ UNCHANGED <<guardvars, winrun, queue, signalled, want>>

----------------------------------------------------------------------------
(* glthread_rwlock_rdlock_func and glthread_rwlock_wrlock_func, of a lock   *)
(* that is initialized.                                                     *)
Mine(t) == IF winpc[t] = "idle" THEN { r[2] : r \in { x \in winprogram : x[1] = t } } ELSE {want[t]}

MayRunMutant(op) == winrun + 1 > 0
MayRun(op) == IF op = "rd" THEN winrun + 1 > 0 ELSE winrun = 0
Entered(op) == IF op = "rd" THEN winrun + 1 ELSE winrun - 1

AtLock(t) == done /\ winpc[t] \in {"idle", "lock"}

WinLock(t) ==
  /\ AtLock(t)
  /\ \E op \in Mine(t) :
       /\ MayRun(op)
       /\ want' = [want EXCEPT ![t] = op]
       /\ winrun' = Entered(op)
  /\ WinGoto(t, "hold")
  /\ UNCHANGED <<guardvars, queue, signalled>>

WinWait(t) ==
  /\ AtLock(t)
  /\ \E op \in Mine(t) :
       /\ ~MayRun(op)
       /\ want' = [want EXCEPT ![t] = op]
       /\ queue' = [queue EXCEPT ![op] = Added(@, t)]
  /\ WinGoto(t, "wait")
  /\ UNCHANGED <<guardvars, winrun, signalled>>

(* There is no memory for the array, or for the event, after the array was  *)
(* enlarged: the thread polls.                                              *)
CannotWait(t) ==
  /\ AtLock(t)
  /\ \E op \in Mine(t) :
       /\ ~MayRun(op)
       /\ want' = [want EXCEPT ![t] = op]
       /\ queue' \in {queue, [queue EXCEPT ![op] = Room(@)]}
  /\ WinGoto(t, "poll")
  /\ UNCHANGED <<guardvars, winrun, signalled>>

Poll(t) ==
  /\ winpc[t] = "poll" /\ MayRun(want[t])
  /\ winrun' = Entered(want[t])
  /\ WinGoto(t, "hold")
  /\ UNCHANGED <<guardvars, queue, signalled, want>>

(* The thread that set the event has counted this one already.              *)
Awake(t) ==
  /\ winpc[t] = "wait" /\ t \in signalled
  /\ signalled' = signalled \ {t}
  /\ WinGoto(t, IF (IF want[t] = "rd" THEN winrun > 0 ELSE winrun = -1)
                THEN "hold" ELSE "abort")
  /\ UNCHANGED <<guardvars, winrun, queue, want>>

----------------------------------------------------------------------------
(* glthread_rwlock_unlock_func.                                             *)
Left == IF winrun < 0 THEN 0 ELSE winrun - 1

Counted == queue["rd"].count

WinUnlock(t) ==
  /\ winpc[t] = "hold"
  /\ \/ /\ Left # 0
        /\ winrun' = Left /\ UNCHANGED <<queue, signalled>>
     \/ /\ Left = 0 /\ queue["wr"].count > 0
        /\ winrun' = -1
        /\ signalled' = signalled \cup {queue["wr"].array[queue["wr"].offset]}
        /\ queue' = [queue EXCEPT !["wr"] = Dequeued(@)]
     \/ /\ Left = 0 /\ queue["wr"].count = 0
        /\ winrun' = Counted
        /\ signalled' = signalled \cup Events(queue["rd"])
        /\ queue' = [queue EXCEPT !["rd"] = Emptied(@)]
  /\ want' = [want EXCEPT ![t] = NoEvent]
  /\ WinGoto(t, "idle")
  /\ UNCHANGED guardvars

WinNext ==
  \/ \E r \in winprogram : FirstUse(r[1], r[2])
  \/ \E t \in WinThreads :
       \/ Increment(t) \/ InitLock(t) \/ Spin(t) \/ WinLock(t) \/ WinWait(t)
       \/ CannotWait(t) \/ Poll(t) \/ Awake(t) \/ WinUnlock(t)

WinSpec == WinInit /\ [][WinNext]_winvars

----------------------------------------------------------------------------
(* Properties.                                                              *)

Asleep(op) == { t \in WinThreads : winpc[t] = "wait" /\ want[t] = op /\ t \notin signalled }
Holding(op) == { t \in WinThreads : winpc[t] = "hold" /\ want[t] = op }
HandedTo(op) == { t \in signalled : want[t] = op }

(* However often the circular arrays have wrapped around and grown, the     *)
(* queues hold the threads that sleep, each of them once, and the lock is   *)
(* handed over to threads that are in them: the count is that of the        *)
(* threads that hold it or will when they wake up, and nobody sleeps while  *)
(* the lock is free.                                                        *)
HandOver ==
  /\ \A op \in {"rd", "wr"} :
       Events(queue[op]) = Asleep(op) /\ queue[op].count = Cardinality(Asleep(op))
  /\ winrun = Cardinality(Holding("rd") \cup HandedTo("rd"))
                  - Cardinality(Holding("wr") \cup HandedTo("wr"))
  /\ Asleep("rd") # {} => winrun = -1
  /\ Asleep("wr") # {} => winrun # 0
  /\ \A t \in WinThreads : winpc[t] # "abort"

OneOf(S) == IF S = {} THEN NoEvent ELSE CHOOSE t \in S : TRUE
WinWriter == OneOf(Holding("wr"))

WinAbstract == INSTANCE RwLock
                 WITH Threads <- WinThreads, Null <- NoEvent,
                      readers <- Holding("rd"), writer <- WinWriter

(* A lock that is handed over without ever being free is still a read-write *)
(* lock, from its lazy initialization on.                                   *)
WinImplementsRwLock == WinAbstract!Spec
=============================================================================
