------------------------------- MODULE GlOnce -------------------------------
(***************************************************************************)
(* gl_once_t (lock.c): the first of the threads that come to a once object *)
(* calls an initialization function, the others wait until it has          *)
(* returned.  There are two implementations, one for Win32 and one for the *)
(* old Solaris threads; elsewhere it is pthread_once or pth_once.          *)
(***************************************************************************)
EXTENDS Integers, FiniteSets

CONSTANTS
  OnceThreads,
  OnceFlavors,  \* a subset of {"win32", "solaris"}
  NoHolder

ASSUME OnceAssumption ==
  /\ OnceFlavors \subseteq {"win32", "solaris"}
  /\ IsFiniteSet(OnceThreads) /\ NoHolder \notin OnceThreads

VARIABLES
  flavor,
  inited,    \* once_control->inited
  started,   \* once_control->started, of Win32
  oncelock,  \* the thread that holds once_control->lock or ->mutex
  oncepc,    \* the point each thread is at
  calls,     \* how often initfunction was called
  finished   \* and whether it has returned

oncevars == <<flavor, inited, started, oncelock, oncepc, calls, finished>>
initfunction == <<calls, finished>>

OnceInit ==
  /\ flavor \in OnceFlavors
  /\ inited = IF flavor = "win32" THEN -1 ELSE 0
  /\ started = -1 /\ oncelock = NoHolder
  /\ oncepc = [t \in OnceThreads |-> "idle"]
  /\ calls = 0 /\ finished = FALSE

OnceAt(t, p) == oncepc[t] = p
OnceGoto(t, p) == oncepc' = [oncepc EXCEPT ![t] = p]

(* gl_once reads inited, without a lock.                                    *)
TestInited(t) ==
  /\ OnceAt(t, "idle")
  /\ IF inited > 0 THEN OnceGoto(t, "returned")
     ELSE OnceGoto(t, IF flavor = "win32" THEN "increment" ELSE "lock")
  /\ UNCHANGED <<flavor, inited, started, oncelock, initfunction>>

OnceReturn(t) ==
  /\ OnceAt(t, "returned")
  /\ OnceGoto(t, "idle")
  /\ UNCHANGED <<flavor, inited, started, oncelock, initfunction>>

CallInitfunction(t) ==
  /\ OnceAt(t, "call")
  /\ calls' = calls + 1
  /\ OnceGoto(t, "running")
  /\ UNCHANGED <<flavor, inited, started, oncelock, finished>>

(* When initfunction has returned, Win32 says so.                           *)
InitfunctionReturns(t) ==
  /\ OnceAt(t, "running")
  /\ finished' = TRUE
  /\ OnceGoto(t, IF flavor = "win32" THEN "say" ELSE "unlock")
  /\ UNCHANGED <<flavor, inited, started, oncelock, calls>>

OnceUnlock(t) ==
  /\ OnceAt(t, "unlock")
  /\ oncelock' = NoHolder
  /\ OnceGoto(t, "returned")
  /\ UNCHANGED <<flavor, inited, started, initfunction>>

----------------------------------------------------------------------------
(* Win32.                                                                   *)

(* The result of InterlockedIncrement tells who is the first.               *)
InterlockedIncrement(t) ==
  /\ OnceAt(t, "increment")
  /\ started' = started + 1
  /\ OnceGoto(t, IF started' = 0 THEN "enter" ELSE "decrement")
  /\ UNCHANGED <<flavor, inited, oncelock, initfunction>>

EnterFirst(t) ==
  /\ OnceAt(t, "enter")
  /\ oncelock' = t
  /\ OnceGoto(t, "open")
  /\ UNCHANGED <<flavor, inited, started, initfunction>>

(* The critical section exists and is taken: others may wait for it.        *)
OpenLock(t) ==
  /\ OnceAt(t, "open")
  /\ inited' = 0
  /\ OnceGoto(t, "call")
  /\ UNCHANGED <<flavor, started, oncelock, initfunction>>

SayInited(t) ==
  /\ OnceAt(t, "say")
  /\ inited' = 1
  /\ OnceGoto(t, "unlock")
  /\ UNCHANGED <<flavor, started, oncelock, initfunction>>

InterlockedDecrement(t) ==
  /\ OnceAt(t, "decrement")
  /\ started' = started - 1
  /\ OnceGoto(t, "spin")
  /\ UNCHANGED <<flavor, inited, oncelock, initfunction>>

OpenedMutant == TRUE
Opened == inited >= 0

SpinUntilOpen(t) ==
  /\ OnceAt(t, "spin") /\ Opened
  /\ OnceGoto(t, "retest")
  /\ UNCHANGED <<flavor, inited, started, oncelock, initfunction>>

WaitForFirst(t) ==
  /\ flavor = "win32" /\ OnceAt(t, "retest")
  /\ \/ inited > 0
     \/ inited <= 0 /\ oncelock = NoHolder
  /\ OnceGoto(t, "returned")
  /\ UNCHANGED <<flavor, inited, started, oncelock, initfunction>>

----------------------------------------------------------------------------
(* Solaris.                                                                 *)
LockOnce(t) ==
  /\ OnceAt(t, "lock") /\ oncelock = NoHolder
  /\ oncelock' = t
  /\ OnceGoto(t, "retest")
  /\ UNCHANGED <<flavor, inited, started, initfunction>>

RetestInited(t) ==
  /\ flavor = "solaris" /\ OnceAt(t, "retest")
  /\ IF inited = 0
     THEN inited' = 1 /\ OnceGoto(t, "call")
     ELSE UNCHANGED inited /\ OnceGoto(t, "unlock")
  /\ UNCHANGED <<flavor, started, oncelock, initfunction>>

OnceNext ==
  \E t \in OnceThreads :
    \/ TestInited(t) \/ OnceReturn(t) \/ CallInitfunction(t) \/ InitfunctionReturns(t)
    \/ OnceUnlock(t) \/ InterlockedIncrement(t) \/ EnterFirst(t) \/ OpenLock(t)
    \/ SayInited(t) \/ InterlockedDecrement(t) \/ SpinUntilOpen(t) \/ WaitForFirst(t)
    \/ LockOnce(t) \/ RetestInited(t)

OnceSpec == OnceInit /\ [][OnceNext]_oncevars

----------------------------------------------------------------------------
(* Properties.                                                              *)

(* Whoever returns from gl_once finds the initialization finished.  lock.c: *)
(* "Use the mutex to guarantee that if another thread is already calling    *)
(* the initfunction, this thread waits until it's finished."  The code for  *)
(* Solaris sets inited too early for that.                                  *)
InitFinished == \A t \in OnceThreads : OnceAt(t, "returned") => finished

(* The initialization function is called once, however many threads come at *)
(* the same time; and on Win32, none of them goes on before it has          *)
(* returned.                                                                *)
OnceSound == calls <= 1 /\ (flavor = "win32" => InitFinished)
=============================================================================
