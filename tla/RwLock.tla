------------------------------- MODULE RwLock -------------------------------
(***************************************************************************)
(* What a gl_rwlock_t (gettext-runtime/intl/lock.h) promises the code that *)
(* uses it: several readers or one writer.  glthread_rwlock_* is a wrapper *)
(* of pthread_rwlock_* where that exists; lock.c also implements it with a *)
(* mutex and two condition variables, and GlRwLock shows that              *)
(* implementation to be one of this specification.                         *)
(*                                                                         *)
(* The operations are state-changing steps of the threads that use the     *)
(* lock: a thread that must wait is one whose step is not enabled.         *)
(***************************************************************************)
CONSTANTS Threads, Null

VARIABLES readers,  \* the threads that hold the lock for reading
          writer    \* the thread that holds it for writing, or Null

TypeOK == /\ readers \subseteq Threads
          /\ writer \in Threads \cup {Null}

Init == /\ readers = {}
        /\ writer = Null

RdLock(t) == /\ writer = Null
             /\ t \notin readers
             /\ readers' = readers \cup {t}
             /\ UNCHANGED writer

WrLock(t) == /\ writer = Null
             /\ readers = {}
             /\ writer' = t
             /\ UNCHANGED readers

Unlock(t) == \/ /\ t \in readers
                /\ readers' = readers \ {t}
                /\ UNCHANGED writer
             \/ /\ writer = t
                /\ writer' = Null
                /\ UNCHANGED readers

Next == \E t \in Threads : RdLock(t) \/ WrLock(t) \/ Unlock(t)

Spec == Init /\ [][Next]_<<readers, writer>>

=============================================================================
