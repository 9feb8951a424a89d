----------------------------- MODULE LockProofs -----------------------------
(***************************************************************************)
(* The locks of lock.c, proved for any finite set of threads: the          *)
(* read-write lock made of a mutex and two condition variables, the one for *)
(* Win32 with its wait queues, and once objects.                           *)
(***************************************************************************)
EXTENDS GlRwLock, WinRwLock, GlOnce, FiniteSets, FiniteSetTheorems, TLAPS

(***************************************************************************)
(* The read-write lock with condition variables: its counts are those of the *)
(* threads, no wake-up is lost, and every step of it is one of RwLock or   *)
(* changes nothing that RwLock sees.                                       *)
(***************************************************************************)

Waiting == RwAt("wrsleep") \cup RwAt("wrwoken")

-----------------------------------------------------------------------------
(* Sets of threads.                                                        *)

LEMMA Number ==
  ASSUME NEW S \in SUBSET RwThreads
  PROVE  /\ Cardinality(S) \in Nat
         /\ Cardinality(S) = 0 <=> S = {}
<1>1. IsFiniteSet(S)
  BY ThreadsAssumption, FS_Subset
<1> QED  BY <1>1, FS_CardinalityType, FS_EmptySet

\* The number of threads in a set grows and shrinks by one with each of them.
LEMMA Counting ==
  ASSUME NEW S \in SUBSET RwThreads, NEW t \in RwThreads
  PROVE  /\ t \notin S => Cardinality(S \cup {t}) = Cardinality(S) + 1
         /\ t \in S => Cardinality(S \ {t}) = Cardinality(S) - 1
<1>1. IsFiniteSet(S)
  BY ThreadsAssumption, FS_Subset
<1> QED  BY <1>1, FS_AddElement, FS_RemoveElement

\* A step that moves one thread to a label.
LEMMA Move ==
  ASSUME rwpc \in [RwThreads -> RwLabels],
         NEW t \in RwThreads, NEW l \in RwLabels,
         rwpc' = [rwpc EXCEPT ![t] = l]
  PROVE  /\ rwpc' \in [RwThreads -> RwLabels]
         /\ \A k \in RwLabels :
              RwAt(k)' = IF k = l THEN RwAt(k) \cup {t} ELSE RwAt(k) \ {t}
<1>1. rwpc' \in [RwThreads -> RwLabels]
  OBVIOUS
<1>2. ASSUME NEW k \in RwLabels
      PROVE  RwAt(k)' = IF k = l THEN RwAt(k) \cup {t} ELSE RwAt(k) \ {t}
  <2>1. \A u \in RwThreads : u \in RwAt(k)' <=> IF u = t THEN k = l ELSE u \in RwAt(k)
    BY DEF RwAt
  <2>2. RwAt(k) \subseteq RwThreads /\ RwAt(k)' \subseteq RwThreads
    BY DEF RwAt
  <2> QED  BY <2>1, <2>2
<1> QED  BY <1>1, <1>2

-----------------------------------------------------------------------------
(* The steps, told by the sets of threads at the labels.                   *)

\* Each thread is at one place.
LEMMA Places ==
  ASSUME NEW k \in RwLabels, NEW l \in RwLabels
  PROVE  /\ RwAt(k) \subseteq RwThreads
         /\ k # l => RwAt(k) \cap RwAt(l) = {}
BY DEF RwAt

\* An unlock makes its thread idle; it may wake a writer or the readers.
LEMMA UnlockMoves ==
  ASSUME Counts, NEW t \in RwThreads, Unlock(t)
  PROVE  /\ rwpc' \in [RwThreads -> RwLabels]
         /\ RwAt("reading")' = RwAt("reading") \ {t}
         /\ RwAt("writing")' = RwAt("writing") \ {t}
         /\ Waiting' = Waiting
         /\ RwAt("rdsleep")' \subseteq RwAt("rdsleep")
         /\ runcount' = 0 /\ waitingWritersCount = 0 => RwAt("rdsleep")' = {}
         /\ runcount' = 0 /\ waitingWritersCount > 0 /\ RwAt("wrsleep")' # {}
              => RwAt("wrwoken")' # {}
         /\ runcount' # 0 => /\ RwAt("wrsleep")' = RwAt("wrsleep")
                             /\ RwAt("rdsleep")' = RwAt("rdsleep")
<1> DEFINE idle == [rwpc EXCEPT ![t] = "idle"]
<1>0. /\ rwpc \in [RwThreads -> RwLabels]
      /\ t \in RwAt("reading") \cup RwAt("writing")
      /\ waitingWritersCount = Cardinality(Waiting)
  BY DEF Counts, Unlock, RwAt, Waiting
<1>1. CASE rwpc' = idle
  <2>1. /\ rwpc' \in [RwThreads -> RwLabels]
        /\ \A k \in RwLabels : RwAt(k)' = IF k = "idle" THEN RwAt(k) \cup {t} ELSE RwAt(k) \ {t}
    BY <1>0, <1>1, Move DEF RwLabels
  <2>2. /\ RwAt("reading")' = RwAt("reading") \ {t} /\ RwAt("writing")' = RwAt("writing") \ {t}
        /\ \A k \in {"wrsleep", "wrwoken", "rdsleep"} : RwAt(k)' = RwAt(k)
    BY <1>0, <2>1 DEF RwLabels, RwAt
  <2>3. runcount' = 0 => \/ waitingWritersCount > 0 /\ RwAt("wrsleep") = {}
                         \/ waitingWritersCount = 0 /\ RwAt("rdsleep")' = {}
    <3>1. ASSUME waitingWritersCount > 0, Signal(idle), RwAt("wrsleep") # {}
          PROVE  FALSE
      <4>1. PICK w \in RwAt("wrsleep") : rwpc' = [idle EXCEPT ![w] = "wrwoken"]
        BY <3>1 DEF Signal
      <4>2. rwpc'[w] = "wrwoken" /\ rwpc'[w] = "wrsleep"
        BY <4>1, <1>0, <1>1 DEF RwAt
      <4> QED  BY <4>2
    <3>2. ASSUME Broadcast(idle)  PROVE RwAt("rdsleep")' = {}
      BY <3>2, <1>0 DEF Broadcast, RwAt
    <3> QED  BY <3>1, <3>2 DEF Unlock
  <2> QED  BY <2>1, <2>2, <2>3 DEF Waiting
<1>2. CASE /\ runcount' = 0 /\ waitingWritersCount > 0
           /\ \E w \in RwAt("wrsleep") : rwpc' = [idle EXCEPT ![w] = "wrwoken"]
  <2>1. PICK w \in RwAt("wrsleep") : rwpc' = [idle EXCEPT ![w] = "wrwoken"]
    BY <1>2
  <2>2. w \in RwThreads /\ w # t
    BY <1>0 DEF RwAt
  <2>3. rwpc' = [u \in RwThreads |-> IF u = w THEN "wrwoken"
                                 ELSE IF u = t THEN "idle" ELSE rwpc[u]]
    BY <1>0, <2>1, <2>2
  <2>4. rwpc' \in [RwThreads -> RwLabels]
    BY <1>0, <2>3 DEF RwLabels
  <2>5. /\ RwAt("reading")' = RwAt("reading") \ {t} /\ RwAt("writing")' = RwAt("writing") \ {t}
        /\ RwAt("rdsleep")' = RwAt("rdsleep")
    BY <1>0, <2>1, <2>2, <2>3 DEF RwAt
  <2>6. RwAt("wrwoken")' = RwAt("wrwoken") \cup {w} /\ RwAt("wrsleep")' = RwAt("wrsleep") \ {w}
    BY <1>0, <2>1, <2>2, <2>3 DEF RwAt
  <2> QED  BY <1>2, <2>1, <2>4, <2>5, <2>6 DEF Waiting
<1>3. CASE /\ runcount' = 0 /\ waitingWritersCount = 0
           /\ Broadcast(idle)
  <2>1. rwpc' = [u \in RwThreads |-> IF u = t THEN "idle"
                                 ELSE IF rwpc[u] = "rdsleep" THEN "rdwoken" ELSE rwpc[u]]
    BY <1>0, <1>3 DEF Broadcast, RwAt
  <2>2. rwpc' \in [RwThreads -> RwLabels]
    BY <1>0, <2>1 DEF RwLabels
  <2>3. /\ RwAt("reading")' = RwAt("reading") \ {t} /\ RwAt("writing")' = RwAt("writing") \ {t}
        /\ RwAt("wrsleep")' = RwAt("wrsleep") /\ RwAt("wrwoken")' = RwAt("wrwoken")
        /\ RwAt("rdsleep")' = {}
    BY <1>0, <2>1 DEF RwAt
  <2> QED  BY <1>3, <2>2, <2>3 DEF Waiting
<1> QED  BY <1>1, <1>2, <1>3 DEF Unlock, Signal


-----------------------------------------------------------------------------
(* The counts.                                                             *)

LEMMA CountsInit == RwInit => Counts
<1> SUFFICES ASSUME RwInit PROVE Counts
  OBVIOUS
<1>1. \A k \in RwLabels : k # "idle" => RwAt(k) = {}
  BY DEF RwInit, RwAt
<1>2. RwAt("reading") = {} /\ RwAt("writing") = {} /\ RwAt("wrsleep") \cup RwAt("wrwoken") = {}
  BY <1>1 DEF RwLabels
<1>3. rwpc \in [RwThreads -> RwLabels]
  BY DEF RwInit, RwLabels
<1> QED  BY <1>2, <1>3, FS_EmptySet DEF RwInit, Counts

\* A step that touches neither the counts nor the threads they count.
LEMMA CountsKept ==
  ASSUME Counts, NEW t \in RwThreads, NEW l \in RwLabels,
         rwpc' = [rwpc EXCEPT ![t] = l],
         UNCHANGED <<runcount, waitingWritersCount>>,
         t \notin RwAt("reading") \cup RwAt("writing"), l \notin {"reading", "writing"},
         rwpc[t] \in {"wrsleep", "wrwoken"} <=> l \in {"wrsleep", "wrwoken"}
  PROVE  Counts'
<1>1. /\ rwpc' \in [RwThreads -> RwLabels]
      /\ \A k \in RwLabels : RwAt(k)' = IF k = l THEN RwAt(k) \cup {t} ELSE RwAt(k) \ {t}
  BY Move DEF Counts
<1>2. RwAt("reading")' = RwAt("reading") /\ RwAt("writing")' = RwAt("writing")
  BY <1>1 DEF RwLabels
<1>3. (RwAt("wrsleep") \cup RwAt("wrwoken"))' = RwAt("wrsleep") \cup RwAt("wrwoken")
  BY <1>1 DEF RwLabels, RwAt
<1> QED  BY <1>1, <1>2, <1>3 DEF Counts

LEMMA CountsRdLock ==
  ASSUME Counts, NEW t \in RwThreads, RdLock(t)
  PROVE  Counts'
<1>1. CASE MayRead
  <2>1. /\ rwpc' \in [RwThreads -> RwLabels]
        /\ \A k \in RwLabels : RwAt(k)' = IF k = "reading" THEN RwAt(k) \cup {t} ELSE RwAt(k) \ {t}
    BY <1>1, Move DEF RdLock, Counts, RwLabels
  <2>2. /\ RwAt("reading")' = RwAt("reading") \cup {t} /\ t \notin RwAt("reading")
        /\ \A k \in {"writing", "wrsleep", "wrwoken"} : RwAt(k)' = RwAt(k)
    BY <2>1 DEF RwLabels, RwAt, RdLock
  <2>3. runcount = Cardinality(RwAt("reading")) /\ RwAt("writing") = {}
    BY <1>1 DEF Counts, MayRead
  <2>4. Cardinality(RwAt("reading")') = Cardinality(RwAt("reading")) + 1
    BY <2>2, Number, Counting, Places DEF RwLabels
  <2> QED  BY <1>1, <2>1, <2>2, <2>3, <2>4 DEF Counts, RdLock
<1>2. CASE ~ MayRead
  BY <1>2, CountsKept DEF RdLock, RwAt, RwLabels
<1> QED  BY <1>1, <1>2

LEMMA CountsWrLock ==
  ASSUME Counts, NEW t \in RwThreads, WrLock(t)
  PROVE  Counts'
<1>0. /\ rwpc \in [RwThreads -> RwLabels] /\ rwpc[t] \in {"wrlock", "wrwoken"}
      /\ Waiting \in SUBSET RwThreads /\ waitingWritersCount = Cardinality(Waiting)
      /\ t \in Waiting <=> rwpc[t] = "wrwoken"
  BY DEF Counts, WrLock, Waiting, RwAt
<1>1. StillWaiting(t) = Cardinality(Waiting \ {t}) /\ Waiting \ {t} \in SUBSET RwThreads
  <2>1. t \notin Waiting => Waiting \ {t} = Waiting
    OBVIOUS
  <2> QED  BY <1>0, <2>1, Number, Counting DEF StillWaiting
<1>2. CASE MayWrite
  <2>1. /\ rwpc' \in [RwThreads -> RwLabels]
        /\ \A k \in RwLabels : RwAt(k)' = IF k = "writing" THEN RwAt(k) \cup {t} ELSE RwAt(k) \ {t}
    BY <1>0, <1>2, Move DEF WrLock, MayWrite, RwLabels
  <2>2. /\ RwAt("reading")' = RwAt("reading") /\ RwAt("writing")' = RwAt("writing") \cup {t}
        /\ (RwAt("wrsleep") \cup RwAt("wrwoken"))' = Waiting \ {t}
    BY <1>0, <2>1 DEF RwLabels, RwAt, Waiting
  <2>3. RwAt("reading") = {} /\ RwAt("writing") = {}
    <3>1. Cardinality(RwAt("reading")) = 0 /\ RwAt("writing") = {}
      BY <1>2 DEF Counts, MayWrite
    <3> QED  BY <3>1, Number, Places DEF RwLabels
  <2>4. runcount' = -1 /\ waitingWritersCount' = StillWaiting(t)
    BY <1>2 DEF WrLock, MayWrite
  <2> QED  BY <1>1, <2>1, <2>2, <2>3, <2>4 DEF Counts
<1>3. CASE ~ MayWrite
  <2>1. /\ rwpc' \in [RwThreads -> RwLabels]
        /\ \A k \in RwLabels : RwAt(k)' = IF k = "wrsleep" THEN RwAt(k) \cup {t} ELSE RwAt(k) \ {t}
    BY <1>0, <1>3, Move DEF WrLock, RwLabels
  <2>2. /\ RwAt("reading")' = RwAt("reading") /\ RwAt("writing")' = RwAt("writing")
        /\ (RwAt("wrsleep") \cup RwAt("wrwoken"))' = (Waiting \ {t}) \cup {t}
    BY <1>0, <2>1 DEF RwLabels, RwAt, Waiting
  <2>3. Cardinality((Waiting \ {t}) \cup {t}) = Cardinality(Waiting \ {t}) + 1
    BY <1>1, Counting
  <2>4. runcount' = runcount /\ waitingWritersCount' = StillWaiting(t) + 1
    BY <1>3 DEF WrLock
  <2> QED  BY <1>1, <2>1, <2>2, <2>3, <2>4 DEF Counts
<1> QED  BY <1>2, <1>3

LEMMA CountsUnlock ==
  ASSUME Counts, NEW t \in RwThreads, Unlock(t)
  PROVE  Counts'
<1>1. /\ rwpc' \in [RwThreads -> RwLabels]
      /\ RwAt("reading")' = RwAt("reading") \ {t}
      /\ RwAt("writing")' = RwAt("writing") \ {t}
      /\ Waiting' = Waiting
  BY UnlockMoves
<1>2. waitingWritersCount' = Cardinality((RwAt("wrsleep") \cup RwAt("wrwoken"))')
  BY <1>1 DEF Counts, Waiting, Unlock
<1>3. CASE rwpc[t] = "reading"
  <2>1. t \in RwAt("reading") /\ runcount = Cardinality(RwAt("reading")) /\ RwAt("writing") = {}
    BY <1>3 DEF RwAt, Counts
  <2>2. RwAt("reading") \in SUBSET RwThreads
    BY Places DEF RwLabels
  <2>3. runcount \in Nat /\ Cardinality(RwAt("reading")') = runcount - 1
    BY <1>1, <2>1, <2>2, Number, Counting
  <2> QED  BY <1>1, <1>2, <2>1, <2>3 DEF Counts, Unlock
<1>4. CASE rwpc[t] = "writing"
  <2>1. t \in RwAt("writing") /\ runcount = -1 /\ RwAt("reading") = {} /\ RwAt("writing") = {t}
    BY <1>4 DEF RwAt, Counts
  <2> QED  BY <1>1, <1>2, <2>1, FS_EmptySet DEF Counts, Unlock
<1> QED  BY <1>3, <1>4 DEF Unlock

LEMMA CountsStep == Counts /\ [RwNext]_rwvars => Counts'
<1> SUFFICES ASSUME Counts, [RwNext]_rwvars PROVE Counts'
  OBVIOUS
<1>1. ASSUME NEW t \in RwThreads, Request(t)  PROVE Counts'
  <2>1. PICK l \in {"rdlock", "wrlock"} : rwpc' = [rwpc EXCEPT ![t] = l]
    BY <1>1 DEF Request
  <2> QED  BY <1>1, <2>1, CountsKept DEF Request, RwAt, RwLabels
<1>2. ASSUME NEW t \in RwThreads, Wake(t)  PROVE Counts'
  BY <1>2, CountsKept DEF Wake, RwAt, RwLabels
<1>3. CASE UNCHANGED rwvars
  BY <1>3 DEF rwvars, Counts, RwAt
<1> QED  BY <1>1, <1>2, <1>3, CountsRdLock, CountsWrLock, CountsUnlock DEF RwNext

(* Whatever the threads do, runcount and waitingWritersCount are their     *)
(* numbers, and a thread that holds the lock for writing holds it alone.   *)
THEOREM CountsHold == RwSpec => []Counts
BY CountsInit, CountsStep, PTL DEF RwSpec

-----------------------------------------------------------------------------
(* The wake-ups.                                                           *)

LEMMA WakeupStep == Counts /\ NoLostWakeup /\ [RwNext]_rwvars => NoLostWakeup'
<1> SUFFICES ASSUME Counts, NoLostWakeup, [RwNext]_rwvars PROVE NoLostWakeup'
  OBVIOUS
<1>0. /\ rwpc \in [RwThreads -> RwLabels]
      /\ waitingWritersCount = Cardinality(Waiting) /\ waitingWritersCount \in Nat
  <2>1. Waiting \in SUBSET RwThreads
    BY DEF Waiting, RwAt
  <2> QED  BY <2>1, Number DEF Counts, Waiting
<1>1. ASSUME NEW t \in RwThreads, Request(t)  PROVE NoLostWakeup'
  <2>1. \A k \in {"rdsleep", "wrsleep", "wrwoken"} : RwAt(k)' = RwAt(k)
    BY <1>0, <1>1 DEF Request, RwAt
  <2> QED  BY <1>1, <2>1 DEF NoLostWakeup, Request
<1>2. ASSUME NEW t \in RwThreads, RdLock(t)  PROVE NoLostWakeup'
  <2>1. \A k \in {"wrsleep", "wrwoken"} : RwAt(k)' = RwAt(k)
    BY <1>0, <1>2 DEF RdLock, RwAt
  <2>2. CASE MayRead
    <3>1. RwAt("rdsleep")' \subseteq RwAt("rdsleep")
      BY <1>0, <1>2, <2>2 DEF RdLock, RwAt
    <3>2. runcount' = runcount + 1 /\ runcount \in Nat
      <4>1. Cardinality(RwAt("reading")) \in Nat
        BY Number, Places DEF RwLabels
      <4> QED  BY <1>2, <2>2, <4>1 DEF RdLock, MayRead, Counts
    <3>3. RwAt("rdsleep") = {}
      BY <2>2, <3>2 DEF NoLostWakeup, MayRead
    <3> QED  BY <1>2, <3>1, <3>2, <3>3 DEF NoLostWakeup, RdLock
  <2>3. CASE ~ MayRead
    <3>1. runcount \in Int /\ runcount >= -1
      <4>1. Cardinality(RwAt("reading")) \in Nat
        BY Number, Places DEF RwLabels
      <4> QED  BY <4>1 DEF Counts
    <3>2. runcount = -1 \/ waitingWritersCount > 0
      BY <1>0, <2>3, <3>1 DEF MayRead
    <3> QED  BY <1>2, <2>1, <2>3, <3>2 DEF NoLostWakeup, RdLock
  <2> QED  BY <2>2, <2>3
<1>3. ASSUME NEW t \in RwThreads, WrLock(t)  PROVE NoLostWakeup'
  <2>1. CASE MayWrite
    BY <1>3, <2>1 DEF WrLock, NoLostWakeup, MayWrite
  <2>2. CASE ~ MayWrite
    <3>1. StillWaiting(t) >= 0 /\ StillWaiting(t) \in Int
      <4>1. CASE rwpc[t] = "wrwoken"
        <5>1. Waiting \in SUBSET RwThreads /\ t \in Waiting
          BY <4>1 DEF Waiting, RwAt
        <5>2. Cardinality(Waiting) # 0
          BY <5>1, Number
        <5> QED  BY <1>0, <4>1, <5>2 DEF StillWaiting
      <4>2. CASE rwpc[t] # "wrwoken"
        BY <1>0, <4>2 DEF StillWaiting
      <4> QED  BY <4>1, <4>2
    <3>2. runcount' # 0 /\ waitingWritersCount' > 0
      BY <1>3, <2>2, <3>1 DEF WrLock, MayWrite
    <3> QED  BY <3>2 DEF NoLostWakeup
  <2> QED  BY <2>1, <2>2
<1>4. ASSUME NEW t \in RwThreads, Unlock(t)  PROVE NoLostWakeup'
  <2>1. /\ Waiting' = Waiting
        /\ RwAt("rdsleep")' \subseteq RwAt("rdsleep")
        /\ runcount' = 0 /\ waitingWritersCount = 0 => RwAt("rdsleep")' = {}
        /\ runcount' = 0 /\ waitingWritersCount > 0 /\ RwAt("wrsleep")' # {}
              => RwAt("wrwoken")' # {}
    BY <1>4, UnlockMoves
  <2>2. waitingWritersCount' = waitingWritersCount
    BY <1>4 DEF Unlock
  <2>3. runcount' = 0 /\ RwAt("wrsleep")' # {} => RwAt("wrwoken")' # {}
    <3>1. RwAt("wrsleep")' # {} => Waiting # {}
      BY <2>1 DEF Waiting
    <3>2. Waiting # {} => waitingWritersCount > 0
      <4>1. Waiting \in SUBSET RwThreads
        BY DEF Waiting, RwAt
      <4> QED  BY <1>0, <4>1, Number
    <3> QED  BY <2>1, <3>1, <3>2
  <2>4. CASE runcount' = 0
    BY <1>0, <2>1, <2>2, <2>3, <2>4 DEF NoLostWakeup
  <2>5. CASE runcount' # 0
    <3>1. runcount \in Nat
      <4>1. Cardinality(RwAt("reading")) \in Nat
        BY Number, Places DEF RwLabels
      <4> QED  BY <1>4, <2>5, <4>1 DEF Unlock, Counts
    <3> QED  BY <2>1, <2>2, <2>5, <3>1 DEF NoLostWakeup
  <2> QED  BY <2>4, <2>5
<1>5. ASSUME NEW t \in RwThreads, Wake(t)  PROVE NoLostWakeup'
  <2>1. /\ RwAt("rdsleep")' \subseteq RwAt("rdsleep")
        /\ \/ RwAt("wrwoken")' # {}
           \/ RwAt("wrsleep")' = RwAt("wrsleep") /\ RwAt("wrwoken")' = RwAt("wrwoken")
    BY <1>0, <1>5 DEF Wake, RwAt
  <2> QED  BY <1>5, <2>1 DEF NoLostWakeup, Wake
<1>6. CASE UNCHANGED rwvars
  BY <1>6 DEF rwvars, NoLostWakeup, RwAt
<1> QED  BY <1>1, <1>2, <1>3, <1>4, <1>5, <1>6 DEF RwNext

(* A thread sleeps only as long as another one will wake it.               *)
THEOREM WakeupsNotLost == RwSpec => []NoLostWakeup
<1>1. RwInit => NoLostWakeup
  BY DEF RwInit, NoLostWakeup, RwAt
<1> QED  BY <1>1, CountsInit, CountsStep, WakeupStep, PTL DEF RwSpec

-----------------------------------------------------------------------------
(* The refinement.                                                         *)

LEMMA Holders ==
  /\ Holder({}) = NoThread
  /\ \A t \in RwThreads : Holder({t}) = t
BY DEF Holder

Readers == RwAt("reading")
Writer == Holder(RwAt("writing"))

LEMMA RefinesStep == Counts /\ [RwNext]_rwvars => [Abstract!Next]_<<Readers, Writer>>
<1> SUFFICES ASSUME Counts, [RwNext]_rwvars
             PROVE  Abstract!Next \/ UNCHANGED <<Readers, Writer>>
  BY DEF Readers, Writer
<1> USE DEF Readers, Writer
<1>0. rwpc \in [RwThreads -> RwLabels]
  BY DEF Counts
<1>1. ASSUME NEW t \in RwThreads, Request(t)  PROVE UNCHANGED <<Readers, Writer>>
  <2>1. RwAt("reading")' = RwAt("reading") /\ RwAt("writing")' = RwAt("writing")
    BY <1>0, <1>1 DEF Request, RwAt
  <2> QED  BY <2>1
<1>2. ASSUME NEW t \in RwThreads, RdLock(t)
      PROVE  Abstract!RdLock(t) \/ UNCHANGED <<Readers, Writer>>
  <2>1. CASE MayRead
    <3>1. RwAt("reading")' = RwAt("reading") \cup {t} /\ t \notin RwAt("reading")
          /\ RwAt("writing")' = RwAt("writing")
      BY <1>0, <1>2, <2>1 DEF RdLock, RwAt
    <3>2. RwAt("writing") = {}
      BY <2>1 DEF Counts, MayRead
    <3> QED  BY <3>1, <3>2, Holders DEF Abstract!RdLock
  <2>2. CASE ~ MayRead
    <3>1. RwAt("reading")' = RwAt("reading") /\ RwAt("writing")' = RwAt("writing")
      BY <1>0, <1>2, <2>2 DEF RdLock, RwAt
    <3> QED  BY <3>1
  <2> QED  BY <2>1, <2>2
<1>3. ASSUME NEW t \in RwThreads, WrLock(t)
      PROVE  Abstract!WrLock(t) \/ UNCHANGED <<Readers, Writer>>
  <2>1. CASE MayWrite
    <3>1. RwAt("reading")' = RwAt("reading") /\ RwAt("writing")' = RwAt("writing") \cup {t}
      BY <1>0, <1>3, <2>1 DEF WrLock, RwAt
    <3>2. Cardinality(RwAt("reading")) = 0 /\ RwAt("writing") = {}
      BY <2>1 DEF Counts, MayWrite
    <3>3. RwAt("reading") = {}
      BY <3>2, Number, Places DEF RwLabels
    <3>4. Writer = NoThread /\ Writer' = t
      BY <3>1, <3>2, Holders
    <3> QED  BY <3>1, <3>2, <3>3, <3>4 DEF Abstract!WrLock
  <2>2. CASE ~ MayWrite
    <3>1. RwAt("reading")' = RwAt("reading") /\ RwAt("writing")' = RwAt("writing")
      BY <1>0, <1>3, <2>2 DEF WrLock, RwAt
    <3> QED  BY <3>1
  <2> QED  BY <2>1, <2>2
<1>4. ASSUME NEW t \in RwThreads, Unlock(t)  PROVE Abstract!Unlock(t)
  <2>1. RwAt("reading")' = RwAt("reading") \ {t} /\ RwAt("writing")' = RwAt("writing") \ {t}
    BY <1>4, UnlockMoves
  <2>2. CASE rwpc[t] = "reading"
    <3>1. t \in RwAt("reading") /\ RwAt("writing") = {}
      BY <2>2 DEF RwAt, Counts
    <3> QED  BY <2>1, <3>1, Holders DEF Abstract!Unlock
  <2>3. CASE rwpc[t] = "writing"
    <3>1. RwAt("reading") = {} /\ RwAt("writing") = {t}
      BY <2>3 DEF RwAt, Counts
    <3>2. Writer = t /\ Writer' = NoThread
      BY <2>1, <3>1, Holders
    <3> QED  BY <2>1, <3>1, <3>2 DEF Abstract!Unlock
  <2> QED  BY <1>4, <2>2, <2>3 DEF Unlock
<1>5. ASSUME NEW t \in RwThreads, Wake(t)  PROVE UNCHANGED <<Readers, Writer>>
  <2>1. RwAt("reading")' = RwAt("reading") /\ RwAt("writing")' = RwAt("writing")
    BY <1>0, <1>5 DEF Wake, RwAt
  <2> QED  BY <2>1
<1>6. CASE UNCHANGED rwvars
  BY <1>6 DEF rwvars, RwAt
<1> QED  BY <1>1, <1>2, <1>3, <1>4, <1>5, <1>6 DEF RwNext, Abstract!Next

(* The lock of lock.c is a read-write lock: a step of it is one of RwLock, *)
(* or changes neither who reads nor who writes.                            *)
THEOREM IsRwLock == RwSpec => ImplementsRwLock
<1>1. RwInit => Abstract!Init
  BY Holders DEF RwInit, RwAt, Abstract!Init
<1> QED  BY <1>1, RefinesStep, CountsHold, CountsInit, CountsStep, PTL
         DEF RwSpec, ImplementsRwLock, Abstract!Spec, Readers, Writer

(***************************************************************************)
(* The read-write lock for Win32: whatever the threads do, its wait queues *)
(* hold those that sleep, the lock is handed over soundly, and it          *)
(* implements RwLock.                                                      *)
(***************************************************************************)

(* Queues.                                                                 *)

Arrays == UNION { [0..(n - 1) -> WinThreads \cup {NoEvent}] : n \in Nat }

(* The entries that are in use are 0 .. count - 1, counted from offset and  *)
(* around the end of the array.                                             *)
QueueOK(wq) ==
  /\ wq \in [array : Arrays, count : Nat, alloc : Nat, offset : Nat]
  /\ wq.array \in [0..(wq.alloc - 1) -> WinThreads \cup {NoEvent}]
  /\ wq.count <= wq.alloc
  /\ wq.offset < wq.alloc \/ wq.offset = 0

Index(wq, i) == (wq.offset + i) % wq.alloc
Slot(wq, i) == wq.array[Index(wq, i)]

Distinct(wq) ==
  \A i, j \in 0..(wq.count - 1) : Slot(wq, i) = Slot(wq, j) => i = j

(* An index that has wrapped around at most once.                           *)
LEMMA Wrapped ==
  ASSUME NEW q, QueueOK(q), q.alloc > 0, NEW i \in 0..q.alloc
  PROVE  /\ Index(q, i) = IF q.offset + i < q.alloc THEN q.offset + i
                          ELSE q.offset + i - q.alloc
         /\ Index(q, i) \in 0..(q.alloc - 1)
<1>1. ASSUME NEW n \in Nat, NEW o \in Nat, NEW k \in Nat, o < n, k <= n
      PROVE  (o + k) % n = IF o + k < n THEN o + k ELSE o + k - n
  BY <1>1
<1>2. q.alloc \in Nat /\ q.offset \in Nat /\ q.offset < q.alloc /\ i \in Nat /\ i <= q.alloc
  BY DEF QueueOK
<1>3. Index(q, i) = IF q.offset + i < q.alloc THEN q.offset + i ELSE q.offset + i - q.alloc
  BY <1>1, <1>2 DEF Index
<1> QED BY <1>2, <1>3

LEMMA ArrayType ==
  ASSUME NEW n \in Nat, NEW a \in [0..(n - 1) -> WinThreads \cup {NoEvent}]
  PROVE  a \in Arrays
BY DEF Arrays

LEMMA EmptyQueueOK ==
  QueueOK(EmptyQueue) /\ Distinct(EmptyQueue) /\ Events(EmptyQueue) = {}
<1>1. EmptyQueue.array \in [0..(0 - 1) -> WinThreads \cup {NoEvent}]
  <2>1. 0..(0 - 1) = {}
    OBVIOUS
  <2>2. [i \in {} |-> NoEvent] \in [{} -> WinThreads \cup {NoEvent}]
    OBVIOUS
  <2> QED BY <2>1, <2>2 DEF EmptyQueue
<1>2. EmptyQueue.array \in Arrays
  BY <1>1, ArrayType
<1>3. QueueOK(EmptyQueue)
  BY <1>1, <1>2 DEF QueueOK, EmptyQueue
<1>4. 0..(EmptyQueue.count - 1) = {}
  BY DEF EmptyQueue
<1> QED BY <1>3, <1>4 DEF Distinct, Events

(* A queue with the slots of another one has its threads.                   *)
LEMMA SameSlots ==
  ASSUME NEW q, NEW r, r.count = q.count, q.count \in Nat,
         \A i \in 0..(q.count - 1) : Slot(r, i) = Slot(q, i)
  PROVE  /\ Distinct(q) => Distinct(r)
         /\ Events(r) = Events(q)
<1>1. Distinct(q) => Distinct(r)
  BY DEF Distinct
<1>2. Events(r) = Events(q)
  BY DEF Events, Slot, Index
<1> QED BY <1>1, <1>2

LEMMA SlotsAreEvents ==
  ASSUME NEW q, NEW x
  PROVE  x \in Events(q) <=> \E i \in 0..(q.count - 1) : x = Slot(q, i)
BY DEF Events, Slot, Index

(* gl_waitqueue_add makes room without losing an entry.                     *)
LEMMA RoomOK ==
  ASSUME NEW q, QueueOK(q)
  PROVE  /\ QueueOK(Room(q))
         /\ Room(q).count = q.count /\ q.count < Room(q).alloc
         /\ \A i \in 0..(q.count - 1) : Slot(Room(q), i) = Slot(q, i)
<1>1. CASE q.count # q.alloc
  BY <1>1 DEF Room, QueueOK
<1>2. CASE q.count = q.alloc
  <2> DEFINE n == 2 * q.alloc + 1
  <2>1. Room(q) = Enlarged(q)
    BY <1>2 DEF Room
  <2>2. /\ q.alloc \in Nat /\ q.offset \in Nat /\ n \in Nat /\ n - 1 = 2 * q.alloc
        /\ q.array \in [0..(q.alloc - 1) -> WinThreads \cup {NoEvent}]
    BY DEF QueueOK
  <2>3. ASSUME NEW i \in 0..(q.alloc - 1)
        PROVE  /\ Rotated(q)[i] = q.array[Index(q, i)]
               /\ Rotated(q)[i] \in WinThreads \cup {NoEvent}
    <3>1. Index(q, i) \in 0..(q.alloc - 1)
      BY <2>2, Wrapped
    <3> QED BY <2>2, <3>1 DEF Rotated, Index
  <2>4. Enlarged(q).array \in [0..(n - 1) -> WinThreads \cup {NoEvent}]
    BY <2>2, <2>3 DEF Enlarged
  <2>5. Enlarged(q).array \in Arrays
    BY <2>2, <2>4, ArrayType
  <2>6. /\ Enlarged(q).count = q.alloc /\ Enlarged(q).alloc = n /\ Enlarged(q).offset = 0
        /\ QueueOK(Enlarged(q))
    BY <1>2, <2>2, <2>4, <2>5 DEF Enlarged, QueueOK
  <2>7. ASSUME NEW i \in 0..(q.alloc - 1)
        PROVE  Slot(Enlarged(q), i) = Slot(q, i)
    <3>1. i \in 0..Enlarged(q).alloc /\ Enlarged(q).alloc > 0
      BY <2>2, <2>6
    <3>2. Index(Enlarged(q), i) = IF 0 + i < n THEN 0 + i ELSE 0 + i - n
      BY <2>6, <3>1, Wrapped
    <3>3. Index(Enlarged(q), i) = i
      BY <2>2, <3>2
    <3>4. Enlarged(q).array[i] = Rotated(q)[i]
      BY <2>2 DEF Enlarged
    <3> QED BY <2>3, <2>6, <3>3, <3>4 DEF Slot
  <2> QED BY <1>2, <2>1, <2>2, <2>6, <2>7
<1> QED BY <1>1, <1>2

(* The thread comes last.                                                   *)
LEMMA AddedOK ==
  ASSUME NEW q, QueueOK(q), NEW t \in WinThreads
  PROVE  /\ QueueOK(Added(q, t))
         /\ Added(q, t).count = q.count + 1
         /\ Events(Added(q, t)) = Events(q) \cup {t}
         /\ Distinct(q) /\ t \notin Events(q) => Distinct(Added(q, t))
<1> DEFINE r == Room(q)
           a == Added(q, t)
<1>1. /\ QueueOK(r) /\ r.count = q.count /\ q.count < r.alloc
      /\ \A i \in 0..(q.count - 1) : Slot(r, i) = Slot(q, i)
  BY RoomOK
<1>2. /\ r \in [array : Arrays, count : Nat, alloc : Nat, offset : Nat]
      /\ r.array \in [0..(r.alloc - 1) -> WinThreads \cup {NoEvent}]
      /\ r.offset < r.alloc
  BY <1>1 DEF QueueOK
<1>3. ASSUME NEW i \in 0..q.count
      PROVE  Index(r, i) \in 0..(r.alloc - 1)
  BY <1>1, <1>2, Wrapped
<1>4. ASSUME NEW i \in 0..(q.count - 1)
      PROVE  Index(r, i) # Index(r, r.count)
  <2>1. i \in 0..r.alloc /\ r.count \in 0..r.alloc /\ i < r.count
    BY <1>1, <1>2
  <2>2. Index(r, i) = IF r.offset + i < r.alloc THEN r.offset + i ELSE r.offset + i - r.alloc
    BY <1>1, <1>2, <2>1, Wrapped
  <2>3. Index(r, r.count) = IF r.offset + r.count < r.alloc THEN r.offset + r.count
                            ELSE r.offset + r.count - r.alloc
    BY <1>1, <1>2, <2>1, Wrapped
  <2> QED BY <1>1, <1>2, <2>1, <2>2, <2>3
<1>5. a = [r EXCEPT !.array = [r.array EXCEPT ![Index(r, r.count)] = t], !.count = r.count + 1]
  BY DEF Added, Index
<1> HIDE DEF a, r
<1>6. /\ a.array = [r.array EXCEPT ![Index(r, r.count)] = t]
      /\ a.count = r.count + 1 /\ a.alloc = r.alloc /\ a.offset = r.offset
  BY <1>2, <1>5
<1>7. a.array \in [0..(r.alloc - 1) -> WinThreads \cup {NoEvent}]
  BY <1>2, <1>6
<1>8. a \in [array : Arrays, count : Nat, alloc : Nat, offset : Nat]
  <2>1. a.array \in Arrays
    BY <1>2, <1>7, ArrayType
  <2>2. [r.array EXCEPT ![Index(r, r.count)] = t] \in Arrays
    BY <2>1, <1>6
  <2>3. r.count + 1 \in Nat
    BY <1>2
  <2> QED BY <1>2, <1>5, <2>2, <2>3
<1>9. QueueOK(a)
  BY <1>1, <1>2, <1>6, <1>7, <1>8 DEF QueueOK
<1>10. /\ Slot(a, q.count) = t
       /\ \A i \in 0..(q.count - 1) : Slot(a, i) = Slot(q, i)
  <2>1. q.count \in 0..q.count
    BY <1>1 DEF QueueOK
  <2>2. Slot(a, q.count) = t
    <3>1. Index(a, q.count) = Index(r, r.count)
      BY <1>1, <1>6 DEF Index
    <3>2. Index(r, r.count) \in DOMAIN r.array
      BY <1>1, <1>2, <1>3, <2>1
    <3> QED BY <1>6, <3>1, <3>2 DEF Slot
  <2>3. ASSUME NEW i \in 0..(q.count - 1)
        PROVE  Slot(a, i) = Slot(r, i)
    <3>1. i \in 0..q.count
      BY <1>2, <1>1
    <3>2. a.array[Index(r, i)] = r.array[Index(r, i)]
      BY <1>2, <1>3, <1>4, <1>6, <3>1
    <3>3. Index(a, i) = Index(r, i)
      BY <1>6 DEF Index
    <3> QED BY <3>2, <3>3 DEF Slot
  <2> QED BY <1>1, <2>2, <2>3
<1>11. q.count \in Nat /\ a.count = q.count + 1
  BY <1>1, <1>2, <1>6
<1>12. Events(a) = Events(q) \cup {t}
  <2>1. ASSUME NEW x PROVE x \in Events(a) <=> x \in Events(q) \cup {t}
    <3>1. x \in Events(a) <=> \E i \in 0..q.count : x = Slot(a, i)
      BY <1>11, SlotsAreEvents
    <3>2. (\E i \in 0..q.count : x = Slot(a, i)) <=> (x = t \/ \E i \in 0..(q.count - 1) : x = Slot(q, i))
      BY <1>10, <1>11
    <3> QED BY <3>1, <3>2, SlotsAreEvents
  <2> QED BY <2>1
<1>13. ASSUME Distinct(q), t \notin Events(q)
       PROVE  Distinct(a)
  <2> SUFFICES ASSUME NEW i \in 0..q.count, NEW j \in 0..q.count, Slot(a, i) = Slot(a, j)
               PROVE  i = j
    BY <1>11 DEF Distinct
  <2>1. \A k \in 0..(q.count - 1) : Slot(q, k) # t
    BY <1>13, SlotsAreEvents
  <2> QED BY <1>10, <1>11, <1>13, <2>1 DEF Distinct
<1> QED BY <1>9, <1>11, <1>12, <1>13 DEF a

(* The first thread leaves.                                                 *)
LEMMA DequeuedOK ==
  ASSUME NEW q, QueueOK(q), q.count > 0, Distinct(q)
  PROVE  /\ QueueOK(Dequeued(q)) /\ Distinct(Dequeued(q))
         /\ Dequeued(q).count = q.count - 1
         /\ q.array[q.offset] \in Events(q)
         /\ Events(Dequeued(q)) = Events(q) \ {q.array[q.offset]}
<1> DEFINE d == Dequeued(q)
           next == IF q.count = 1 \/ q.offset + 1 = q.alloc THEN 0 ELSE q.offset + 1
<1>1. /\ q \in [array : Arrays, count : Nat, alloc : Nat, offset : Nat]
      /\ q.array \in [0..(q.alloc - 1) -> WinThreads \cup {NoEvent}]
      /\ q.count <= q.alloc /\ q.offset < q.alloc
  BY DEF QueueOK
<1>2. d = [q EXCEPT !.array = [q.array EXCEPT ![q.offset] = NoEvent],
                    !.count = q.count - 1, !.offset = next]
  BY DEF Dequeued
<1> HIDE DEF d
<1>3. /\ d.array = [q.array EXCEPT ![q.offset] = NoEvent]
      /\ d.count = q.count - 1 /\ d.alloc = q.alloc /\ d.offset = next
  BY <1>1, <1>2
<1>4. /\ next \in Nat /\ next < q.alloc
      /\ d.array \in [0..(q.alloc - 1) -> WinThreads \cup {NoEvent}]
  BY <1>1, <1>3
<1>5. QueueOK(d)
  <2>1. d.array \in Arrays
    BY <1>1, <1>4, ArrayType
  <2>2. d \in [array : Arrays, count : Nat, alloc : Nat, offset : Nat]
    <3>1. [q.array EXCEPT ![q.offset] = NoEvent] \in Arrays /\ q.count - 1 \in Nat
      BY <2>1, <1>3, <1>1
    <3> HIDE DEF next
    <3> QED BY <1>1, <1>2, <1>4, <3>1
  <2> QED BY <1>1, <1>3, <1>4, <2>2 DEF QueueOK
<1>6. ASSUME NEW i \in 0..(q.count - 2)
      PROVE  Slot(d, i) = Slot(q, i + 1)
  <2>1. i \in 0..q.alloc /\ i + 1 \in 0..q.alloc /\ i + 1 # q.alloc
    BY <1>1
  <2>2. Index(d, i) = IF next + i < q.alloc THEN next + i ELSE next + i - q.alloc
    <3>1. d.alloc = q.alloc /\ d.offset = next /\ d.alloc > 0 /\ i \in 0..d.alloc
      BY <1>1, <1>3, <2>1
    <3> HIDE DEF next
    <3> QED BY <1>5, <3>1, Wrapped
  <2>3. /\ Index(q, i + 1) = IF q.offset + (i + 1) < q.alloc THEN q.offset + (i + 1)
                             ELSE q.offset + (i + 1) - q.alloc
        /\ Index(q, i + 1) \in 0..(q.alloc - 1)
    BY <1>1, <2>1, Wrapped
  <2>4. Index(d, i) = Index(q, i + 1) /\ Index(q, i + 1) # q.offset
    BY <1>1, <2>1, <2>2, <2>3
  <2> QED BY <1>1, <1>3, <2>3, <2>4 DEF Slot
<1>7. Slot(q, 0) = q.array[q.offset]
  <2>1. 0 \in 0..q.alloc
    BY <1>1
  <2>2. Index(q, 0) = IF q.offset + 0 < q.alloc THEN q.offset + 0 ELSE q.offset + 0 - q.alloc
    BY <1>1, <2>1, Wrapped
  <2> QED BY <1>1, <2>2 DEF Slot
<1>8. Distinct(d)
  <2> SUFFICES ASSUME NEW i \in 0..(q.count - 2), NEW j \in 0..(q.count - 2),
                      Slot(d, i) = Slot(d, j)
               PROVE  i = j
    BY <1>1, <1>3 DEF Distinct
  <2>1. i + 1 \in 0..(q.count - 1) /\ j + 1 \in 0..(q.count - 1)
    BY <1>1
  <2> QED BY <1>6, <2>1 DEF Distinct
<1>9. ASSUME NEW x
      PROVE  x \in Events(d) <=> x \in Events(q) \ {Slot(q, 0)}
  <2>1. x \in Events(d) <=> \E i \in 0..(q.count - 2) : x = Slot(q, i + 1)
    BY <1>1, <1>3, <1>6, SlotsAreEvents
  <2>2. x \in Events(q) <=> \E i \in 0..(q.count - 1) : x = Slot(q, i)
    BY SlotsAreEvents
  <2>3. \A i \in 0..(q.count - 2) : i + 1 \in 0..(q.count - 1) /\ Slot(q, i + 1) # Slot(q, 0)
    BY <1>1 DEF Distinct
  <2>4. \A i \in 0..(q.count - 1) : i # 0 => i - 1 \in 0..(q.count - 2) /\ i = (i - 1) + 1
    BY <1>1
  <2> QED BY <2>1, <2>2, <2>3, <2>4
<1>10. Slot(q, 0) \in Events(q)
  BY <1>1, SlotsAreEvents
<1> QED BY <1>3, <1>5, <1>7, <1>8, <1>9, <1>10 DEF d

(* Nobody is left.                                                          *)
LEMMA EmptiedOK ==
  ASSUME NEW q, QueueOK(q)
  PROVE  /\ QueueOK(Emptied(q)) /\ Distinct(Emptied(q))
         /\ Emptied(q).count = 0 /\ Events(Emptied(q)) = {}
<1> DEFINE e == Emptied(q)
           none == [i \in DOMAIN q.array |-> NoEvent]
<1>1. /\ q \in [array : Arrays, count : Nat, alloc : Nat, offset : Nat]
      /\ q.array \in [0..(q.alloc - 1) -> WinThreads \cup {NoEvent}]
  BY DEF QueueOK
<1>2. none \in [0..(q.alloc - 1) -> WinThreads \cup {NoEvent}]
  BY <1>1
<1>3. none \in Arrays
  BY <1>1, <1>2, ArrayType
<1>4. e = [q EXCEPT !.array = none, !.count = 0, !.offset = 0]
  BY DEF Emptied
<1> HIDE DEF e, none
<1>5. /\ e.array = none /\ e.count = 0 /\ e.alloc = q.alloc /\ e.offset = 0
      /\ e \in [array : Arrays, count : Nat, alloc : Nat, offset : Nat]
  BY <1>1, <1>3, <1>4
<1>6. QueueOK(e)
  BY <1>1, <1>2, <1>5 DEF QueueOK
<1>7. 0..(e.count - 1) = {}
  BY <1>5
<1> QED BY <1>5, <1>6, <1>7 DEF Distinct, Events, e

-----------------------------------------------------------------------------
(* The invariant.                                                          *)

WinLabels == {"idle", "increment", "init", "spin", "lock", "hold", "wait", "poll", "abort"}
Ops == {"rd", "wr"}

WinTypeOK ==
  /\ winprogram \in WinPrograms
  /\ guardstarted \in Int /\ winrun \in Int
  /\ queue \in [Ops -> [array : Arrays, count : Nat, alloc : Nat, offset : Nat]]
  /\ signalled \subseteq { t \in WinThreads : winpc[t] = "wait" }
  /\ want \in [WinThreads -> Ops \cup {NoEvent}]
  /\ winpc \in [WinThreads -> WinLabels]
  /\ \A t \in WinThreads : winpc[t] # "idle" => want[t] \in Ops

(* Only the thread that was the first to increment "started" initializes    *)
(* the lock, and nobody uses it before.                                     *)
Starting == {"idle", "increment", "init", "spin"}
StartInv ==
  /\ guardstarted >= -1
  /\ \A t \in WinThreads : winpc[t] = "init" => guardstarted >= 0 /\ ~done
  /\ \A s, t \in WinThreads : winpc[s] = "init" /\ winpc[t] = "init" => s = t
  /\ done => guardstarted >= 0
  /\ ~done => /\ winrun = 0
              /\ \A t \in WinThreads : winpc[t] \in Starting

(* The threads that hold the lock, or will when they wake up.               *)
Runs(op) == Holding(op) \cup HandedTo(op)

QueueInv ==
  \A op \in Ops :
    /\ QueueOK(queue[op]) /\ Distinct(queue[op])
    /\ Events(queue[op]) = Asleep(op) /\ queue[op].count = Cardinality(Asleep(op))

RunInv ==
  /\ winrun = Cardinality(Runs("rd")) - Cardinality(Runs("wr"))
  /\ Runs("rd") = {} \/ Runs("wr") = {}
  /\ Cardinality(Runs("wr")) <= 1
  /\ Asleep("rd") # {} => winrun = -1
  /\ Asleep("wr") # {} => winrun # 0
  /\ \A t \in WinThreads : winpc[t] # "abort"

WinInv == WinTypeOK /\ StartInv /\ QueueInv /\ RunInv

LEMMA InvariantSuffices == WinInv => HandOver
BY DEF WinInv, QueueInv, RunInv, Runs, Ops, HandOver

LEMMA Subsets ==
  ASSUME NEW op
  PROVE  /\ Asleep(op) \subseteq WinThreads /\ Holding(op) \subseteq WinThreads
         /\ WinTypeOK => HandedTo(op) \subseteq WinThreads /\ Runs(op) \subseteq WinThreads
BY DEF Asleep, Holding, HandedTo, Runs, WinTypeOK

LEMMA Size ==
  ASSUME NEW S \in SUBSET WinThreads
  PROVE  /\ Cardinality(S) \in Nat
         /\ Cardinality(S) = 0 <=> S = {}
         /\ \A t \in WinThreads :
              /\ t \notin S => Cardinality(S \cup {t}) = Cardinality(S) + 1
              /\ t \in S => Cardinality(S \ {t}) = Cardinality(S) - 1
<1>1. IsFiniteSet(S)
  BY WinAssumption, FS_Subset
<1> QED BY <1>1, FS_CardinalityType, FS_EmptySet, FS_AddElement, FS_RemoveElement

LEMMA WinInitially == WinInit => WinInv
<1> SUFFICES ASSUME WinInit PROVE WinInv
  OBVIOUS
<1>1. /\ \A op \in Ops : queue[op] = EmptyQueue
      /\ queue = [op \in Ops |-> EmptyQueue]
  BY DEF WinInit, Ops
<1>2. EmptyQueue \in [array : Arrays, count : Nat, alloc : Nat, offset : Nat]
  BY EmptyQueueOK DEF QueueOK
<1>3. WinTypeOK
  <2>1. queue \in [Ops -> [array : Arrays, count : Nat, alloc : Nat, offset : Nat]]
    BY <1>1, <1>2
  <2> QED BY <2>1 DEF WinInit, WinTypeOK, WinLabels
<1>4. StartInv
  BY DEF WinInit, StartInv, Starting
<1>5. \A op \in Ops : Asleep(op) = {} /\ Holding(op) = {} /\ HandedTo(op) = {} /\ Runs(op) = {}
  BY DEF WinInit, Asleep, Holding, HandedTo, Runs
<1>6. Cardinality({}) = 0
  BY FS_EmptySet
<1>7. QueueInv
  BY <1>1, <1>5, <1>6, EmptyQueueOK DEF QueueInv, EmptyQueue
<1>8. RunInv
  BY <1>5, <1>6 DEF WinInit, RunInv, Ops
<1> QED BY <1>3, <1>4, <1>7, <1>8 DEF WinInv

-----------------------------------------------------------------------------
(* The steps, told by the sets of threads.                                  *)

(* A step of a thread that neither holds nor waits, and will not.           *)
Outside == {"idle", "increment", "init", "spin", "lock", "poll"}

LEMMA QuietSets ==
  ASSUME WinTypeOK, NEW t \in WinThreads, NEW l \in Outside,
         winpc[t] \in Outside, WinGoto(t, l), signalled' = signalled,
         want' = want \/ \E op \in Ops : want' = [want EXCEPT ![t] = op]
  PROVE  \A op \in Ops : /\ Asleep(op)' = Asleep(op) /\ Holding(op)' = Holding(op)
                         /\ HandedTo(op)' = HandedTo(op) /\ Runs(op)' = Runs(op)
<1>1. \A u \in WinThreads \ {t} : winpc'[u] = winpc[u] /\ want'[u] = want[u]
  BY DEF WinTypeOK, WinGoto
<1>2. winpc'[t] = l /\ l # "hold" /\ l # "wait" /\ winpc[t] # "hold" /\ winpc[t] # "wait"
  BY DEF WinTypeOK, WinGoto, Outside
<1>3. t \notin signalled
  BY <1>2 DEF WinTypeOK
<1> SUFFICES ASSUME NEW op \in Ops
             PROVE  /\ Asleep(op)' = Asleep(op) /\ Holding(op)' = Holding(op)
                    /\ HandedTo(op)' = HandedTo(op) /\ Runs(op)' = Runs(op)
  OBVIOUS
<1>4. Asleep(op)' = Asleep(op)
  BY <1>1, <1>2 DEF Asleep
<1>5. Holding(op)' = Holding(op)
  BY <1>1, <1>2 DEF Holding
<1>6. HandedTo(op)' = HandedTo(op)
  BY <1>1, <1>3 DEF HandedTo, WinTypeOK
<1> QED BY <1>4, <1>5, <1>6 DEF Runs

LEMMA EnterSets ==
  ASSUME WinTypeOK, NEW t \in WinThreads, NEW o \in Ops,
         winpc[t] \in Outside, WinGoto(t, "hold"), signalled' = signalled,
         want' = [want EXCEPT ![t] = o]
  PROVE  /\ \A op \in Ops : Asleep(op)' = Asleep(op) /\ t \notin Runs(op) /\ t \notin Holding(op)
         /\ \A op \in Ops \ {o} : Holding(op)' = Holding(op) /\ Runs(op)' = Runs(op)
         /\ Holding(o)' = Holding(o) \cup {t} /\ Runs(o)' = Runs(o) \cup {t}
<1>1. \A u \in WinThreads \ {t} : winpc'[u] = winpc[u] /\ want'[u] = want[u]
  BY DEF WinTypeOK, WinGoto
<1>2. winpc'[t] = "hold" /\ want'[t] = o /\ winpc[t] # "hold" /\ winpc[t] # "wait"
  BY DEF WinTypeOK, WinGoto, Outside
<1>3. t \notin signalled
  BY <1>2 DEF WinTypeOK
<1>4. \A op \in Ops : HandedTo(op)' = HandedTo(op) /\ t \notin HandedTo(op)
  BY <1>1, <1>3 DEF HandedTo, WinTypeOK
<1>5. \A op \in Ops : Asleep(op)' = Asleep(op)
  BY <1>1, <1>2 DEF Asleep
<1>6. \A op \in Ops \ {o} : Holding(op)' = Holding(op)
  BY <1>1, <1>2 DEF Holding
<1>7. \A op \in Ops : t \notin Holding(op)
  BY <1>2 DEF Holding
<1>8. Holding(o)' = Holding(o) \cup {t}
  BY <1>1, <1>2 DEF Holding
<1> QED BY <1>4, <1>5, <1>6, <1>7, <1>8 DEF Runs

LEMMA WaitSets ==
  ASSUME WinTypeOK, NEW t \in WinThreads, NEW o \in Ops,
         winpc[t] \in Outside, WinGoto(t, "wait"), signalled' = signalled,
         want' = [want EXCEPT ![t] = o]
  PROVE  /\ \A op \in Ops : Holding(op)' = Holding(op) /\ Runs(op)' = Runs(op)
         /\ \A op \in Ops \ {o} : Asleep(op)' = Asleep(op)
         /\ t \notin Asleep(o) /\ Asleep(o)' = Asleep(o) \cup {t}
<1>1. \A u \in WinThreads \ {t} : winpc'[u] = winpc[u] /\ want'[u] = want[u]
  BY DEF WinTypeOK, WinGoto
<1>2. winpc'[t] = "wait" /\ want'[t] = o /\ winpc[t] # "hold" /\ winpc[t] # "wait"
  BY DEF WinTypeOK, WinGoto, Outside
<1>3. t \notin signalled
  BY <1>2 DEF WinTypeOK
<1>4. \A op \in Ops : HandedTo(op)' = HandedTo(op)
  BY <1>1, <1>3 DEF HandedTo, WinTypeOK
<1>5. \A op \in Ops \ {o} : Asleep(op)' = Asleep(op)
  BY <1>1, <1>2 DEF Asleep
<1>6. Asleep(o)' = Asleep(o) \cup {t}
  BY <1>1, <1>2, <1>3 DEF Asleep
<1>7. t \notin Asleep(o)
  BY <1>2 DEF Asleep
<1>8. \A op \in Ops : Holding(op)' = Holding(op)
  BY <1>1, <1>2 DEF Holding
<1> QED BY <1>4, <1>5, <1>6, <1>7, <1>8 DEF Runs

LEMMA AwakeSets ==
  ASSUME WinTypeOK, NEW t \in WinThreads, winpc[t] = "wait", t \in signalled,
         WinGoto(t, "hold"), signalled' = signalled \ {t}, want' = want, NEW o \in Ops, o = want[t]
  PROVE  /\ t \in Runs(o)
         /\ \A op \in Ops : Asleep(op)' = Asleep(op) /\ Runs(op)' = Runs(op)
         /\ \A op \in Ops \ {o} : Holding(op)' = Holding(op)
         /\ Holding(o)' = Holding(o) \cup {t} /\ t \notin Holding(o)
<1>1. \A u \in WinThreads \ {t} : winpc'[u] = winpc[u]
  BY DEF WinTypeOK, WinGoto
<1>2. winpc'[t] = "hold"
  BY DEF WinTypeOK, WinGoto
<1>3. \A op \in Ops \ {o} : HandedTo(op)' = HandedTo(op)
  BY DEF HandedTo, WinTypeOK
<1>4. HandedTo(o)' = HandedTo(o) \ {t} /\ t \in HandedTo(o)
  BY DEF HandedTo, WinTypeOK
<1>5. \A op \in Ops : Asleep(op)' = Asleep(op)
  BY <1>1, <1>2 DEF Asleep
<1>6. \A op \in Ops \ {o} : Holding(op)' = Holding(op)
  BY <1>1, <1>2 DEF Holding
<1>7. Holding(o)' = Holding(o) \cup {t} /\ t \notin Holding(o)
  BY <1>1, <1>2 DEF Holding
<1> QED BY <1>2, <1>3, <1>4, <1>5, <1>6, <1>7 DEF Runs

(* The thread that leaves sets the events of the threads in S.              *)
LEMMA UnlockSets ==
  ASSUME WinTypeOK, NEW t \in WinThreads, winpc[t] = "hold", NEW o \in Ops,
         NEW S \in SUBSET Asleep(o),
         WinGoto(t, "idle"), signalled' = signalled \cup S,
         want' = [want EXCEPT ![t] = NoEvent]
  PROVE  /\ want[t] \in Ops /\ t \in Holding(want[t]) /\ t \in Runs(want[t])
         /\ \A op \in Ops : Holding(op)' = Holding(op) \ {t} /\ t \notin S
         /\ Asleep(o)' = Asleep(o) \ S
         /\ \A op \in Ops \ {o} : Asleep(op)' = Asleep(op) /\ Runs(op)' = Runs(op) \ {t}
         /\ Runs(o)' = (Runs(o) \ {t}) \cup S
<1>1. \A u \in WinThreads \ {t} : winpc'[u] = winpc[u] /\ want'[u] = want[u]
  BY DEF WinTypeOK, WinGoto
<1>2. winpc'[t] = "idle" /\ want[t] \in Ops
  BY DEF WinTypeOK, WinGoto
<1>3. t \notin signalled /\ t \notin S
  BY DEF WinTypeOK, Asleep
<1>4. \A op \in Ops : Holding(op)' = Holding(op) \ {t}
  BY <1>1, <1>2 DEF Holding
<1>5. \A op \in Ops \ {o} : HandedTo(op)' = HandedTo(op)
  BY <1>1, <1>3 DEF HandedTo, WinTypeOK, Asleep
<1>6. HandedTo(o)' = HandedTo(o) \cup S
  BY <1>1, <1>3 DEF HandedTo, WinTypeOK, Asleep
<1>7. Asleep(o)' = Asleep(o) \ S
  BY <1>1, <1>2, <1>3 DEF Asleep
<1>8. \A op \in Ops \ {o} : Asleep(op)' = Asleep(op)
  <2> SUFFICES ASSUME NEW op \in Ops \ {o} PROVE Asleep(op)' = Asleep(op)
    OBVIOUS
  <2>1. \A u \in S : want[u] = o /\ u \in WinThreads
    BY DEF Asleep
  <2> QED BY <1>1, <1>2, <1>3, <2>1 DEF Asleep
<1>9. \A op \in Ops : t \notin HandedTo(op)
  BY <1>3 DEF HandedTo
<1>10. t \in Holding(want[t])
  BY DEF Holding
<1> QED BY <1>2, <1>3, <1>4, <1>5, <1>6, <1>7, <1>8, <1>9, <1>10 DEF Runs

-----------------------------------------------------------------------------
(* Every step keeps the invariant.                                          *)

LEMMA WhatTheyWant ==
  ASSUME WinTypeOK, NEW t \in WinThreads
  PROVE  Mine(t) \subseteq Ops /\ \A r \in winprogram : r[1] \in WinThreads /\ r[2] \in Ops
<1>1. \A r \in winprogram : r \in WinThreads \X Ops
  BY WinAssumption DEF WinTypeOK, Ops
<1>2. \A r \in winprogram : r[1] \in WinThreads /\ r[2] \in Ops
  BY <1>1
<1> QED BY <1>2 DEF Mine, WinTypeOK

Step(t) ==
  \/ \E op \in Ops : FirstUse(t, op)
  \/ Increment(t) \/ InitLock(t) \/ Spin(t) \/ WinLock(t) \/ WinWait(t)
  \/ CannotWait(t) \/ Poll(t) \/ Awake(t) \/ WinUnlock(t)

LEMMA StepOfThread ==
  ASSUME WinTypeOK, WinNext PROVE \E t \in WinThreads : Step(t)
<1>1. CASE \E r \in winprogram : FirstUse(r[1], r[2])
  <2>1. PICK r \in winprogram : FirstUse(r[1], r[2])
    BY <1>1
  <2>2. r[1] \in WinThreads /\ r[2] \in Ops
    <3>1. r \in WinThreads \X Ops
      BY WinAssumption DEF WinTypeOK, Ops
    <3> QED BY <3>1
  <2> QED BY <2>1, <2>2 DEF Step
<1>2. CASE \E t \in WinThreads : \/ Increment(t) \/ InitLock(t) \/ Spin(t) \/ WinLock(t)
                                 \/ WinWait(t) \/ CannotWait(t) \/ Poll(t) \/ Awake(t)
                                 \/ WinUnlock(t)
  BY <1>2 DEF Step
<1> QED BY <1>1, <1>2 DEF WinNext

(* A step that leaves the sets of threads alone.                            *)
LEMMA RunKept ==
  ASSUME RunInv, winrun' = winrun, \A t \in WinThreads : winpc'[t] # "abort",
         \A op \in Ops : Asleep(op)' = Asleep(op) /\ Runs(op)' = Runs(op)
  PROVE  RunInv'
<1>1. "rd" \in Ops /\ "wr" \in Ops
  BY DEF Ops
<1> QED BY <1>1 DEF RunInv

LEMMA QueueKept ==
  ASSUME QueueInv, queue' = queue, \A op \in Ops : Asleep(op)' = Asleep(op)
  PROVE  QueueInv'
BY DEF QueueInv

LEMMA QueuesTyped ==
  ASSUME NEW q, \A op \in Ops : QueueOK(q[op]), DOMAIN q = Ops, q = [op \in Ops |-> q[op]]
  PROVE  q \in [Ops -> [array : Arrays, count : Nat, alloc : Nat, offset : Nat]]
BY DEF QueueOK

(* A thread enters.                                                         *)
LEMMA EnterKeeps ==
  ASSUME WinInv, NEW t \in WinThreads, NEW o \in Ops, MayRun(o), winrun' = Entered(o),
         winpc[t] \in Outside, WinGoto(t, "hold"), signalled' = signalled,
         want' = [want EXCEPT ![t] = o], queue' = queue
  PROVE  QueueInv' /\ RunInv'
<1> USE DEF WinInv
<1>1. /\ \A op \in Ops : Asleep(op)' = Asleep(op) /\ t \notin Runs(op)
      /\ \A op \in Ops \ {o} : Runs(op)' = Runs(op)
      /\ Runs(o)' = Runs(o) \cup {t}
  BY EnterSets
<1>2. QueueInv'
  BY <1>1, QueueKept
<1>3. \A op \in Ops : Runs(op) \in SUBSET WinThreads
  BY Subsets
<1>4. \A op \in Ops : /\ Cardinality(Runs(op)) \in Nat
                      /\ Cardinality(Runs(op)) = 0 <=> Runs(op) = {}
                      /\ Cardinality(Runs(op) \cup {t}) = Cardinality(Runs(op)) + 1
  BY <1>1, <1>3, Size
<1>5. \A u \in WinThreads : winpc'[u] # "abort"
  BY DEF WinTypeOK, WinGoto, RunInv
<1>6. CASE o = "rd"
  <2>1. winrun + 1 > 0 /\ winrun' = winrun + 1
    BY <1>6 DEF MayRun, Entered
  <2>2. Runs("rd")' = Runs("rd") \cup {t} /\ Runs("wr")' = Runs("wr")
    BY <1>1, <1>6 DEF Ops
  <2>3. Runs("wr") = {}
    BY <1>4, <2>1 DEF RunInv, Ops, WinTypeOK
  <2>4. Asleep("rd")' = {} /\ Asleep("wr")' = Asleep("wr")
    BY <1>1, <2>1 DEF RunInv, Ops, WinTypeOK
  <2>5. winrun = Cardinality(Runs("rd")) - Cardinality(Runs("wr")) /\ winrun \in Int
    BY DEF RunInv, WinTypeOK
  <2>6. /\ Cardinality(Runs("rd")) \in Nat /\ Cardinality(Runs("wr")) = 0
        /\ Cardinality(Runs("rd") \cup {t}) = Cardinality(Runs("rd")) + 1
    BY <1>4, <2>3 DEF Ops
  <2>7. winrun' = Cardinality(Runs("rd")') - Cardinality(Runs("wr")') /\ winrun' # 0
    <3>1. /\ Cardinality(Runs("rd")') = Cardinality(Runs("rd")) + 1
          /\ Cardinality(Runs("wr")') = Cardinality(Runs("wr"))
      BY <2>2, <2>6
    <3> QED BY <2>1, <2>5, <2>6, <3>1
  <2>8. Cardinality(Runs("wr")') <= 1 /\ Runs("wr")' = {}
    BY <2>2, <2>3, <2>6
  <2> QED BY <1>2, <1>5, <2>4, <2>7, <2>8 DEF RunInv
<1>7. CASE o = "wr"
  <2>1. winrun = 0 /\ winrun' = -1
    BY <1>7 DEF MayRun, Entered
  <2>2. Runs("wr")' = Runs("wr") \cup {t} /\ Runs("rd")' = Runs("rd")
    BY <1>1, <1>7 DEF Ops
  <2>3. Runs("wr") = {} /\ Runs("rd") = {}
    BY <1>4, <2>1 DEF RunInv, Ops
  <2>4. Asleep("rd")' = {} /\ Asleep("wr")' = {}
    BY <1>1, <2>1 DEF RunInv, Ops
  <2>5. Cardinality(Runs("wr")') = 1 /\ Cardinality(Runs("rd")') = 0
    BY <1>4, <2>2, <2>3 DEF Ops
  <2> QED BY <1>2, <1>5, <2>1, <2>2, <2>3, <2>4, <2>5 DEF RunInv
<1> QED BY <1>6, <1>7 DEF Ops

(* A thread goes to sleep in its queue.                                     *)
LEMMA WaitKeeps ==
  ASSUME WinInv, NEW t \in WinThreads, NEW o \in Ops, ~MayRun(o), winrun' = winrun,
         winpc[t] \in Outside, WinGoto(t, "wait"), signalled' = signalled,
         want' = [want EXCEPT ![t] = o], queue' = [queue EXCEPT ![o] = Added(@, t)]
  PROVE  QueueInv' /\ RunInv'
<1> USE DEF WinInv
<1>1. /\ \A op \in Ops : Runs(op)' = Runs(op)
      /\ \A op \in Ops \ {o} : Asleep(op)' = Asleep(op)
      /\ t \notin Asleep(o) /\ Asleep(o)' = Asleep(o) \cup {t}
  BY WaitSets
<1>2. QueueInv'
  <2>1. queue'[o] = Added(queue[o], t) /\ \A op \in Ops \ {o} : queue'[op] = queue[op]
    BY DEF WinTypeOK
  <2>2. /\ QueueOK(queue[o]) /\ Distinct(queue[o])
        /\ Events(queue[o]) = Asleep(o) /\ queue[o].count = Cardinality(Asleep(o))
    BY DEF QueueInv
  <2>3. /\ QueueOK(queue'[o]) /\ Distinct(queue'[o])
        /\ Events(queue'[o]) = Asleep(o)' /\ queue'[o].count = queue[o].count + 1
    BY <1>1, <2>1, <2>2, AddedOK
  <2>4. Cardinality(Asleep(o)') = Cardinality(Asleep(o)) + 1
    BY <1>1, Subsets, Size
  <2> QED BY <1>1, <2>1, <2>2, <2>3, <2>4 DEF QueueInv
<1>3. o = "rd" => winrun < 0
  BY DEF MayRun, WinTypeOK
<1>4. o = "wr" => winrun # 0
  BY DEF MayRun
<1>5. winrun < 0 => winrun = -1
  <2>1. \A op \in Ops : Cardinality(Runs(op)) \in Nat
    BY Subsets, Size
  <2> QED BY <2>1 DEF RunInv, Ops
<1>6. \A u \in WinThreads : winpc'[u] # "abort"
  BY DEF WinTypeOK, WinGoto, RunInv
<1>7. Runs("rd")' = Runs("rd") /\ Runs("wr")' = Runs("wr")
  BY <1>1 DEF Ops
<1>8. Asleep("rd")' # {} => Asleep("rd") # {} \/ o = "rd"
  BY <1>1 DEF Ops
<1>9. Asleep("wr")' # {} => Asleep("wr") # {} \/ o = "wr"
  BY <1>1 DEF Ops
<1> QED BY <1>2, <1>3, <1>4, <1>5, <1>6, <1>7, <1>8, <1>9 DEF RunInv

(* A thread that wakes up enters; it was counted before.                    *)
LEMMA AwakeKeeps ==
  ASSUME WinInv, NEW t \in WinThreads, Awake(t)
  PROVE  WinGoto(t, "hold") /\ QueueInv' /\ RunInv'
<1> USE DEF WinInv
<1>1. want[t] \in Ops /\ t \in Runs(want[t])
  BY DEF Awake, WinTypeOK, Runs, HandedTo
<1>2. \A op \in Ops : Cardinality(Runs(op)) \in Nat /\ (Cardinality(Runs(op)) = 0 <=> Runs(op) = {})
  BY Subsets, Size
<1>3. IF want[t] = "rd" THEN winrun > 0 ELSE winrun = -1
  BY <1>1, <1>2 DEF RunInv, Ops
<1>4. WinGoto(t, "hold")
  BY <1>3 DEF Awake
<1>5. \A op \in Ops : Asleep(op)' = Asleep(op) /\ Runs(op)' = Runs(op)
  <2>1. PICK o \in Ops : o = want[t]
    BY <1>1
  <2> QED BY <1>4, <2>1, AwakeSets DEF Awake
<1>6. winrun' = winrun /\ queue' = queue /\ \A u \in WinThreads : winpc'[u] # "abort"
  BY <1>4 DEF Awake, WinTypeOK, WinGoto, RunInv
<1> QED BY <1>4, <1>5, <1>6, RunKept, QueueKept

(* A thread leaves: other readers remain, or the lock is handed over to a   *)
(* writer, or to all the readers that sleep.                                *)
LEMMA UnlockKeeps ==
  ASSUME WinInv, NEW t \in WinThreads, WinUnlock(t)
  PROVE  QueueInv' /\ RunInv' /\ signalled' \subseteq { u \in WinThreads : winpc'[u] = "wait" }
<1> USE DEF WinInv
<1> DEFINE m == want[t]
<1>0. /\ winpc[t] = "hold" /\ WinGoto(t, "idle") /\ want' = [want EXCEPT ![t] = NoEvent]
      /\ "rd" \in Ops /\ "wr" \in Ops /\ \A op \in Ops : op = "rd" \/ op = "wr"
  BY DEF WinUnlock, Ops
<1>1. m \in Ops /\ t \in Runs(m) /\ t \in Holding(m) /\ t \notin signalled
  BY <1>0 DEF WinTypeOK, Holding, Runs
<1>2. \A u \in WinThreads : winpc'[u] # "abort" /\ (u # t => winpc'[u] = winpc[u])
  BY <1>0 DEF WinTypeOK, WinGoto, RunInv
<1>3. ASSUME NEW op \in Ops
      PROVE  /\ Runs(op) \in SUBSET WinThreads /\ Asleep(op) \in SUBSET WinThreads
             /\ Cardinality(Runs(op)) \in Nat /\ Cardinality(Asleep(op)) \in Nat
             /\ Cardinality(Runs(op)) = 0 <=> Runs(op) = {}
             /\ Cardinality(Asleep(op)) = 0 <=> Asleep(op) = {}
             /\ t \in Runs(op) => Cardinality(Runs(op) \ {t}) = Cardinality(Runs(op)) - 1
             /\ t \notin Runs(op) => Runs(op) \ {t} = Runs(op)
             /\ Runs(op) \ {t} = {} <=> Cardinality(Runs(op) \ {t}) = 0
  <2>1. Runs(op) \in SUBSET WinThreads /\ Asleep(op) \in SUBSET WinThreads
    BY Subsets
  <2>2. Runs(op) \ {t} \in SUBSET WinThreads
    BY <2>1
  <2> QED BY <2>1, <2>2, Size
<1>4. /\ winrun = Cardinality(Runs("rd")) - Cardinality(Runs("wr"))
      /\ Cardinality(Runs("wr")) <= 1
      /\ m = "rd" => Runs("wr") = {} /\ winrun > 0 /\ t \notin Runs("wr")
      /\ m = "wr" => Runs("rd") = {} /\ winrun = -1 /\ t \notin Runs("rd")
  <2>1. /\ winrun = Cardinality(Runs("rd")) - Cardinality(Runs("wr"))
        /\ Cardinality(Runs("wr")) <= 1 /\ (Runs("rd") = {} \/ Runs("wr") = {})
    BY DEF RunInv
  <2>2. \A op \in Ops : Cardinality(Runs(op)) \in Nat /\ (Cardinality(Runs(op)) = 0 <=> Runs(op) = {})
    BY <1>3
  <2>3. ASSUME m = "rd"
        PROVE  Runs("wr") = {} /\ winrun > 0 /\ t \notin Runs("wr")
    BY <1>0, <1>1, <2>1, <2>2, <2>3
  <2>4. ASSUME m = "wr"
        PROVE  Runs("rd") = {} /\ winrun = -1 /\ t \notin Runs("rd")
    <3>1. Runs("rd") = {} /\ Runs("wr") # {}
      BY <1>0, <1>1, <2>1, <2>4
    <3> QED BY <1>0, <2>1, <2>2, <3>1
  <2> QED BY <2>1, <2>3, <2>4
<1>5. Left = Cardinality(Runs("rd") \ {t}) /\ Cardinality(Runs("wr") \ {t}) = 0
  <2>1. CASE m = "rd"
    BY <1>0, <1>1, <1>3, <1>4, <2>1 DEF Left, WinTypeOK
  <2>2. CASE m = "wr"
    BY <1>0, <1>1, <1>3, <1>4, <2>2 DEF Left, WinTypeOK
  <2> QED BY <1>0, <1>1, <2>1, <2>2
<1>6. Runs("wr") \ {t} = {} /\ (Left = 0 => Runs("rd") \ {t} = {})
  BY <1>0, <1>3, <1>5
<1>7. \A op \in Ops : /\ QueueOK(queue[op]) /\ Distinct(queue[op])
                      /\ Events(queue[op]) = Asleep(op)
                      /\ queue[op].count = Cardinality(Asleep(op))
  BY DEF QueueInv
<1>8. CASE Left # 0 /\ winrun' = Left /\ UNCHANGED <<queue, signalled>>
  <2>1. signalled' = signalled \cup {} /\ {} \in SUBSET Asleep("rd")
    BY <1>8
  <2>2. /\ Asleep("rd")' = Asleep("rd") \ {} /\ Asleep("wr")' = Asleep("wr")
        /\ Runs("wr")' = Runs("wr") \ {t} /\ Runs("rd")' = (Runs("rd") \ {t}) \cup {}
    <3>1. "rd" \in Ops /\ "wr" \in Ops \ {"rd"} /\ WinTypeOK
      BY DEF Ops
    <3>2. /\ Asleep("rd")' = Asleep("rd") \ {}
          /\ \A op \in Ops \ {"rd"} : Asleep(op)' = Asleep(op) /\ Runs(op)' = Runs(op) \ {t}
          /\ Runs("rd")' = (Runs("rd") \ {t}) \cup {}
      BY <1>0, <2>1, <3>1, UnlockSets
    <3> QED BY <3>1, <3>2
  <2>3. \A op \in Ops : Asleep(op)' = Asleep(op)
    BY <1>0, <2>2
  <2>4. QueueInv'
    BY <1>8, <2>3, QueueKept
  <2>5. winrun > 0
    BY <1>8, <1>0, <1>1, <1>4 DEF Left
  <2>6. Asleep("rd") = {}
    BY <2>5 DEF RunInv
  <2>7. /\ winrun' = Cardinality(Runs("rd")') - Cardinality(Runs("wr")')
        /\ Cardinality(Runs("wr")') <= 1 /\ Runs("wr")' = {}
    <3>1. Runs("wr")' = {} /\ Runs("rd")' = Runs("rd") \ {t}
      BY <1>6, <2>2
    <3>2. Cardinality(Runs("wr")') = 0 /\ Cardinality(Runs("rd")') = Left
      BY <1>5, <3>1, FS_EmptySet
    <3>3. Left \in Int
      BY DEF Left, WinTypeOK
    <3> QED BY <1>8, <3>1, <3>2, <3>3
  <2>8. RunInv'
    BY <1>2, <1>8, <2>2, <2>6, <2>7 DEF RunInv
  <2>9. signalled' \subseteq { u \in WinThreads : winpc'[u] = "wait" }
    BY <1>1, <1>2, <1>8 DEF WinTypeOK
  <2> QED BY <2>4, <2>8, <2>9
<1>9. CASE /\ Left = 0 /\ queue["wr"].count > 0 /\ winrun' = -1
           /\ signalled' = signalled \cup {queue["wr"].array[queue["wr"].offset]}
           /\ queue' = [queue EXCEPT !["wr"] = Dequeued(@)]
  <2> DEFINE w == queue["wr"].array[queue["wr"].offset]
  <2>1. queue'["wr"] = Dequeued(queue["wr"]) /\ queue'["rd"] = queue["rd"]
    BY <1>0, <1>9 DEF WinTypeOK
  <2>2. /\ QueueOK(queue'["wr"]) /\ Distinct(queue'["wr"])
        /\ queue'["wr"].count = queue["wr"].count - 1
        /\ w \in Asleep("wr") /\ Events(queue'["wr"]) = Asleep("wr") \ {w}
    BY <1>0, <1>7, <1>9, <2>1, DequeuedOK
  <2>3. signalled' = signalled \cup {w} /\ {w} \in SUBSET Asleep("wr")
    BY <1>9, <2>2
  <2> HIDE DEF w
  <2>4. /\ Asleep("wr")' = Asleep("wr") \ {w} /\ Asleep("rd")' = Asleep("rd")
        /\ Runs("rd")' = Runs("rd") \ {t} /\ Runs("wr")' = (Runs("wr") \ {t}) \cup {w}
    <3>1. "wr" \in Ops /\ "rd" \in Ops \ {"wr"} /\ WinTypeOK
      BY DEF Ops
    <3>2. PICK S : S = {w}
      OBVIOUS
    <3>3. S \in SUBSET Asleep("wr") /\ signalled' = signalled \cup S
      BY <2>3, <3>2
    <3>4. /\ Asleep("wr")' = Asleep("wr") \ S
          /\ \A op \in Ops \ {"wr"} : Asleep(op)' = Asleep(op) /\ Runs(op)' = Runs(op) \ {t}
          /\ Runs("wr")' = (Runs("wr") \ {t}) \cup S
      BY <1>0, <3>1, <3>3, UnlockSets
    <3> QED BY <3>1, <3>2, <3>4
  <2>5. Cardinality(Asleep("wr") \ {w}) = Cardinality(Asleep("wr")) - 1
    BY <1>0, <1>3, <2>2, Size
  <2>6. QueueInv'
    <3>1. \A op \in Ops : /\ QueueOK(queue'[op]) /\ Distinct(queue'[op])
                          /\ Events(queue'[op]) = Asleep(op)'
                          /\ queue'[op].count = Cardinality(Asleep(op)')
      BY <1>0, <1>7, <2>1, <2>2, <2>4, <2>5
    <3> QED BY <3>1 DEF QueueInv
  <2>7. Runs("rd")' = {} /\ Runs("wr")' = {w}
    BY <1>6, <1>9, <2>4
  <2>8. Cardinality(Runs("rd")') = 0 /\ Cardinality(Runs("wr")') = 1
    BY <2>7, FS_EmptySet, FS_Singleton
  <2>9. RunInv'
    BY <1>2, <1>9, <2>7, <2>8 DEF RunInv
  <2>10. signalled' \subseteq { u \in WinThreads : winpc'[u] = "wait" }
    <3>1. winpc[w] = "wait" /\ w \in WinThreads
      BY <2>2 DEF Asleep
    <3> QED BY <1>0, <1>1, <1>2, <2>3, <3>1 DEF WinTypeOK
  <2> QED BY <2>6, <2>9, <2>10
<1>10. CASE /\ Left = 0 /\ queue["wr"].count = 0 /\ winrun' = Counted
            /\ signalled' = signalled \cup Events(queue["rd"])
            /\ queue' = [queue EXCEPT !["rd"] = Emptied(@)]
  <2>1. queue'["rd"] = Emptied(queue["rd"]) /\ queue'["wr"] = queue["wr"]
    BY <1>0, <1>10 DEF WinTypeOK
  <2>2. /\ QueueOK(queue'["rd"]) /\ Distinct(queue'["rd"])
        /\ queue'["rd"].count = 0 /\ Events(queue'["rd"]) = {}
    BY <1>0, <1>7, <2>1, EmptiedOK
  <2>3. signalled' = signalled \cup Asleep("rd") /\ Asleep("rd") \in SUBSET Asleep("rd")
    BY <1>0, <1>7, <1>10
  <2>4. /\ Asleep("rd")' = {} /\ Asleep("wr")' = Asleep("wr")
        /\ Runs("wr")' = Runs("wr") \ {t} /\ Runs("rd")' = (Runs("rd") \ {t}) \cup Asleep("rd")
    <3>1. /\ "rd" \in Ops /\ "wr" \in Ops \ {"rd"} /\ WinTypeOK
          /\ Asleep("rd") \ Asleep("rd") = {}
      BY DEF Ops
    <3>2. /\ Asleep("rd")' = Asleep("rd") \ Asleep("rd")
          /\ \A op \in Ops \ {"rd"} : Asleep(op)' = Asleep(op) /\ Runs(op)' = Runs(op) \ {t}
          /\ Runs("rd")' = (Runs("rd") \ {t}) \cup Asleep("rd")
      BY <1>0, <2>3, <3>1, UnlockSets
    <3> QED BY <3>1, <3>2
  <2>5. QueueInv'
    <3>1. \A op \in Ops : /\ QueueOK(queue'[op]) /\ Distinct(queue'[op])
                          /\ Events(queue'[op]) = Asleep(op)'
                          /\ queue'[op].count = Cardinality(Asleep(op)')
      BY <1>0, <1>7, <2>1, <2>2, <2>4, FS_EmptySet
    <3> QED BY <3>1 DEF QueueInv
  <2>6. Runs("rd")' = Asleep("rd") /\ Runs("wr")' = {}
    BY <1>6, <1>10, <2>4
  <2>7. winrun' = Cardinality(Runs("rd")') - Cardinality(Runs("wr")')
    <3>1. Cardinality(Runs("rd")') = Cardinality(Asleep("rd")) /\ Cardinality(Runs("wr")') = 0
      BY <2>6, FS_EmptySet
    <3>2. Cardinality(Asleep("rd")) \in Nat /\ winrun' = Cardinality(Asleep("rd"))
      BY <1>0, <1>3, <1>7, <1>10 DEF Counted
    <3> QED BY <3>1, <3>2
  <2>8. Asleep("wr")' = {}
    BY <1>0, <1>3, <1>7, <1>10, <2>4
  <2>9. RunInv'
    <3>1. Cardinality(Runs("wr")') <= 1
      BY <2>6, FS_EmptySet
    <3> QED BY <1>2, <2>4, <2>6, <2>7, <2>8, <3>1 DEF RunInv
  <2>10. signalled' \subseteq { u \in WinThreads : winpc'[u] = "wait" }
    <3>1. \A u \in Asleep("rd") : winpc[u] = "wait" /\ u \in WinThreads
      BY DEF Asleep
    <3> QED BY <1>0, <1>1, <1>2, <2>3, <3>1 DEF WinTypeOK
  <2> QED BY <2>5, <2>9, <2>10
<1> QED BY <1>8, <1>9, <1>10 DEF WinUnlock

LEMMA TypeKept ==
  ASSUME WinTypeOK, QueueInv', NEW t \in WinThreads, NEW l \in WinLabels, WinGoto(t, l),
         winprogram' = winprogram, guardstarted' \in Int, winrun' \in Int,
         DOMAIN queue' = Ops, queue' = [op \in Ops |-> queue'[op]],
         signalled' \subseteq { u \in WinThreads : winpc'[u] = "wait" },
         \/ want' = want /\ (l # "idle" => winpc[t] # "idle")
         \/ \E op \in Ops : want' = [want EXCEPT ![t] = op]
         \/ l = "idle" /\ want' = [want EXCEPT ![t] = NoEvent]
  PROVE  WinTypeOK'
<1>1. queue' \in [Ops -> [array : Arrays, count : Nat, alloc : Nat, offset : Nat]]
  <2> DEFINE q == queue'
  <2>1. \A op \in Ops : QueueOK(q[op])
    BY DEF QueueInv
  <2> HIDE DEF q
  <2>2. q \in [Ops -> [array : Arrays, count : Nat, alloc : Nat, offset : Nat]]
    <3>1. DOMAIN q = Ops /\ q = [op \in Ops |-> q[op]]
      BY DEF q
    <3> QED BY <2>1, <3>1, QueuesTyped
  <2> QED BY <2>2 DEF q
<1>2. winpc' \in [WinThreads -> WinLabels] /\ winpc'[t] = l
  BY DEF WinTypeOK, WinGoto
<1>3. \A u \in WinThreads \ {t} : winpc'[u] = winpc[u] /\ want'[u] = want[u]
  BY DEF WinTypeOK, WinGoto
<1>4. /\ want' \in [WinThreads -> Ops \cup {NoEvent}]
      /\ l # "idle" => want'[t] \in Ops
  BY DEF WinTypeOK
<1>5. \A u \in WinThreads : winpc'[u] # "idle" => want'[u] \in Ops
  BY <1>2, <1>3, <1>4 DEF WinTypeOK
<1> QED BY <1>1, <1>2, <1>4, <1>5 DEF WinTypeOK

(* Once the lock is initialized only the initialization matters no more.    *)
LEMMA StartKept ==
  ASSUME WinTypeOK, StartInv, done, done' = done, guardstarted' = guardstarted,
         NEW t \in WinThreads, NEW l \in WinLabels \ {"init"}, WinGoto(t, l)
  PROVE  StartInv'
<1>1. \A u \in WinThreads : winpc'[u] # "init"
  BY DEF WinTypeOK, WinGoto, StartInv
<1> QED BY <1>1 DEF StartInv

(* A step of a thread that stays outside, and leaves the count and the      *)
(* queues alone.                                                            *)
LEMMA QuietKeeps ==
  ASSUME WinInv, NEW t \in WinThreads, NEW l \in Outside,
         winpc[t] \in Outside, WinGoto(t, l), signalled' = signalled,
         want' = want \/ \E op \in Ops : want' = [want EXCEPT ![t] = op],
         winrun' = winrun
  PROVE  /\ \A op \in Ops : Asleep(op)' = Asleep(op)
         /\ RunInv'
         /\ queue' = queue => QueueInv'
         /\ signalled' \subseteq { u \in WinThreads : winpc'[u] = "wait" }
<1> USE DEF WinInv
<1>1. \A op \in Ops : Asleep(op)' = Asleep(op) /\ Runs(op)' = Runs(op)
  BY QuietSets
<1>2. \A u \in WinThreads : winpc'[u] # "abort"
  BY DEF WinTypeOK, WinGoto, RunInv, Outside
<1>3. RunInv'
  BY <1>1, <1>2, RunKept
<1>4. queue' = queue => QueueInv'
  BY <1>1, QueueKept
<1>5. \A u \in WinThreads : winpc[u] = "wait" => winpc'[u] = "wait"
  BY DEF WinTypeOK, WinGoto, Outside
<1> QED BY <1>1, <1>3, <1>4, <1>5 DEF WinTypeOK

LEMMA StepKeeps ==
  ASSUME WinInv, NEW t \in WinThreads, Step(t)
  PROVE  WinInv'
<1> USE DEF WinInv
<1>0. /\ DOMAIN queue = Ops /\ queue = [op \in Ops |-> queue[op]]
      /\ guardstarted \in Int /\ winrun \in Int
      /\ "rd" \in Ops /\ "wr" \in Ops
  BY DEF WinTypeOK, Ops
<1>1. ASSUME NEW op \in Ops, FirstUse(t, op)
      PROVE  WinInv'
  <2>1. /\ winpc[t] \in Outside /\ "increment" \in Outside /\ "increment" \in WinLabels
        /\ WinGoto(t, "increment") /\ signalled' = signalled
        /\ want' = [want EXCEPT ![t] = op] /\ winrun' = winrun /\ queue' = queue
        /\ done' = done /\ guardstarted' = guardstarted /\ winprogram' = winprogram /\ ~done
    BY <1>1 DEF FirstUse, guardvars, Outside, WinLabels
  <2>2. RunInv' /\ QueueInv' /\ signalled' \subseteq { u \in WinThreads : winpc'[u] = "wait" }
    BY <2>1, QuietKeeps
  <2>3. WinTypeOK'
    BY <1>0, <2>1, <2>2, TypeKept
  <2>4. StartInv'
    BY <2>1 DEF StartInv, Starting, WinGoto, WinTypeOK
  <2> QED BY <2>2, <2>3, <2>4
<1>2. CASE Increment(t)
  <2> DEFINE l == IF guardstarted' = 0 THEN "init" ELSE "spin"
  <2>1. /\ winpc[t] \in Outside /\ l \in Outside /\ l \in WinLabels /\ winpc[t] = "increment"
        /\ WinGoto(t, l) /\ signalled' = signalled
        /\ want' = want /\ winrun' = winrun /\ queue' = queue
        /\ done' = done /\ guardstarted' = guardstarted + 1 /\ winprogram' = winprogram
    BY <1>2 DEF Increment, Outside, WinLabels
  <2>2. RunInv' /\ QueueInv' /\ signalled' \subseteq { u \in WinThreads : winpc'[u] = "wait" }
    <3> HIDE DEF l
    <3> QED BY <2>1, QuietKeeps
  <2>3. WinTypeOK'
    <3>1. guardstarted' \in Int /\ winrun' \in Int /\ winpc[t] # "idle"
      BY <1>0, <2>1
    <3> HIDE DEF l
    <3> QED BY <1>0, <2>1, <2>2, <3>1, TypeKept
  <2>4. StartInv'
    <3>1. guardstarted >= -1 /\ guardstarted' >= 0
      BY <1>0, <2>1 DEF StartInv
    <3>2. \A u \in WinThreads : winpc'[u] = IF u = t THEN l ELSE winpc[u]
      BY <2>1 DEF WinGoto, WinTypeOK
    <3>3. l = "init" => guardstarted = -1 /\ ~done /\ \A u \in WinThreads : winpc[u] # "init"
      BY <1>0, <2>1, <3>1 DEF StartInv
    <3>4. \A u \in WinThreads : winpc'[u] = "init" => guardstarted' >= 0 /\ ~done'
      BY <2>1, <3>1, <3>2, <3>3 DEF StartInv
    <3>5. \A u, v \in WinThreads : winpc'[u] = "init" /\ winpc'[v] = "init" => u = v
      BY <3>2, <3>3 DEF StartInv
    <3>6. ~done' => winrun' = 0 /\ \A u \in WinThreads : winpc'[u] \in Starting
      BY <2>1, <3>2 DEF StartInv, Starting
    <3>7. guardstarted' >= -1
      BY <1>0, <2>1, <3>1
    <3> QED BY <3>1, <3>4, <3>5, <3>6, <3>7 DEF StartInv
  <2> QED BY <2>2, <2>3, <2>4
<1>3. CASE InitLock(t)
  <2>1. /\ winpc[t] \in Outside /\ "lock" \in Outside /\ "lock" \in WinLabels
        /\ winpc[t] = "init" /\ WinGoto(t, "lock") /\ signalled' = signalled
        /\ want' = want /\ winrun' = 0 /\ queue' = [op \in Ops |-> EmptyQueue]
        /\ done' = TRUE /\ guardstarted' = guardstarted /\ winprogram' = winprogram
    BY <1>3 DEF InitLock, Outside, WinLabels, Ops
  <2>2. /\ ~done /\ winrun = 0 /\ guardstarted >= 0
        /\ \A u \in WinThreads : winpc[u] \in Starting
    BY <2>1 DEF StartInv
  <2>3. /\ RunInv' /\ signalled' \subseteq { u \in WinThreads : winpc'[u] = "wait" }
        /\ \A op \in Ops : Asleep(op)' = Asleep(op)
    BY <2>1, <2>2, QuietKeeps
  <2>4. \A op \in Ops : Asleep(op)' = {}
    BY <2>2, <2>3 DEF Asleep, Starting
  <2>5. QueueInv'
    <3>1. \A op \in Ops : queue'[op] = EmptyQueue
      BY <2>1
    <3>2. EmptyQueue.count = 0 /\ Cardinality({}) = 0
      BY FS_EmptySet DEF EmptyQueue
    <3> QED BY <2>4, <3>1, <3>2, EmptyQueueOK DEF QueueInv
  <2>6. WinTypeOK'
    <3>1. DOMAIN queue' = Ops /\ queue' = [op \in Ops |-> queue'[op]]
      BY <2>1
    <3> QED BY <1>0, <2>1, <2>3, <2>5, <3>1, TypeKept
  <2>7. StartInv'
    <3>1. \A u \in WinThreads : winpc'[u] # "init"
      BY <2>1 DEF StartInv, WinGoto, WinTypeOK
    <3> QED BY <1>0, <2>1, <2>2, <3>1 DEF StartInv
  <2> QED BY <2>3, <2>5, <2>6, <2>7
<1>4. CASE Spin(t)
  <2>1. /\ winpc[t] \in Outside /\ "lock" \in Outside /\ "lock" \in WinLabels \ {"init"}
        /\ winpc[t] = "spin" /\ done /\ WinGoto(t, "lock") /\ signalled' = signalled
        /\ want' = want /\ winrun' = winrun /\ queue' = queue
        /\ done' = done /\ guardstarted' = guardstarted /\ winprogram' = winprogram
    BY <1>4 DEF Spin, guardvars, Outside, WinLabels
  <2>2. RunInv' /\ QueueInv' /\ signalled' \subseteq { u \in WinThreads : winpc'[u] = "wait" }
    BY <2>1, QuietKeeps
  <2>3. WinTypeOK'
    BY <1>0, <2>1, <2>2, TypeKept
  <2>4. StartInv'
    BY <2>1, StartKept
  <2> QED BY <2>2, <2>3, <2>4
<1>5. CASE WinLock(t)
  <2>1. PICK op \in Mine(t) : /\ MayRun(op) /\ want' = [want EXCEPT ![t] = op]
                              /\ winrun' = Entered(op)
    BY <1>5 DEF WinLock
  <2>2. /\ winpc[t] \in Outside /\ winpc[t] # "wait" /\ "hold" \in WinLabels \ {"init"} /\ done
        /\ WinGoto(t, "hold") /\ signalled' = signalled /\ queue' = queue
        /\ done' = done /\ guardstarted' = guardstarted /\ winprogram' = winprogram
    BY <1>5 DEF WinLock, AtLock, guardvars, Outside, WinLabels
  <2>3. op \in Ops
    BY <2>1, WhatTheyWant
  <2>4. QueueInv' /\ RunInv'
    BY <2>1, <2>2, <2>3, EnterKeeps
  <2>5. winrun' \in Int /\ signalled' \subseteq { u \in WinThreads : winpc'[u] = "wait" }
    BY <1>0, <2>1, <2>2 DEF Entered, WinGoto, WinTypeOK
  <2>6. WinTypeOK'
    BY <1>0, <2>1, <2>2, <2>3, <2>4, <2>5, TypeKept
  <2>7. StartInv'
    BY <2>2, StartKept
  <2> QED BY <2>4, <2>6, <2>7
<1>6. CASE WinWait(t)
  <2>1. PICK op \in Mine(t) : /\ ~MayRun(op) /\ want' = [want EXCEPT ![t] = op]
                              /\ queue' = [queue EXCEPT ![op] = Added(@, t)]
    BY <1>6 DEF WinWait
  <2>2. /\ winpc[t] \in Outside /\ winpc[t] # "wait" /\ "wait" \in WinLabels \ {"init"} /\ done
        /\ WinGoto(t, "wait") /\ signalled' = signalled /\ winrun' = winrun
        /\ done' = done /\ guardstarted' = guardstarted /\ winprogram' = winprogram
    BY <1>6 DEF WinWait, AtLock, guardvars, Outside, WinLabels
  <2>3. op \in Ops
    BY <2>1, WhatTheyWant
  <2>4. QueueInv' /\ RunInv'
    BY <2>1, <2>2, <2>3, WaitKeeps
  <2>5. signalled' \subseteq { u \in WinThreads : winpc'[u] = "wait" }
    BY <2>2 DEF WinGoto, WinTypeOK
  <2>6. DOMAIN queue' = Ops /\ queue' = [x \in Ops |-> queue'[x]]
    BY <1>0, <2>1
  <2>7. WinTypeOK'
    BY <1>0, <2>1, <2>2, <2>3, <2>4, <2>5, <2>6, TypeKept
  <2>8. StartInv'
    BY <2>2, StartKept
  <2> QED BY <2>4, <2>7, <2>8
<1>7. CASE CannotWait(t)
  <2>1. PICK op \in Mine(t) : /\ ~MayRun(op) /\ want' = [want EXCEPT ![t] = op]
                              /\ queue' \in {queue, [queue EXCEPT ![op] = Room(@)]}
    BY <1>7 DEF CannotWait
  <2>2. /\ winpc[t] \in Outside /\ "poll" \in Outside /\ "poll" \in WinLabels \ {"init"} /\ done
        /\ WinGoto(t, "poll") /\ signalled' = signalled /\ winrun' = winrun
        /\ done' = done /\ guardstarted' = guardstarted /\ winprogram' = winprogram
    BY <1>7 DEF CannotWait, AtLock, guardvars, Outside, WinLabels
  <2>3. op \in Ops
    BY <2>1, WhatTheyWant
  <2>4. /\ RunInv' /\ signalled' \subseteq { u \in WinThreads : winpc'[u] = "wait" }
        /\ \A x \in Ops : Asleep(x)' = Asleep(x)
        /\ queue' = queue => QueueInv'
    BY <2>1, <2>2, <2>3, QuietKeeps
  <2>5. QueueInv'
    <3>1. CASE queue' = queue
      BY <2>4, <3>1
    <3>2. CASE queue' = [queue EXCEPT ![op] = Room(@)]
      <4>1. queue'[op] = Room(queue[op]) /\ \A x \in Ops \ {op} : queue'[x] = queue[x]
        BY <1>0, <2>3, <3>2
      <4>2. /\ QueueOK(queue[op]) /\ Distinct(queue[op])
            /\ Events(queue[op]) = Asleep(op) /\ queue[op].count = Cardinality(Asleep(op))
        BY <2>3 DEF QueueInv
      <4>3. /\ QueueOK(Room(queue[op])) /\ Room(queue[op]).count = queue[op].count
            /\ \A i \in 0..(queue[op].count - 1) : Slot(Room(queue[op]), i) = Slot(queue[op], i)
        BY <4>2, RoomOK
      <4>4. queue[op].count \in Nat
        BY <4>2 DEF QueueOK
      <4>5. Distinct(Room(queue[op])) /\ Events(Room(queue[op])) = Events(queue[op])
        BY <4>2, <4>3, <4>4, SameSlots
      <4> QED BY <2>3, <2>4, <4>1, <4>2, <4>3, <4>5 DEF QueueInv
    <3> QED BY <2>1, <3>1, <3>2
  <2>6. DOMAIN queue' = Ops /\ queue' = [x \in Ops |-> queue'[x]]
    BY <1>0, <2>1
  <2>7. WinTypeOK'
    BY <1>0, <2>1, <2>2, <2>3, <2>4, <2>5, <2>6, TypeKept
  <2>8. StartInv'
    BY <2>2, StartKept
  <2> QED BY <2>4, <2>5, <2>7, <2>8
<1>8. CASE Poll(t)
  <2>1. /\ winpc[t] = "poll" /\ MayRun(want[t]) /\ winrun' = Entered(want[t])
        /\ winpc[t] \in Outside /\ "hold" \in WinLabels \ {"init"}
        /\ WinGoto(t, "hold") /\ signalled' = signalled /\ queue' = queue /\ want' = want
        /\ done' = done /\ guardstarted' = guardstarted /\ winprogram' = winprogram
    BY <1>8 DEF Poll, guardvars, Outside, WinLabels
  <2>2. done
    BY <2>1 DEF StartInv, Starting
  <2>3. want[t] \in Ops /\ want' = [want EXCEPT ![t] = want[t]]
    BY <2>1 DEF WinTypeOK
  <2>4. QueueInv' /\ RunInv'
    BY <2>1, <2>3, EnterKeeps
  <2>5. winrun' \in Int /\ signalled' \subseteq { u \in WinThreads : winpc'[u] = "wait" }
    BY <1>0, <2>1 DEF Entered, WinGoto, WinTypeOK
  <2>6. WinTypeOK'
    BY <1>0, <2>1, <2>3, <2>4, <2>5, TypeKept
  <2>7. StartInv'
    BY <2>1, <2>2, StartKept
  <2> QED BY <2>4, <2>6, <2>7
<1>9. CASE Awake(t)
  <2>1. /\ winpc[t] = "wait" /\ signalled' = signalled \ {t} /\ "hold" \in WinLabels \ {"init"}
        /\ winrun' = winrun /\ queue' = queue /\ want' = want
        /\ done' = done /\ guardstarted' = guardstarted /\ winprogram' = winprogram
    BY <1>9 DEF Awake, guardvars, WinLabels
  <2>2. done
    BY <2>1 DEF StartInv, Starting
  <2>3. WinGoto(t, "hold") /\ QueueInv' /\ RunInv'
    BY <1>9, AwakeKeeps
  <2>4. signalled' \subseteq { u \in WinThreads : winpc'[u] = "wait" }
    BY <2>1, <2>3 DEF WinGoto, WinTypeOK
  <2>5. WinTypeOK'
    BY <1>0, <2>1, <2>3, <2>4, TypeKept
  <2>6. StartInv'
    BY <2>1, <2>2, <2>3, StartKept
  <2> QED BY <2>3, <2>5, <2>6
<1>10. CASE WinUnlock(t)
  <2>1. /\ winpc[t] = "hold" /\ WinGoto(t, "idle") /\ "idle" \in WinLabels \ {"init"}
        /\ want' = [want EXCEPT ![t] = NoEvent]
        /\ done' = done /\ guardstarted' = guardstarted /\ winprogram' = winprogram
    BY <1>10 DEF WinUnlock, guardvars, WinLabels
  <2>2. done
    BY <2>1 DEF StartInv, Starting
  <2>3. QueueInv' /\ RunInv' /\ signalled' \subseteq { u \in WinThreads : winpc'[u] = "wait" }
    BY <1>10, UnlockKeeps
  <2>4. winrun' \in Int
    <3>1. Left \in Int
      BY <1>0 DEF Left
    <3>2. Counted \in Int
      BY <1>0 DEF WinTypeOK, Counted
    <3> QED BY <1>10, <3>1, <3>2 DEF WinUnlock
  <2>5. DOMAIN queue' = Ops /\ queue' = [x \in Ops |-> queue'[x]]
    BY <1>0, <1>10 DEF WinUnlock
  <2>6. WinTypeOK'
    BY <1>0, <2>1, <2>3, <2>4, <2>5, TypeKept
  <2>7. StartInv'
    BY <2>1, <2>2, StartKept
  <2> QED BY <2>3, <2>6, <2>7
<1> QED BY <1>1, <1>2, <1>3, <1>4, <1>5, <1>6, <1>7, <1>8, <1>9, <1>10 DEF Step

LEMMA WinStutters ==
  ASSUME WinInv, UNCHANGED winvars PROVE WinInv'
<1> USE DEF WinInv, winvars
<1>1. \A op \in Ops : Asleep(op)' = Asleep(op) /\ Runs(op)' = Runs(op)
  BY DEF Asleep, Runs, Holding, HandedTo
<1>2. QueueInv'
  BY <1>1, QueueKept
<1>3. \A t \in WinThreads : winpc'[t] # "abort"
  BY DEF RunInv
<1>4. RunInv'
  BY <1>1, <1>3, RunKept
<1>5. WinTypeOK'
  BY DEF WinTypeOK
<1>6. StartInv'
  BY DEF StartInv
<1> QED BY <1>2, <1>4, <1>5, <1>6

-----------------------------------------------------------------------------
(* The invariant holds in every state of the lock, from its lazy            *)
(* initialization on.                                                       *)
THEOREM WinInvariant == WinSpec => []WinInv
<1>1. WinInit => WinInv
  BY WinInitially
<1>2. WinInv /\ [WinNext]_winvars => WinInv'
  <2> SUFFICES ASSUME WinInv, [WinNext]_winvars PROVE WinInv'
    OBVIOUS
  <2>1. CASE WinNext
    BY <2>1, StepOfThread, StepKeeps DEF WinInv
  <2>2. CASE UNCHANGED winvars
    BY <2>2, WinStutters
  <2> QED BY <2>1, <2>2
<1> QED BY <1>1, <1>2, PTL DEF WinSpec

(* HandOver: the queues hold the threads that sleep, each once, however     *)
(* often the arrays have wrapped around and grown; whoever unlocks counts   *)
(* the threads it wakes; nobody sleeps while the lock is free; and nobody   *)
(* wakes up to find that it was not meant.                                  *)
THEOREM WinHandOver == WinSpec => []HandOver
<1>1. WinInv => HandOver
  BY InvariantSuffices
<1> QED BY <1>1, WinInvariant, PTL

-----------------------------------------------------------------------------
(* The refinement of RwLock.  A thread takes the abstract lock when it      *)
(* enters, by itself or when it wakes up.                                   *)

LEMMA WriterIs ==
  /\ Holding("wr") = {} => WinWriter = NoEvent
  /\ \A t \in WinThreads : Holding("wr") = {t} => WinWriter = t
BY DEF WinWriter, OneOf

LEMMA WriterIsNext ==
  /\ Holding("wr")' = {} => WinWriter' = NoEvent
  /\ \A t \in WinThreads : Holding("wr")' = {t} => WinWriter' = t
  /\ Holding("wr")' = Holding("wr") => WinWriter' = WinWriter
<1>1. OneOf({}) = NoEvent /\ \A t \in WinThreads : OneOf({t}) = t
  BY DEF OneOf
<1> QED BY <1>1 DEF WinWriter

LEMMA OneWriter ==
  ASSUME WinInv, NEW t \in Runs("wr")
  PROVE  t \in WinThreads /\ Runs("wr") = {t} /\ Runs("rd") = {} /\ Holding("wr") \subseteq {t}
<1>1. t \in WinThreads /\ Runs("wr") \in SUBSET WinThreads
  BY Subsets DEF WinInv
<1>2. Runs("wr") \ {t} \in SUBSET WinThreads
  BY <1>1
<1>3. Cardinality(Runs("wr") \ {t}) = Cardinality(Runs("wr")) - 1 /\ Cardinality(Runs("wr")) \in Nat
  BY <1>1, Size
<1>4. Cardinality(Runs("wr") \ {t}) = 0
  <2>1. Cardinality(Runs("wr") \ {t}) \in Nat
    BY <1>2, Size
  <2>2. Cardinality(Runs("wr")) <= 1
    BY DEF WinInv, RunInv
  <2> QED BY <1>3, <2>1, <2>2
<1>5. Runs("wr") \ {t} = {}
  BY <1>2, <1>4, Size
<1>6. Runs("wr") = {t} /\ Runs("rd") = {}
  BY <1>5 DEF WinInv, RunInv
<1> QED BY <1>1, <1>6 DEF Runs

(* The thread takes the lock: nobody else runs, or it and others read.      *)
LEMMA TakesLock ==
  ASSUME NEW t \in WinThreads, NEW o \in Ops,
         o = "rd" => Holding("wr") = {}, o = "wr" => Holding("wr") = {} /\ Holding("rd") = {},
         t \notin Holding(o), Holding(o)' = Holding(o) \cup {t},
         \A op \in Ops \ {o} : Holding(op)' = Holding(op)
  PROVE  WinAbstract!RdLock(t) \/ WinAbstract!WrLock(t)
<1>1. CASE o = "rd"
  <2>1. Holding("wr")' = Holding("wr") /\ Holding("wr") = {}
    BY <1>1 DEF Ops
  <2>2. WinWriter = NoEvent /\ WinWriter' = WinWriter
    BY <2>1, WriterIs, WriterIsNext
  <2>3. t \notin Holding("rd") /\ Holding("rd")' = Holding("rd") \cup {t}
    BY <1>1
  <2> QED BY <2>2, <2>3 DEF WinAbstract!RdLock
<1>2. CASE o = "wr"
  <2>1. Holding("wr") = {} /\ Holding("rd") = {} /\ Holding("wr")' = {t} /\ Holding("rd")' = Holding("rd")
    BY <1>2 DEF Ops
  <2>2. WinWriter = NoEvent /\ WinWriter' = t
    BY <2>1, WriterIs, WriterIsNext
  <2> QED BY <2>1, <2>2 DEF WinAbstract!WrLock
<1> QED BY <1>1, <1>2 DEF Ops

LEMMA MayRunAlone ==
  ASSUME WinInv, NEW o \in Ops, MayRun(o)
  PROVE  Runs("wr") = {} /\ (o = "wr" => Runs("rd") = {})
<1>1. \A op \in Ops : /\ Cardinality(Runs(op)) \in Nat
                      /\ Cardinality(Runs(op)) = 0 <=> Runs(op) = {}
  BY Subsets, Size DEF WinInv
<1>2. "rd" \in Ops /\ "wr" \in Ops
  BY DEF Ops
<1>3. /\ winrun = Cardinality(Runs("rd")) - Cardinality(Runs("wr"))
      /\ Runs("rd") = {} \/ Runs("wr") = {}
  BY DEF WinInv, RunInv
<1>4. CASE o = "rd"
  <2>1. winrun + 1 > 0
    BY <1>4 DEF MayRun
  <2> QED BY <1>1, <1>2, <1>3, <1>4, <2>1
<1>5. CASE o = "wr"
  <2>1. winrun = 0
    BY <1>5 DEF MayRun
  <2> QED BY <1>1, <1>2, <1>3, <2>1
<1> QED BY <1>4, <1>5 DEF Ops

LEMMA EnterImplements ==
  ASSUME WinInv, NEW t \in WinThreads, NEW o \in Ops, MayRun(o),
         winpc[t] \in Outside, WinGoto(t, "hold"), signalled' = signalled,
         want' = [want EXCEPT ![t] = o]
  PROVE  WinAbstract!RdLock(t) \/ WinAbstract!WrLock(t)
<1>1. /\ \A op \in Ops : t \notin Holding(op)
      /\ \A op \in Ops \ {o} : Holding(op)' = Holding(op)
      /\ Holding(o)' = Holding(o) \cup {t}
  BY EnterSets DEF WinInv
<1>2. Holding("wr") = {} /\ (o = "wr" => Holding("rd") = {})
  BY MayRunAlone DEF Runs
<1> QED BY <1>1, <1>2, TakesLock

LEMMA StepImplements ==
  ASSUME WinInv, NEW t \in WinThreads, Step(t)
  PROVE  \/ WinAbstract!RdLock(t) \/ WinAbstract!WrLock(t) \/ WinAbstract!Unlock(t)
         \/ UNCHANGED <<Holding("rd"), WinWriter>>
<1> USE DEF WinInv
<1>0. "rd" \in Ops /\ "wr" \in Ops
  BY DEF Ops
<1>1. ASSUME NEW l \in Outside, winpc[t] \in Outside, WinGoto(t, l), signalled' = signalled,
             want' = want \/ \E op \in Ops : want' = [want EXCEPT ![t] = op]
      PROVE  UNCHANGED <<Holding("rd"), WinWriter>>
  BY <1>0, <1>1, QuietSets, WriterIsNext
<1>2. CASE \E op \in Ops : FirstUse(t, op)
  <2>1. PICK op \in Ops : FirstUse(t, op)
    BY <1>2
  <2>2. /\ "increment" \in Outside /\ winpc[t] \in Outside /\ WinGoto(t, "increment")
        /\ signalled' = signalled /\ want' = [want EXCEPT ![t] = op]
    BY <2>1 DEF FirstUse, Outside
  <2> QED BY <1>1, <2>2
<1>3. CASE Increment(t)
  <2> DEFINE l == IF guardstarted' = 0 THEN "init" ELSE "spin"
  <2>1. /\ l \in Outside /\ winpc[t] \in Outside /\ WinGoto(t, l)
        /\ signalled' = signalled /\ want' = want
    BY <1>3 DEF Increment, Outside
  <2> HIDE DEF l
  <2> QED BY <1>1, <2>1
<1>4. CASE InitLock(t)
  <2>1. /\ "lock" \in Outside /\ winpc[t] \in Outside /\ WinGoto(t, "lock")
        /\ signalled' = signalled /\ want' = want
    BY <1>4 DEF InitLock, Outside
  <2> QED BY <1>1, <2>1
<1>5. CASE Spin(t)
  <2>1. /\ "lock" \in Outside /\ winpc[t] \in Outside /\ WinGoto(t, "lock")
        /\ signalled' = signalled /\ want' = want
    BY <1>5 DEF Spin, Outside
  <2> QED BY <1>1, <2>1
<1>6. CASE WinLock(t)
  <2>1. PICK op \in Mine(t) : MayRun(op) /\ want' = [want EXCEPT ![t] = op]
    BY <1>6 DEF WinLock
  <2>2. op \in Ops /\ winpc[t] \in Outside /\ WinGoto(t, "hold") /\ signalled' = signalled
    BY <1>6, <2>1, WhatTheyWant DEF WinLock, AtLock, Outside
  <2> QED BY <2>1, <2>2, EnterImplements
<1>7. CASE WinWait(t)
  <2>1. PICK op \in Mine(t) : want' = [want EXCEPT ![t] = op]
    BY <1>7 DEF WinWait
  <2>2. op \in Ops /\ winpc[t] \in Outside /\ WinGoto(t, "wait") /\ signalled' = signalled
    BY <1>7, <2>1, WhatTheyWant DEF WinWait, AtLock, Outside
  <2> QED BY <1>0, <2>1, <2>2, WaitSets, WriterIsNext
<1>8. CASE CannotWait(t)
  <2>1. PICK op \in Mine(t) : want' = [want EXCEPT ![t] = op]
    BY <1>8 DEF CannotWait
  <2>2. /\ op \in Ops /\ winpc[t] \in Outside /\ "poll" \in Outside
        /\ WinGoto(t, "poll") /\ signalled' = signalled
    BY <1>8, <2>1, WhatTheyWant DEF CannotWait, AtLock, Outside
  <2> QED BY <1>1, <2>1, <2>2
<1>9. CASE Poll(t)
  <2>1. /\ winpc[t] \in Outside /\ MayRun(want[t]) /\ WinGoto(t, "hold")
        /\ signalled' = signalled /\ want' = want
    BY <1>9 DEF Poll, Outside
  <2>2. want[t] \in Ops /\ want' = [want EXCEPT ![t] = want[t]]
    BY <1>9, <2>1 DEF WinTypeOK, Poll
  <2> QED BY <2>1, <2>2, EnterImplements
<1>10. CASE Awake(t)
  <2>1. /\ winpc[t] = "wait" /\ t \in signalled /\ signalled' = signalled \ {t}
        /\ want' = want
    BY <1>10 DEF Awake
  <2>2. WinGoto(t, "hold")
    BY <1>10, AwakeKeeps
  <2>0. PICK o \in Ops : o = want[t]
    BY <2>1 DEF WinTypeOK
  <2>3. /\ t \in Runs(o) /\ t \notin Holding(o)
        /\ \A op \in Ops \ {o} : Holding(op)' = Holding(op)
        /\ Holding(o)' = Holding(o) \cup {t}
    BY <2>0, <2>1, <2>2, AwakeSets
  <2>4. o = "rd" => Holding("wr") = {}
    BY <2>3 DEF RunInv, Runs
  <2>5. o = "wr" => Holding("wr") = {} /\ Holding("rd") = {}
    <3> SUFFICES ASSUME o = "wr" PROVE Holding("wr") = {} /\ Holding("rd") = {}
      OBVIOUS
    <3>1. t \in Runs("wr") /\ t \notin Holding("wr")
      BY <2>3
    <3>2. Runs("rd") = {} /\ Holding("wr") \subseteq {t}
      BY <3>1, OneWriter
    <3> QED BY <3>1, <3>2 DEF Runs
  <2> QED BY <2>3, <2>4, <2>5, TakesLock
<1>11. CASE WinUnlock(t)
  <2>1. /\ winpc[t] = "hold" /\ WinGoto(t, "idle") /\ want' = [want EXCEPT ![t] = NoEvent]
    BY <1>11 DEF WinUnlock
  <2>2. \A u \in WinThreads \ {t} : winpc'[u] = winpc[u] /\ want'[u] = want[u]
    BY <2>1 DEF WinTypeOK, WinGoto
  <2>3. winpc'[t] = "idle" /\ want[t] \in Ops
    BY <2>1 DEF WinTypeOK, WinGoto
  <2>4. \A op \in Ops : Holding(op)' = Holding(op) \ {t}
    BY <2>2, <2>3 DEF Holding
  <2>5. CASE want[t] = "rd"
    <3>1. t \in Holding("rd") /\ t \notin Holding("wr")
      BY <2>1, <2>5 DEF Holding
    <3>2. Holding("rd")' = Holding("rd") \ {t} /\ Holding("wr")' = Holding("wr")
      BY <1>0, <2>4, <3>1
    <3> QED BY <3>1, <3>2, WriterIsNext DEF WinAbstract!Unlock
  <2>6. CASE want[t] = "wr"
    <3>1. t \in Holding("wr") /\ t \notin Holding("rd")
      BY <2>1, <2>6 DEF Holding
    <3>2. t \in Runs("wr")
      BY <3>1 DEF Runs
    <3>3. Holding("wr") = {t}
      BY <3>1, <3>2, OneWriter
    <3>4. Holding("wr")' = {} /\ Holding("rd")' = Holding("rd")
      BY <1>0, <2>4, <3>1, <3>3
    <3> QED BY <3>3, <3>4, WriterIs, WriterIsNext DEF WinAbstract!Unlock
  <2> QED BY <2>3, <2>5, <2>6 DEF Ops
<1> QED BY <1>2, <1>3, <1>4, <1>5, <1>6, <1>7, <1>8, <1>9, <1>10, <1>11 DEF Step

(* WinImplementsRwLock: a lock that is handed over without ever being free  *)
(* is a read-write lock, from its lazy initialization on.                   *)
THEOREM WinLockImplements == WinSpec => WinImplementsRwLock
<1>1. WinInit => WinAbstract!Init
  BY WriterIs DEF WinInit, WinAbstract!Init, Holding
<1>2. WinInv /\ [WinNext]_winvars => [WinAbstract!Next]_<<Holding("rd"), WinWriter>>
  <2> SUFFICES ASSUME WinInv, [WinNext]_winvars
               PROVE  [WinAbstract!Next]_<<Holding("rd"), WinWriter>>
    OBVIOUS
  <2>1. CASE WinNext
    <3>1. PICK t \in WinThreads : Step(t)
      BY <2>1, StepOfThread DEF WinInv
    <3>2. \/ WinAbstract!RdLock(t) \/ WinAbstract!WrLock(t) \/ WinAbstract!Unlock(t)
          \/ UNCHANGED <<Holding("rd"), WinWriter>>
      BY <3>1, StepImplements
    <3> QED BY <3>2 DEF WinAbstract!Next
  <2>2. CASE UNCHANGED winvars
    <3>1. Holding("rd")' = Holding("rd") /\ Holding("wr")' = Holding("wr")
      BY <2>2 DEF winvars, Holding
    <3> QED BY <3>1, WriterIsNext
  <2> QED BY <2>1, <2>2
<1> QED BY <1>1, <1>2, WinInvariant, PTL DEF WinSpec, WinImplementsRwLock, WinAbstract!Spec

(***************************************************************************)
(* Once objects.                                                           *)
(***************************************************************************)

Points ==
  {"idle", "returned", "call", "running", "unlock", "increment", "enter", "open", "say",
   "decrement", "spin", "lock", "retest"}

OnceTypeOK ==
  /\ flavor \in OnceFlavors
  /\ inited \in {-1, 0, 1} /\ started \in Int
  /\ oncelock \in OnceThreads \cup {NoHolder}
  /\ oncepc \in [OnceThreads -> Points]
  /\ calls \in {0, 1} /\ finished \in BOOLEAN

(* Win32.  The first thread, from the increment that told it so until it    *)
(* has left the critical section.                                           *)
First(t) == oncepc[t] \in {"enter", "open", "call", "running", "say", "unlock"}
Decrementing == {t \in OnceThreads : oncepc[t] = "decrement"}

(* The counter counts the threads that have incremented it in vain, and the *)
(* first one for ever.                                                      *)
CountInv ==
  IF inited = -1 /\ \A t \in OnceThreads : ~First(t)
  THEN started = -1 /\ Decrementing = {}
  ELSE started = Cardinality(Decrementing)

(* How far the first thread is.                                             *)
FirstInv ==
  /\ \A s, t \in OnceThreads : First(s) /\ First(t) => s = t
  /\ \A t \in OnceThreads :
       /\ oncepc[t] \in {"enter", "open"} => inited = -1 /\ calls = 0
       /\ oncepc[t] = "call" => inited = 0 /\ calls = 0
       /\ oncepc[t] = "running" => inited = 0 /\ calls = 1
       /\ oncepc[t] = "say" => inited = 0 /\ finished = TRUE
       /\ oncepc[t] = "unlock" => inited = 1
       /\ oncepc[t] \in {"retest", "returned"} => inited >= 0
       /\ oncepc[t] = "returned" => finished = TRUE
       /\ oncepc[t] # "lock"
       /\ First(t) /\ oncepc[t] # "enter" => oncelock = t
  /\ inited = -1 => calls = 0
  /\ inited = 0 => \E t \in OnceThreads : oncepc[t] \in {"call", "running", "say"}
  /\ inited = 1 => finished = TRUE

Win32Inv == flavor = "win32" => CountInv /\ FirstInv

(* Solaris.  One thread at a time is behind the mutex.                      *)
SolarisInv ==
  flavor = "solaris" =>
    /\ \A t \in OnceThreads :
         /\ oncepc[t] \in {"retest", "call", "running", "unlock"} => oncelock = t
         /\ oncepc[t] = "call" => inited = 1 /\ calls = 0
         /\ oncepc[t] \notin {"enter", "open", "say", "increment", "decrement", "spin"}
    /\ inited >= 0
    /\ inited = 0 => calls = 0

OnceInv == OnceTypeOK /\ Win32Inv /\ SolarisInv

-----------------------------------------------------------------------------
LEMMA OnceInitially == OnceInit => OnceInv
<1> SUFFICES ASSUME OnceInit PROVE OnceInv
  OBVIOUS
<1>1. OnceTypeOK
  <2>1. finished \in BOOLEAN
    BY Zenon DEF OnceInit
  <2>2. inited \in {-1, 0, 1} /\ started \in Int /\ calls \in {0, 1}
    BY DEF OnceInit
  <2>3. oncepc \in [OnceThreads -> Points]
    BY DEF OnceInit, Points
  <2>4. flavor \in OnceFlavors /\ oncelock \in OnceThreads \cup {NoHolder}
    BY DEF OnceInit
  <2> QED BY <2>1, <2>2, <2>3, <2>4 DEF OnceTypeOK
<1>2. \A t \in OnceThreads : oncepc[t] = "idle" /\ ~First(t)
  BY DEF OnceInit, First
<1>3. Win32Inv
  <2> SUFFICES ASSUME flavor = "win32" PROVE CountInv /\ FirstInv
    BY DEF Win32Inv
  <2>1. inited = -1 /\ started = -1 /\ calls = 0
    BY DEF OnceInit
  <2>2. Decrementing = {}
    BY <1>2 DEF Decrementing
  <2>3. CountInv
    BY <1>2, <2>1, <2>2 DEF CountInv
  <2>4. FirstInv
    BY <1>2, <2>1 DEF FirstInv
  <2> QED BY <2>3, <2>4
<1>4. SolarisInv
  BY <1>2 DEF OnceInit, SolarisInv
<1> QED BY <1>1, <1>3, <1>4 DEF OnceInv

(* A step of a thread that changes neither the set of the threads that have *)
(* to decrement nor what the count depends on.                              *)
LEMMA CountKept ==
  ASSUME CountInv, OnceTypeOK, started' = started,
         \A t \in OnceThreads : oncepc[t] = "decrement" <=> oncepc'[t] = "decrement",
         (inited = -1 /\ \A t \in OnceThreads : ~First(t))
           <=> (inited = -1 /\ \A t \in OnceThreads : ~First(t))'
  PROVE  CountInv'
<1>1. Decrementing' = Decrementing
  BY DEF Decrementing
<1> QED BY <1>1 DEF CountInv

LEMMA OnceTypeKept == OnceTypeOK /\ Win32Inv /\ SolarisInv /\ OnceNext => OnceTypeOK'
<1> SUFFICES ASSUME OnceTypeOK, Win32Inv, SolarisInv,
                    NEW t \in OnceThreads,
                    \/ TestInited(t) \/ OnceReturn(t) \/ CallInitfunction(t)
                    \/ InitfunctionReturns(t) \/ OnceUnlock(t) \/ InterlockedIncrement(t)
                    \/ EnterFirst(t) \/ OpenLock(t) \/ SayInited(t)
                    \/ InterlockedDecrement(t) \/ SpinUntilOpen(t) \/ WaitForFirst(t)
                    \/ LockOnce(t) \/ RetestInited(t)
             PROVE  OnceTypeOK'
  BY DEF OnceNext
<1> USE DEF OnceTypeOK, Points, OnceAt, OnceGoto, initfunction
<1>1. CASE TestInited(t) BY <1>1 DEF TestInited
<1>2. CASE OnceReturn(t) BY <1>2 DEF OnceReturn
<1>3. CASE CallInitfunction(t)
  <2>1. calls = 0
    BY <1>3, OnceAssumption DEF CallInitfunction, Win32Inv, SolarisInv, FirstInv
  <2> QED BY <2>1, <1>3 DEF CallInitfunction
<1>4. CASE InitfunctionReturns(t) BY <1>4 DEF InitfunctionReturns
<1>5. CASE OnceUnlock(t) BY <1>5 DEF OnceUnlock
<1>6. CASE InterlockedIncrement(t) BY <1>6 DEF InterlockedIncrement
<1>7. CASE EnterFirst(t) BY <1>7 DEF EnterFirst
<1>8. CASE OpenLock(t) BY <1>8 DEF OpenLock
<1>9. CASE SayInited(t) BY <1>9 DEF SayInited
<1>10. CASE InterlockedDecrement(t) BY <1>10 DEF InterlockedDecrement
<1>11. CASE SpinUntilOpen(t) BY <1>11 DEF SpinUntilOpen
<1>12. CASE WaitForFirst(t) BY <1>12 DEF WaitForFirst
<1>13. CASE LockOnce(t) BY <1>13 DEF LockOnce
<1>14. CASE RetestInited(t) BY <1>14 DEF RetestInited
<1> QED BY <1>1, <1>2, <1>3, <1>4, <1>5, <1>6, <1>7, <1>8, <1>9, <1>10, <1>11, <1>12, <1>13,
           <1>14

(* Win32: the first thread goes its way alone.                              *)
LEMMA FirstKept ==
  ASSUME OnceTypeOK, flavor = "win32", CountInv, FirstInv, OnceNext
  PROVE  FirstInv'
<1>1. PICK t \in OnceThreads :
        \/ TestInited(t) \/ OnceReturn(t) \/ CallInitfunction(t)
        \/ InitfunctionReturns(t) \/ OnceUnlock(t) \/ InterlockedIncrement(t)
        \/ EnterFirst(t) \/ OpenLock(t) \/ SayInited(t)
        \/ InterlockedDecrement(t) \/ SpinUntilOpen(t) \/ WaitForFirst(t)
        \/ LockOnce(t) \/ RetestInited(t)
  BY DEF OnceNext
<1> USE DEF FirstInv, First, OnceTypeOK, Points, OnceAt, OnceGoto, initfunction
<1>2. CASE TestInited(t) BY <1>2 DEF TestInited
<1>3. CASE OnceReturn(t) BY <1>3 DEF OnceReturn
<1>4. CASE CallInitfunction(t) BY <1>4 DEF CallInitfunction
<1>5. CASE InitfunctionReturns(t) BY <1>5 DEF InitfunctionReturns
<1>6. CASE OnceUnlock(t) BY <1>6, OnceAssumption DEF OnceUnlock
<1>7. CASE InterlockedIncrement(t)
  <2>1. CASE started' # 0 BY <2>1, <1>7 DEF InterlockedIncrement
  <2>2. CASE started' = 0
    <3>1. started = -1
      BY <2>2, <1>7 DEF InterlockedIncrement
    <3>2. Cardinality(Decrementing) \in Nat
      <4>1. IsFiniteSet(Decrementing)
        BY OnceAssumption, FS_Subset DEF Decrementing
      <4> QED BY <4>1, FS_CardinalityType
    <3>3. inited = -1 /\ \A s \in OnceThreads : ~First(s)
      BY <3>1, <3>2 DEF CountInv
    <3> QED BY <3>3, <2>2, <1>7 DEF InterlockedIncrement
  <2> QED BY <2>1, <2>2
<1>8. CASE EnterFirst(t) BY <1>8 DEF EnterFirst
<1>9. CASE OpenLock(t) BY <1>9 DEF OpenLock
<1>10. CASE SayInited(t) BY <1>10 DEF SayInited
<1>11. CASE InterlockedDecrement(t) BY <1>11 DEF InterlockedDecrement
<1>12. CASE SpinUntilOpen(t) BY <1>12 DEF SpinUntilOpen, Opened
<1>13. CASE WaitForFirst(t)
  (* As long as the first thread has not finished it holds the lock.        *)
  <2>1. inited = 1
    BY <1>13, OnceAssumption DEF WaitForFirst
  <2> QED BY <2>1, <1>13 DEF WaitForFirst
<1>14. CASE LockOnce(t) BY <1>14 DEF LockOnce
<1>15. CASE RetestInited(t) BY <1>15 DEF RetestInited
<1> QED BY <1>1, <1>2, <1>3, <1>4, <1>5, <1>6, <1>7, <1>8, <1>9, <1>10, <1>11, <1>12, <1>13,
           <1>14, <1>15

(* Win32: what the counter counts.                                          *)
LEMMA CountStays ==
  ASSUME OnceTypeOK, OnceTypeOK', flavor = "win32", CountInv, FirstInv, OnceNext
  PROVE  CountInv'
<1>1. PICK t \in OnceThreads :
        \/ TestInited(t) \/ OnceReturn(t) \/ CallInitfunction(t)
        \/ InitfunctionReturns(t) \/ OnceUnlock(t) \/ InterlockedIncrement(t)
        \/ EnterFirst(t) \/ OpenLock(t) \/ SayInited(t)
        \/ InterlockedDecrement(t) \/ SpinUntilOpen(t) \/ WaitForFirst(t)
        \/ LockOnce(t) \/ RetestInited(t)
  BY DEF OnceNext
<1>2. IsFiniteSet(Decrementing)
  BY OnceAssumption, FS_Subset DEF Decrementing
<1>3. Cardinality(Decrementing) \in Nat
  BY <1>2, FS_CardinalityType
<1>4. CASE InterlockedIncrement(t)
  <2>1. t \notin Decrementing /\ inited' = inited
    BY <1>4 DEF InterlockedIncrement, Decrementing, OnceAt
  <2>2. CASE started' = 0
    <3>1. started = -1
      BY <2>2, <1>4 DEF InterlockedIncrement, OnceTypeOK
    <3>2. Decrementing = {}
      BY <3>1, <1>3 DEF CountInv
    <3>3. Decrementing' = {}
      BY <3>2, <2>2, <1>4 DEF InterlockedIncrement, Decrementing, OnceGoto, OnceTypeOK
    <3>4. First(t)'
      BY <2>2, <1>4 DEF InterlockedIncrement, OnceGoto, OnceTypeOK, First
    <3> QED BY <3>3, <3>4, <2>2, FS_EmptySet DEF CountInv
  <2>3. CASE started' # 0
    <3>1. Decrementing' = Decrementing \cup {t}
      BY <2>3, <1>4 DEF InterlockedIncrement, Decrementing, OnceGoto, OnceTypeOK
    <3>2. Cardinality(Decrementing') = Cardinality(Decrementing) + 1
      BY <3>1, <2>1, <1>2, FS_AddElement
    <3>3. \A s \in OnceThreads : First(s) <=> First(s)'
      BY <2>3, <1>4 DEF InterlockedIncrement, First, OnceAt, OnceGoto, OnceTypeOK
    <3>4. started # -1
      BY <2>3, <1>4 DEF InterlockedIncrement, OnceTypeOK
    <3>5. started = Cardinality(Decrementing) /\ started' = started + 1
      BY <3>4, <1>4 DEF CountInv, InterlockedIncrement
    <3> QED BY <3>2, <3>3, <3>4, <3>5, <2>1 DEF CountInv
  <2> QED BY <2>2, <2>3
<1>5. CASE InterlockedDecrement(t)
  <2>1. t \in Decrementing
    BY <1>5 DEF InterlockedDecrement, Decrementing, OnceAt
  <2>2. Decrementing' = Decrementing \ {t}
    BY <1>5 DEF InterlockedDecrement, Decrementing, OnceGoto, OnceTypeOK
  <2>3. Cardinality(Decrementing') = Cardinality(Decrementing) - 1
    BY <2>1, <2>2, <1>2, FS_RemoveElement
  <2>4. started = Cardinality(Decrementing) /\ started' = started - 1
    BY <2>1, <1>5 DEF CountInv, InterlockedDecrement
  <2>5. \A s \in OnceThreads : First(s) <=> First(s)'
    BY <1>5 DEF InterlockedDecrement, First, OnceAt, OnceGoto, OnceTypeOK
  <2>6. inited' = inited
    BY <1>5 DEF InterlockedDecrement
  <2> QED BY <2>1, <2>3, <2>4, <2>5, <2>6 DEF CountInv
<1>6. CASE ~InterlockedIncrement(t) /\ ~InterlockedDecrement(t)
  <2>1. started' = started
    BY <1>1, <1>6 DEF TestInited, OnceReturn, CallInitfunction, InitfunctionReturns, OnceUnlock,
      EnterFirst, OpenLock, SayInited, SpinUntilOpen, WaitForFirst, LockOnce, RetestInited
  <2>2. \A s \in OnceThreads : oncepc[s] = "decrement" <=> oncepc'[s] = "decrement"
    BY <1>1, <1>6 DEF TestInited, OnceReturn, CallInitfunction, InitfunctionReturns, OnceUnlock,
      EnterFirst, OpenLock, SayInited, SpinUntilOpen, WaitForFirst, LockOnce, RetestInited,
      OnceAt, OnceGoto, OnceTypeOK
  <2>3. (inited = -1 /\ \A s \in OnceThreads : ~First(s))
           <=> (inited = -1 /\ \A s \in OnceThreads : ~First(s))'
    BY <1>1, <1>6 DEF TestInited, OnceReturn, CallInitfunction, InitfunctionReturns, OnceUnlock,
      EnterFirst, OpenLock, SayInited, SpinUntilOpen, WaitForFirst, LockOnce, RetestInited,
      OnceAt, OnceGoto, OnceTypeOK, First, FirstInv
  <2> QED BY <2>1, <2>2, <2>3, CountKept
<1> QED BY <1>4, <1>5, <1>6

(* Solaris: the mutex lets one thread at a time test the flag.              *)
LEMMA SolarisKept ==
  ASSUME OnceTypeOK, flavor = "solaris", SolarisInv, OnceNext
  PROVE  SolarisInv'
<1>1. PICK t \in OnceThreads :
        \/ TestInited(t) \/ OnceReturn(t) \/ CallInitfunction(t)
        \/ InitfunctionReturns(t) \/ OnceUnlock(t) \/ InterlockedIncrement(t)
        \/ EnterFirst(t) \/ OpenLock(t) \/ SayInited(t)
        \/ InterlockedDecrement(t) \/ SpinUntilOpen(t) \/ WaitForFirst(t)
        \/ LockOnce(t) \/ RetestInited(t)
  BY DEF OnceNext
<1> USE DEF SolarisInv, OnceTypeOK, Points, OnceAt, OnceGoto, initfunction
<1>2. CASE TestInited(t) BY <1>2 DEF TestInited
<1>3. CASE OnceReturn(t) BY <1>3 DEF OnceReturn
<1>4. CASE CallInitfunction(t) BY <1>4 DEF CallInitfunction
<1>5. CASE InitfunctionReturns(t) BY <1>5 DEF InitfunctionReturns
<1>6. CASE OnceUnlock(t) BY <1>6, OnceAssumption DEF OnceUnlock
<1>7. CASE InterlockedIncrement(t) BY <1>7 DEF InterlockedIncrement
<1>8. CASE EnterFirst(t) BY <1>8 DEF EnterFirst
<1>9. CASE OpenLock(t) BY <1>9 DEF OpenLock
<1>10. CASE SayInited(t) BY <1>10 DEF SayInited
<1>11. CASE InterlockedDecrement(t) BY <1>11 DEF InterlockedDecrement
<1>12. CASE SpinUntilOpen(t) BY <1>12 DEF SpinUntilOpen
<1>13. CASE WaitForFirst(t) BY <1>13 DEF WaitForFirst
<1>14. CASE LockOnce(t) BY <1>14, OnceAssumption DEF LockOnce
<1>15. CASE RetestInited(t) BY <1>15 DEF RetestInited
<1> QED BY <1>1, <1>2, <1>3, <1>4, <1>5, <1>6, <1>7, <1>8, <1>9, <1>10, <1>11, <1>12, <1>13,
           <1>14, <1>15

LEMMA OnceStep == OnceInv /\ [OnceNext]_oncevars => OnceInv'
<1> SUFFICES ASSUME OnceInv, [OnceNext]_oncevars PROVE OnceInv'
  OBVIOUS
<1>1. CASE OnceNext
  <2>1. OnceTypeOK'
    BY <1>1, OnceTypeKept DEF OnceInv
  <2>2. flavor' = flavor
    BY <1>1 DEF OnceNext, TestInited, OnceReturn, CallInitfunction, InitfunctionReturns,
      OnceUnlock, InterlockedIncrement, EnterFirst, OpenLock, SayInited, InterlockedDecrement,
      SpinUntilOpen, WaitForFirst, LockOnce, RetestInited
  <2>3. Win32Inv'
    BY <1>1, <2>1, <2>2, FirstKept, CountStays DEF OnceInv, Win32Inv
  <2>4. SolarisInv'
    <3>1. CASE flavor = "solaris"
      BY <3>1, <1>1, SolarisKept DEF OnceInv
    <3>2. CASE flavor # "solaris"
      BY <3>2, <2>2 DEF SolarisInv
    <3> QED BY <3>1, <3>2
  <2> QED BY <2>1, <2>3, <2>4 DEF OnceInv
<1>2. CASE UNCHANGED oncevars
  <2>1. Decrementing' = Decrementing /\ \A t : First(t)' <=> First(t)
    BY <1>2 DEF oncevars, initfunction, Decrementing, First
  <2> QED BY <2>1, <1>2 DEF oncevars, initfunction, OnceInv, OnceTypeOK, Win32Inv, SolarisInv,
    CountInv, FirstInv
<1> QED BY <1>1, <1>2

(* On Win32 and on Solaris the initialization function is called once, by   *)
(* whichever of any number of threads is the first.  On Win32 nobody        *)
(* returns from gl_once before it has returned; of Solaris this is not      *)
(* said, where lock.c:607 lets a latecomer go on during the initialization. *)
THEOREM OnceIsSound == OnceSpec => []OnceSound
<1>1. OnceInv => OnceSound
  BY OnceAssumption DEF OnceInv, OnceTypeOK, Win32Inv, FirstInv, OnceSound, InitFinished, OnceAt
<1> QED BY <1>1, OnceInitially, OnceStep, PTL DEF OnceSpec
=============================================================================
