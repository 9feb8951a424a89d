----------------------------- MODULE LoadMsgCat -----------------------------
(***************************************************************************)
(* The loading of message catalogs (gettext-runtime/intl/loadmsgcat.c).    *)
(*                                                                         *)
(* A file of the list of loaded domains is loaded by the first thread that *)
(* wants it, under a lock that is recursive because the loading ends with  *)
(* a look at the header entry of the catalog, by _nl_find_msg, which asks  *)
(* for the catalog to be loaded.  decided tells the others to wait.        *)
(*                                                                         *)
(* FindMsg adds the rest of _nl_find_msg and its callers.                  *)
(***************************************************************************)
EXTENDS Integers, Sequences

CONSTANTS Threads, Files, Null,
          Catalogs   \* the files that are valid catalogs

ASSUME LoadAssumption ==
  /\ Catalogs \subseteq Files
  /\ Null \notin Threads

VARIABLES
  decided,   \* of each file: 0, -1 while it is loaded, 1
  data,      \* of each file: "none", "fresh", or "complete" with the plural formula
  loadLock,  \* the thread that holds the lock of _nl_load_domain, or Null
  pc,        \* where each thread is
  file,      \* the file it works on, or Null
  back       \* where it goes on after _nl_load_domain

loadVars == <<decided, data, loadLock>>

LoadInit ==
  /\ decided = [f \in Files |-> 0]
  /\ data = [f \in Files |-> "none"]
  /\ loadLock = Null
  /\ pc = [t \in Threads |-> "idle"]
  /\ file = [t \in Threads |-> Null]
  /\ back = [t \in Threads |-> "finddata"]

Goto(t, label) == pc' = [pc EXCEPT ![t] = label]
Loading(t)     == loadLock = t

(* if (decided <= 0) _nl_load_domain (...), on the way to label.  Only     *)
(* _nl_find_msg is called again by the thread that loads.                  *)
EnsureLoaded(t, label) ==
  /\ IF decided[file[t]] <= 0
     THEN /\ Goto(t, "load")
          /\ back' = IF Loading(t) THEN back ELSE [back EXCEPT ![t] = label]
     ELSE Goto(t, label) /\ UNCHANGED back
  /\ UNCHANGED <<loadVars, file>>

(* The lock is taken and decided tested; if there is nothing left to do,   *)
(* the lock is released at once.                                           *)
MayLoadMutant(t) == loadLock = Null
MayLoad(t) == loadLock \in {Null, t}

UndecidedMutant(f) == TRUE
Undecided(f) == decided[f] = 0

InProgressMutant == 1
InProgress == -1

LoadDomain(t) ==
  /\ pc[t] = "load"
  /\ MayLoad(t)
  /\ \/ /\ Undecided(file[t])
        /\ decided' = [decided EXCEPT ![file[t]] = InProgress]
        /\ data' = [data EXCEPT ![file[t]] = "none"]
        /\ loadLock' = t
        /\ Goto(t, "open")
     \/ /\ decided[file[t]] # 0
        /\ Goto(t, IF Loading(t) THEN "msgdata" ELSE back[t])
        /\ UNCHANGED loadVars
  /\ UNCHANGED <<file, back>>

(* The file is opened and read, and the tables are set up; it may be       *)
(* missing or invalid, or memory may be short.  A loaded catalog is        *)
(* searched for its header.                                                *)
ReadCatalog(t) ==
  /\ pc[t] = "open"
  /\ \/ Goto(t, "decide") /\ UNCHANGED data
     \/ /\ file[t] \in Catalogs
        /\ data' = [data EXCEPT ![file[t]] = "fresh"]
        /\ Goto(t, "msg")
  /\ UNCHANGED <<decided, loadLock, file, back>>

WithPlural(d) == IF d = "none" THEN "none" ELSE "complete"

(* The plural formula is extracted from the header, or the default one is  *)
(* taken, and everybody may use the catalog.                               *)
Decide(t) ==
  /\ pc[t] = "decide"
  /\ data' = [data EXCEPT ![file[t]] = WithPlural(@)]
  /\ decided' = [decided EXCEPT ![file[t]] = 1]
  /\ loadLock' = Null
  /\ Goto(t, back[t])
  /\ UNCHANGED <<file, back>>

Load(t) == LoadDomain(t) \/ ReadCatalog(t) \/ Decide(t)
=============================================================================
