----------------------------- MODULE FindMsgInv -----------------------------
(***************************************************************************)
(* The inductive invariant of FindMsg.                                     *)
(***************************************************************************)
EXTENDS FindMsg

Labels == {"idle", "find", "finddata", "load", "open", "decide", "msg", "msgdata",
           "conversion", "new", "return"} \cup Using

Results == {Null, NoMemory} \cup [file : Files, encoding : Encodings \cup {Null}]

TypeOK ==
  /\ decided \in [Files -> {-1, 0, 1}]
  /\ data \in [Files -> {"none", "fresh", "complete"}]
  /\ loadLock \in Threads \cup {Null}
  /\ pc \in [Threads -> Labels]
  /\ file \in [Threads -> Files \cup {Null}]
  /\ back \in [Threads -> {"finddata", "msgdata"}]
  /\ charset \in Encodings
  /\ first \in [Threads -> Files \cup {Null}]
  /\ todo \in [Threads -> Seq(Files)]
  /\ encoding \in [Threads -> Encodings \cup {Null}]
  /\ convd \in [Threads -> Nat]
  /\ result \in [Threads -> Results]
  /\ conversions \in [Files -> Seq(Elements)]
  /\ \A t \in Threads :
       pc[t] # "idle" => file[t] \in Files /\ first[t] \in Files /\ encoding[t] \in Encodings

-----------------------------------------------------------------------------
(* Loading.                                                                *)

\* One file is being loaded while the lock is held, else none.
LoaderInv ==
  /\ loadLock = Null => \A f \in Files : decided[f] # -1
  /\ loadLock # Null =>
       /\ pc[loadLock] \in {"open", "msg", "load", "msgdata", "decide"}
       /\ decided[file[loadLock]] = -1
       /\ \A f \in Files : f # file[loadLock] => decided[f] # -1
       /\ pc[loadLock] \in {"msg", "load", "msgdata"} => data[file[loadLock]] = "fresh"
  /\ \A t \in Threads : pc[t] \in {"open", "decide"} => loadLock = t

\* What decided says of data.
DecidedInv ==
  \A f \in Files : /\ decided[f] = 0 => data[f] = "none"
                   /\ decided[f] = 1 => data[f] \in {"none", "complete"}

\* Who has passed the test of decided, except the loader, works with a file
\* that is decided.
PassedInv ==
  \A t \in Threads :
    /\ pc[t] \in {"finddata", "msgdata"} /\ loadLock # t => decided[file[t]] = 1
    /\ pc[t] \in InUse => decided[file[t]] = 1 /\ data[file[t]] = "complete"

LoadInv == TypeOK /\ LoaderInv /\ DecidedInv /\ PassedInv

-----------------------------------------------------------------------------
(* Conversion.                                                             *)

\* convd is the index of the element for the encoding of the lookup.
ConvdInv ==
  \A t \in Threads : pc[t] \in Using =>
    /\ convd[t] \in DOMAIN conversions[file[t]]
    /\ conversions[file[t]][convd[t]].encoding = encoding[t]

\* Whoever is about to convert has a table to put the string into.
TabInv ==
  \A t \in Threads : pc[t] \in {"lock", "convert"} =>
    conversions[file[t]][convd[t]].conv_tab \in {"empty", "full"}

\* Without locales of their own all threads use one charset, and then no
\* table is moved while it is used.
CharsetInv ==
  ~ Uselocale => /\ \A t \in Threads : pc[t] # "idle" => encoding[t] = charset
                 /\ dangling = {}

\* There is no answer before the return.
ResultInv == \A t \in Threads : pc[t] # "return" => result[t] = Null

ConversionInv ==
  ConvdInv /\ TabInv /\ UniqueEncodings /\ CharsetInv /\ ResultInv /\ AnswerEncoded

IInv == LoadInv /\ ConversionInv
=============================================================================
