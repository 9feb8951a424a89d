------------------------- MODULE DcigettextService --------------------------
(***************************************************************************)
(* Dcigettext implements GettextService.  The variable says is what the    *)
(* settings say, and the history variable past collects what they have     *)
(* said; a call begins when it gets the lock, is answered when the result  *)
(* is read from the cache or found by the search, and ends when the lock   *)
(* is released.                                                            *)
(***************************************************************************)
EXTENDS Dcigettext

VARIABLES
  says,   \* Says, kept as a variable
  past

\* What a full search may find for every key under the settings in force.
Says == [k \in Keys |-> InForce(k)]

HInit == Init /\ says = Says /\ past = {Says}
HNext == Next /\ says' = Says' /\ past' = past \cup {says'}
HSpec == HInit /\ [][HNext]_<<vars, says, past>>
HFairSpec == HSpec /\ Fairness

Status(t) ==
  CASE pc[t] = "enter" -> "called"
    [] pc[t] \in {"lookup", "tfind", "check", "hit", "resolve", "search"} -> "begun"
    [] pc[t] \in {"found", "insert", "tsearch", "update", "leave"} -> "answered"
    [] OTHER -> "idle"

Calls == [t \in Threads |->
            [status |-> Status(t),
             key    |-> CASE Status(t) = "idle"   -> Null
                          [] Status(t) = "called" ->
                               [msgid |-> args[t].msgid, domainname |-> args[t].domainname,
                                localename |-> args[t].localename]
                          [] OTHER -> Key(t),
             answer |-> IF Status(t) = "answered" THEN result[t] ELSE Null]]

Service == INSTANCE GettextService
             WITH default <- defaultDomain.name, calls <- Calls,
                  Answers <- Results

(* Whatever the cache, the counter and the in-place updates do, a caller   *)
(* sees the service: catalog and string of an answer are each of a         *)
(* translation in force, unless the call shares the message with another   *)
(* one that is in progress.                                                *)
ImplementsService == Service!Spec
=============================================================================
