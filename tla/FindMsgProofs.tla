---------------------------- MODULE FindMsgProofs ----------------------------
(***************************************************************************)
(* The lookup in the catalogs, proved for any threads, catalogs and        *)
(* charsets: IInv is inductive, and the safety properties of FindMsg       *)
(* follow from it.                                                         *)
(***************************************************************************)
EXTENDS FindMsgInv, SequenceTheorems, TLAPS

-----------------------------------------------------------------------------
(* The pieces of the actions.                                              *)

\* The steps that change only where a thread is, and what its locals are.
Others(t) == \A u \in Threads : u # t => pc'[u] = pc[u] /\ file'[u] = file[u]

LEMMA SameThread ==
  ASSUME TypeOK, NEW t \in Threads, NEW label, NEW f,
         Goto(t, label), UNCHANGED file \/ file' = [file EXCEPT ![t] = f]
  PROVE  pc'[t] = label /\ Others(t)
BY DEF TypeOK, Goto, Others

\* decided is tested before _nl_load_domain is called.
LEMMA EnsureLoadedMoves ==
  ASSUME TypeOK, NEW t \in Threads, NEW label \in {"finddata", "msgdata"},
         file[t] \in Files, EnsureLoaded(t, label)
  PROVE  /\ pc' \in [Threads -> Labels]
         /\ back' \in [Threads -> {"finddata", "msgdata"}]
         /\ Others(t)
         /\ UNCHANGED <<loadVars, file>>
         /\ \/ pc'[t] = "load"
            \/ pc'[t] = label /\ decided[file[t]] = 1
<1>1. CASE decided[file[t]] <= 0
  BY <1>1 DEF TypeOK, EnsureLoaded, Goto, Labels, Others
<1>2. CASE ~ (decided[file[t]] <= 0)
  <2>1. decided[file[t]] \in {-1, 0, 1}
    BY DEF TypeOK
  <2>2. decided[file[t]] = 1
    BY <1>2, <2>1
  <2> QED  BY <1>2, <2>2 DEF TypeOK, EnsureLoaded, Goto, Labels, Others
<1> QED  BY <1>1, <1>2

\* The next file to try is a file.
LEMMA TryNextMoves ==
  ASSUME TypeOK, NEW t \in Threads, file[t] \in Files, TryNext(t)
  PROVE  /\ pc' \in [Threads -> Labels]
         /\ file' \in [Threads -> Files \cup {Null}]
         /\ todo' \in [Threads -> Seq(Files)]
         /\ file'[t] \in Files
         /\ pc'[t] \in {"msg", "return"}
         /\ Others(t)
<1>1. todo[t] \in Seq(Files)
  BY DEF TypeOK
<1>2. CASE todo[t] = <<>>
  BY <1>2 DEF TypeOK, TryNext, Goto, Labels, Others
<1>3. CASE todo[t] # <<>>
  <2>1. Head(todo[t]) \in Files /\ Tail(todo[t]) \in Seq(Files)
    BY <1>1, <1>3, HeadTailProperties
  <2>2. /\ Goto(t, "msg")
        /\ file' = [file EXCEPT ![t] = Head(todo[t])]
        /\ todo' = [todo EXCEPT ![t] = Tail(todo[t])]
    BY <1>3 DEF TryNext
  <2> QED  BY <2>1, <2>2 DEF TypeOK, Goto, Labels, Others
<1> QED  BY <1>2, <1>3

\* An answer is one of Results.
LEMMA AnswerMoves ==
  ASSUME TypeOK, NEW t \in Threads, NEW answer \in Results, Answer(t, answer)
  PROVE  /\ pc' \in [Threads -> Labels]
         /\ convd' \in [Threads -> Nat]
         /\ result' \in [Threads -> Results]
         /\ pc'[t] = "return"
         /\ result'[t] = answer
         /\ \A u \in Threads : u # t => /\ pc'[u] = pc[u]
                                        /\ convd'[u] = convd[u]
                                        /\ result'[u] = result[u]
BY DEF TypeOK, Answer, Goto, Labels

\* Only conv_tab of the element is set.
LEMMA SetTabKeeps ==
  ASSUME TypeOK, ConvdInv, NEW t \in Threads, pc[t] \in Using,
         NEW tab \in {"null", "failed", "empty", "full"}, SetTab(t, tab)
  PROVE  /\ conversions' \in [Files -> Seq(Elements)]
         /\ \A f \in Files :
              /\ DOMAIN conversions'[f] = DOMAIN conversions[f]
              /\ \A i \in DOMAIN conversions[f] :
                   /\ conversions'[f][i].encoding = conversions[f][i].encoding
                   /\ conversions'[f][i].conv = conversions[f][i].conv
                   /\ conversions'[f][i].conv_tab =
                        IF f = file[t] /\ i = convd[t] THEN tab
                        ELSE conversions[f][i].conv_tab
<1> DEFINE f == file[t]
           i == convd[t]
           new == [conversions[f][i] EXCEPT !.conv_tab = tab]
           table == [conversions[f] EXCEPT ![i] = new]
<1>1. f \in Files /\ i \in DOMAIN conversions[f] /\ conversions[f] \in Seq(Elements)
  BY DEF TypeOK, ConvdInv, Using
<1>2. conversions[f][i] \in Elements
  BY <1>1, ElementOfSeq
<1>3. /\ new \in Elements
      /\ new.encoding = conversions[f][i].encoding
      /\ new.conv = conversions[f][i].conv
      /\ new.conv_tab = tab
  BY <1>2 DEF Elements
<1>4. table \in Seq(Elements) /\ DOMAIN table = DOMAIN conversions[f]
  BY <1>1, <1>3, ExceptSeq
<1>5. conversions' = [conversions EXCEPT ![f] = table]
  BY DEF SetTab
<1>6. conversions' \in [Files -> Seq(Elements)]
  BY <1>1, <1>4, <1>5 DEF TypeOK
<1>7. ASSUME NEW g \in Files
      PROVE  conversions'[g] = IF g = f THEN table ELSE conversions[g]
  BY <1>5 DEF TypeOK
<1> HIDE DEF table, new
<1>8. \A j \in DOMAIN conversions[f] : table[j] = IF j = i THEN new ELSE conversions[f][j]
  BY <1>1 DEF table
<1> QED  BY <1>3, <1>4, <1>6, <1>7, <1>8
-----------------------------------------------------------------------------
(* What the steps leave alone.                                             *)

\* A step of a thread that neither loads nor begins to.
LEMMA LoadKept ==
  ASSUME LoadInv, NEW t \in Threads, UNCHANGED loadVars, Others(t), loadLock # t,
         pc'[t] \notin {"open", "decide"},
         pc'[t] \in {"finddata", "msgdata"} => decided[file'[t]] = 1,
         pc'[t] \in InUse => decided[file'[t]] = 1 /\ data[file'[t]] = "complete"
  PROVE  (LoaderInv /\ DecidedInv /\ PassedInv)'
<1>1. UNCHANGED <<decided, data, loadLock>>
  BY DEF loadVars
<1>2. loadLock # Null => loadLock \in Threads /\ pc'[loadLock] = pc[loadLock]
                         /\ file'[loadLock] = file[loadLock]
  BY DEF LoadInv, TypeOK, Others
<1>3. LoaderInv'
  BY <1>1, <1>2 DEF LoadInv, LoaderInv, Others
<1>4. DecidedInv'
  BY <1>1 DEF LoadInv, DecidedInv
<1>5. PassedInv'
  BY <1>1 DEF LoadInv, PassedInv, Others
<1> QED  BY <1>3, <1>4, <1>5

\* A step in _nl_find_msg, after the file has been found to be complete.
LEMMA LoadUntouched ==
  ASSUME IInv, NEW t \in Threads, pc[t] \in InUse, UNCHANGED loadVars, Others(t),
         \/ pc'[t] \in InUse /\ file'[t] = file[t]
         \/ pc'[t] \in {"msg", "return"}
  PROVE  (LoaderInv /\ DecidedInv /\ PassedInv)'
<1>1. loadLock # t
  <2>1. loadLock = t => loadLock # Null
    BY LoadAssumption
  <2> QED  BY <2>1 DEF IInv, LoadInv, LoaderInv, InUse, Using
<1>2. decided[file[t]] = 1 /\ data[file[t]] = "complete"
  BY DEF IInv, LoadInv, PassedInv
<1>3. pc'[t] \notin {"open", "decide", "finddata", "msgdata"}
  BY DEF InUse, Using
<1>4. pc'[t] \in InUse => file'[t] = file[t]
  BY DEF InUse, Using
<1> QED  BY <1>1, <1>2, <1>3, <1>4, LoadKept DEF IInv

\* A step before the table of conversions is looked at.
LEMMA ConversionUntouched ==
  ASSUME IInv, NEW t \in Threads,
         UNCHANGED <<charset, encoding, convd, result, conversions, dangling>>,
         Others(t), pc[t] \notin {"idle", "return"}, pc'[t] \notin Using
  PROVE  ConversionInv'
<1> USE DEF Others
<1>1. ConvdInv'
  BY DEF IInv, ConversionInv, ConvdInv
<1>2. TabInv'
  <2>1. pc'[t] \notin {"lock", "convert"}
    BY DEF Using
  <2> QED  BY <2>1 DEF IInv, ConversionInv, TabInv
<1>3. UniqueEncodings'
  BY DEF IInv, ConversionInv, UniqueEncodings
<1>4. CharsetInv'
  BY DEF IInv, ConversionInv, CharsetInv
<1>5. result'[t] = Null
  BY DEF IInv, ConversionInv, ResultInv
<1>6. ResultInv'
  BY <1>5 DEF IInv, ConversionInv, ResultInv
<1>7. AnswerEncoded'
  BY <1>5 DEF IInv, ConversionInv, AnswerEncoded
<1> QED  BY <1>1, <1>2, <1>3, <1>4, <1>6, <1>7 DEF ConversionInv

\* A step in _nl_find_msg that does not change the tables of strings.
LEMMA TablesUntouched ==
  ASSUME IInv, NEW t \in Threads,
         UNCHANGED <<charset, encoding, conversions, dangling>>,
         Others(t), pc[t] \in InUse,
         \A u \in Threads : u # t => convd'[u] = convd[u] /\ result'[u] = result[u],
         pc'[t] \in Using => /\ file'[t] = file[t]
                             /\ convd'[t] \in DOMAIN conversions[file[t]]
                             /\ conversions[file[t]][convd'[t]].encoding = encoding[t],
         pc'[t] \in {"lock", "convert"} =>
           conversions[file[t]][convd'[t]].conv_tab \in {"empty", "full"},
         pc'[t] # "return" => result'[t] = Null,
         pc'[t] = "return" /\ result'[t] \notin {Null, NoMemory} =>
           result'[t].encoding \in {encoding[t], Null}
  PROVE  ConversionInv'
<1> USE DEF Others
<1>1. ConvdInv'
  BY DEF IInv, ConversionInv, ConvdInv
<1>2. TabInv'
  <2>1. pc'[t] \in {"lock", "convert"} => pc'[t] \in Using
    BY DEF Using
  <2> QED  BY <2>1 DEF IInv, ConversionInv, TabInv
<1>3. UniqueEncodings'
  BY DEF IInv, ConversionInv, UniqueEncodings
<1>4. CharsetInv'
  <2>1. pc[t] # "idle"
    BY DEF InUse, Using
  <2> QED  BY <2>1 DEF IInv, ConversionInv, CharsetInv
<1>6. ResultInv'
  BY DEF IInv, ConversionInv, ResultInv
<1>7. AnswerEncoded'
  BY DEF IInv, ConversionInv, AnswerEncoded
<1> QED  BY <1>1, <1>2, <1>3, <1>4, <1>6, <1>7 DEF ConversionInv
-----------------------------------------------------------------------------
(* From file to file.                                                      *)

\* Whoever loads is in _nl_load_domain or below.
LEMMA LoaderIsLoading ==
  ASSUME IInv, NEW t \in Threads, loadLock = t
  PROVE  /\ pc[t] \in {"open", "msg", "load", "msgdata", "decide"}
         /\ file[t] \in Files /\ decided[file[t]] = -1
         /\ pc[t] \in {"msg", "load", "msgdata"} => data[file[t]] = "fresh"
<1>1. loadLock # Null
  BY LoadAssumption
<1> QED  BY <1>1 DEF IInv, LoadInv, TypeOK, LoaderInv

LEMMA CallKeeps ==
  ASSUME IInv, NEW t \in Threads, Call(t)
  PROVE  IInv'
<1>1. PICK f \in Files, enc \in IF Uselocale THEN Encodings ELSE {charset} :
        /\ first' = [first EXCEPT ![t] = f]
        /\ file' = [file EXCEPT ![t] = f]
        /\ todo' = [todo EXCEPT ![t] = Successors[f]]
        /\ encoding' = [encoding EXCEPT ![t] = enc]
  BY DEF Call
<1>2. /\ pc[t] = "idle" /\ Goto(t, "find") /\ enc \in Encodings
      /\ UNCHANGED <<loadVars, back, charset, convd, result, conversions, dangling>>
  BY DEF Call, tableVars, IInv, LoadInv, TypeOK
<1>3. TypeOK /\ Others(t) /\ pc'[t] = "find"
  BY <1>1, <1>2, SameThread DEF IInv, LoadInv
<1>4. TypeOK'
  <2>1. Successors[f] \in Seq(Files)
    BY FindMsgAssumption
  <2>2. /\ pc' \in [Threads -> Labels] /\ file' \in [Threads -> Files \cup {Null}]
        /\ first' \in [Threads -> Files \cup {Null}] /\ todo' \in [Threads -> Seq(Files)]
        /\ encoding' \in [Threads -> Encodings \cup {Null}]
    BY <1>1, <1>2, <1>3, <2>1 DEF TypeOK, Goto, Labels
  <2>3. \A u \in Threads : pc'[u] # "idle" =>
          file'[u] \in Files /\ first'[u] \in Files /\ encoding'[u] \in Encodings
    BY <1>1, <1>2, <1>3 DEF TypeOK, Others
  <2> QED  BY <1>2, <1>3, <2>2, <2>3 DEF TypeOK, loadVars
<1>5. (LoaderInv /\ DecidedInv /\ PassedInv)'
  <2>1. loadLock # t
    BY <1>2, LoaderIsLoading
  <2> QED  BY <1>2, <1>3, <2>1, LoadKept DEF IInv, InUse, Using
<1>6. ConversionInv'
  <2> USE DEF IInv, ConversionInv
  <2>1. \A u \in Threads : u # t => encoding'[u] = encoding[u]
    BY <1>1, <1>3 DEF TypeOK
  <2>2. ConvdInv' /\ TabInv'
    BY <1>2, <1>3, <2>1 DEF ConvdInv, TabInv, Using, Others
  <2>3. UniqueEncodings'
    BY <1>2 DEF UniqueEncodings
  <2>4. CharsetInv'
    BY <1>1, <1>2, <1>3, <2>1 DEF CharsetInv, Others, TypeOK
  <2>5. ResultInv' /\ AnswerEncoded'
    BY <1>2, <1>3, <2>1 DEF ResultInv, AnswerEncoded, Others
  <2> QED  BY <2>2, <2>3, <2>4, <2>5
<1> QED  BY <1>4, <1>5, <1>6 DEF IInv, LoadInv

LEMMA FindDomainKeeps ==
  ASSUME IInv, NEW t \in Threads, FindDomain(t)
  PROVE  IInv'
<1>1. /\ pc[t] = "find" /\ EnsureLoaded(t, "finddata")
      /\ UNCHANGED <<charset, first, todo, encoding, convd, result, conversions, dangling>>
  BY DEF FindDomain, localVars, tableVars
<1>2. TypeOK /\ file[t] \in Files
  BY <1>1 DEF IInv, LoadInv, TypeOK
<1>3. /\ pc' \in [Threads -> Labels] /\ back' \in [Threads -> {"finddata", "msgdata"}]
      /\ Others(t) /\ UNCHANGED <<loadVars, file>>
      /\ pc'[t] = "load" \/ (pc'[t] = "finddata" /\ decided[file[t]] = 1)
  BY <1>1, <1>2, EnsureLoadedMoves
<1>4. TypeOK'
  BY <1>1, <1>2, <1>3 DEF TypeOK, loadVars, Others
<1>5. (LoaderInv /\ DecidedInv /\ PassedInv)'
  <2>1. loadLock # t
    BY <1>1, LoaderIsLoading
  <2> QED  BY <1>3, <2>1, LoadKept DEF IInv, InUse, Using
<1>6. ConversionInv'
  BY <1>1, <1>3, ConversionUntouched DEF Using
<1> QED  BY <1>4, <1>5, <1>6 DEF IInv, LoadInv

LEMMA FindDomainDataKeeps ==
  ASSUME IInv, NEW t \in Threads, FindDomainData(t)
  PROVE  IInv'
<1>1. /\ pc[t] = "finddata" /\ UNCHANGED <<loadVars, back, first>>
      /\ UNCHANGED <<charset, encoding, convd, result, conversions, dangling>>
  BY DEF FindDomainData, tableVars
<1>2. TypeOK /\ first[t] \in Files /\ todo[t] \in Seq(Files)
  BY <1>1 DEF IInv, LoadInv, TypeOK
<1>3. PICK f \in Files, rest \in Seq(Files), label \in {"msg", "find"} :
        /\ file' = [file EXCEPT ![t] = f]
        /\ todo' = [todo EXCEPT ![t] = rest]
        /\ Goto(t, label)
  <2>1. todo[t] # <<>> => Head(todo[t]) \in Files /\ Tail(todo[t]) \in Seq(Files)
    BY <1>2, HeadTailProperties
  <2>2. Successors[first[t]] \in Seq(Files)
    BY <1>2, FindMsgAssumption
  <2> QED  BY <1>2, <2>1, <2>2 DEF FindDomainData
<1>4. Others(t) /\ pc'[t] = label
  BY <1>2, <1>3, SameThread
<1>5. TypeOK'
  <2>1. /\ pc' \in [Threads -> Labels] /\ file' \in [Threads -> Files \cup {Null}]
        /\ todo' \in [Threads -> Seq(Files)] /\ file'[t] = f
    BY <1>2, <1>3 DEF TypeOK, Goto, Labels
  <2> QED  BY <1>1, <1>2, <1>4, <2>1 DEF TypeOK, loadVars, Others
<1>6. (LoaderInv /\ DecidedInv /\ PassedInv)'
  <2>1. loadLock # t
    BY <1>1, LoaderIsLoading
  <2> QED  BY <1>1, <1>4, <2>1, LoadKept DEF IInv, InUse, Using
<1>7. ConversionInv'
  BY <1>1, <1>4, ConversionUntouched DEF Using
<1> QED  BY <1>5, <1>6, <1>7 DEF IInv, LoadInv

LEMMA ReturnKeeps ==
  ASSUME IInv, NEW t \in Threads, Return(t)
  PROVE  IInv'
<1>1. /\ pc[t] = "return" /\ Goto(t, "idle")
      /\ UNCHANGED <<loadVars, charset, convd, conversions, dangling>>
  BY DEF Return, tableVars
<1>2. TypeOK /\ Others(t) /\ pc'[t] = "idle"
  BY <1>1, SameThread DEF IInv, LoadInv, Return
<1>3. TypeOK'
  <2>1. <<>> \in Seq(Files)
    BY EmptySeq
  <2>2. /\ pc' \in [Threads -> Labels] /\ file' \in [Threads -> Files \cup {Null}]
        /\ first' \in [Threads -> Files \cup {Null}]
        /\ todo' \in [Threads -> Seq(Files)]
        /\ encoding' \in [Threads -> Encodings \cup {Null}]
        /\ result' \in [Threads -> Results]
        /\ back' \in [Threads -> {"finddata", "msgdata"}]
    BY <1>1, <1>2, <2>1 DEF TypeOK, Return, Goto, Labels, Results
  <2>3. \A u \in Threads : u # t => first'[u] = first[u] /\ encoding'[u] = encoding[u]
    BY <1>2 DEF Return, TypeOK
  <2> QED  BY <1>1, <1>2, <2>2, <2>3 DEF TypeOK, loadVars, Others
<1>4. (LoaderInv /\ DecidedInv /\ PassedInv)'
  <2>1. loadLock # t
    BY <1>1, LoaderIsLoading
  <2> QED  BY <1>1, <1>2, <2>1, LoadKept DEF IInv, InUse, Using
<1>5. ConversionInv'
  <2> USE DEF IInv, ConversionInv
  <2>1. /\ result'[t] = Null
        /\ \A u \in Threads : u # t => encoding'[u] = encoding[u] /\ result'[u] = result[u]
    BY <1>2 DEF Return, TypeOK
  <2>2. ConvdInv' /\ TabInv'
    BY <1>1, <1>2, <2>1 DEF ConvdInv, TabInv, Using, Others
  <2>3. UniqueEncodings'
    BY <1>1 DEF UniqueEncodings
  <2>4. CharsetInv'
    BY <1>1, <1>2, <2>1 DEF CharsetInv, Others
  <2>5. ResultInv' /\ AnswerEncoded'
    BY <1>2, <2>1 DEF ResultInv, AnswerEncoded, Others
  <2> QED  BY <2>2, <2>3, <2>4, <2>5
<1> QED  BY <1>3, <1>4, <1>5 DEF IInv, LoadInv

LEMMA SetCharsetKeeps ==
  ASSUME IInv, SetCharset
  PROVE  IInv'
<1>1. /\ \A t \in Threads : pc[t] = "idle"
      /\ UNCHANGED <<decided, data, loadLock, pc, file, back, first, todo, encoding,
                     convd, result, conversions, dangling>>
      /\ charset' \in Encodings
  BY DEF SetCharset, loadVars, localVars, tableVars
<1>2. TypeOK'
  BY <1>1 DEF IInv, LoadInv, TypeOK
<1>3. LoaderInv' /\ DecidedInv' /\ PassedInv'
  BY <1>1 DEF IInv, LoadInv, LoaderInv, DecidedInv, PassedInv
<1>4. /\ ConvdInv' /\ TabInv' /\ UniqueEncodings'
      /\ ResultInv' /\ AnswerEncoded'
  BY <1>1 DEF IInv, ConversionInv, ConvdInv, TabInv, UniqueEncodings, ResultInv, AnswerEncoded
<1>5. CharsetInv'
  BY <1>1 DEF IInv, ConversionInv, CharsetInv
<1> QED  BY <1>2, <1>3, <1>4, <1>5 DEF IInv, LoadInv, ConversionInv
-----------------------------------------------------------------------------
(* The loader.                                                             *)

\* The loader comes here too, to look at the header.
LEMMA FindMsgKeeps ==
  ASSUME IInv, NEW t \in Threads, FindMsg(t)
  PROVE  IInv'
<1>1. /\ pc[t] = "msg" /\ EnsureLoaded(t, "msgdata")
      /\ UNCHANGED <<charset, first, todo, encoding, convd, result, conversions, dangling>>
  BY DEF FindMsg, localVars, tableVars
<1>2. TypeOK /\ file[t] \in Files
  BY <1>1 DEF IInv, LoadInv, TypeOK
<1>3. /\ pc' \in [Threads -> Labels] /\ back' \in [Threads -> {"finddata", "msgdata"}]
      /\ Others(t) /\ UNCHANGED <<decided, data, loadLock, file>>
      /\ pc'[t] = "load" \/ (pc'[t] = "msgdata" /\ decided[file[t]] = 1)
  BY <1>1, <1>2, EnsureLoadedMoves DEF loadVars
<1>4. TypeOK'
  BY <1>1, <1>2, <1>3 DEF TypeOK, Others
<1>5. LoaderInv'
  <2>1. loadLock = t => pc'[t] = "load" /\ data[file[t]] = "fresh"
    BY <1>1, <1>3, LoaderIsLoading
  <2>2. pc'[t] \notin {"open", "decide"}
    BY <1>3
  <2>3. loadLock # Null => loadLock \in Threads
    BY <1>2 DEF TypeOK
  <2> QED  BY <1>3, <2>1, <2>2, <2>3 DEF IInv, LoadInv, LoaderInv, Others
<1>6. DecidedInv'
  BY <1>3 DEF IInv, LoadInv, DecidedInv
<1>7. PassedInv'
  BY <1>3 DEF IInv, LoadInv, PassedInv, InUse, Using, Others
<1>8. ConversionInv'
  BY <1>1, <1>3, ConversionUntouched DEF Using
<1> QED  BY <1>4, <1>5, <1>6, <1>7, <1>8 DEF IInv, LoadInv

\* The loader gets the header; the others go on with a file that is decided.
LEMMA LocateKeeps ==
  ASSUME IInv, NEW t \in Threads, Locate(t)
  PROVE  IInv'
<1>1. /\ pc[t] = "msgdata" /\ UNCHANGED <<decided, data, loadLock, back, first>>
      /\ UNCHANGED <<charset, encoding, convd, result, conversions, dangling>>
  BY DEF Locate, loadVars, tableVars
<1>2. TypeOK /\ file[t] \in Files
  BY <1>1 DEF IInv, LoadInv, TypeOK
<1>3. /\ pc' \in [Threads -> Labels] /\ file' \in [Threads -> Files \cup {Null}]
      /\ todo' \in [Threads -> Seq(Files)] /\ file'[t] \in Files /\ Others(t)
      /\ \/ loadLock = t /\ pc'[t] = "decide" /\ file'[t] = file[t]
         \/ /\ loadLock # t /\ data[file[t]] # "none"
            /\ pc'[t] = "conversion" /\ file'[t] = file[t]
         \/ loadLock # t /\ pc'[t] \in {"msg", "return"}
  <2>1. CASE Loading(t) /\ Goto(t, "decide") /\ UNCHANGED <<file, todo>>
    BY <1>2, <2>1 DEF TypeOK, Goto, Labels, Loading, Others
  <2>2. CASE /\ ~ Loading(t) /\ data[file[t]] # "none"
             /\ Goto(t, "conversion") /\ UNCHANGED <<file, todo>>
    BY <1>2, <2>2 DEF TypeOK, Goto, Labels, Loading, Others
  <2>3. CASE ~ Loading(t) /\ TryNext(t)
    BY <1>2, <2>3, TryNextMoves DEF Loading
  <2> QED  BY <2>1, <2>2, <2>3 DEF Locate
<1>4. TypeOK'
  BY <1>1, <1>2, <1>3 DEF TypeOK, Others
<1>5. LoaderInv' /\ DecidedInv' /\ PassedInv'
  <2>1. CASE loadLock = t
    <3>1. pc'[t] = "decide" /\ UNCHANGED file
      <4>1. ~ (loadLock # t)
        BY <2>1
      <4> QED  BY <1>1, <2>1 DEF Locate, Loading, Goto, IInv, LoadInv, TypeOK
    <3>2. LoaderInv' /\ DecidedInv'
      BY <1>1, <1>3, <2>1, <3>1 DEF IInv, LoadInv, LoaderInv, DecidedInv, Others
    <3>3. PassedInv'
      BY <1>1, <1>3, <3>1 DEF IInv, LoadInv, PassedInv, InUse, Using, Others
    <3> QED  BY <3>2, <3>3
  <2>2. CASE loadLock # t
    <3>1. decided[file[t]] = 1 /\ data[file[t]] \in {"none", "complete"}
      BY <1>1, <1>2, <2>2 DEF IInv, LoadInv, PassedInv, DecidedInv
    <3> QED  BY <1>1, <1>3, <2>2, <3>1, LoadKept DEF IInv, InUse, Using, loadVars
  <2> QED  BY <2>1, <2>2
<1>6. ConversionInv'
  BY <1>1, <1>3, ConversionUntouched DEF Using
<1> QED  BY <1>4, <1>5, <1>6 DEF IInv, LoadInv

\* Who loads a file that is not decided takes the lock, because the one that
\* holds it has marked its file.
LEMMA LoadDomainKeeps ==
  ASSUME IInv, NEW t \in Threads, LoadDomain(t),
         UNCHANGED <<charset, localVars, tableVars>>
  PROVE  IInv'
<1>1. /\ pc[t] = "load" /\ loadLock \in {Null, t} /\ UNCHANGED <<file, back>>
      /\ UNCHANGED <<charset, first, todo, encoding, convd, result, conversions, dangling>>
  BY DEF LoadDomain, MayLoad, localVars, tableVars
<1>2. TypeOK /\ file[t] \in Files
  BY <1>1 DEF IInv, LoadInv, TypeOK
<1>3. CASE /\ Undecided(file[t]) /\ loadLock' = t /\ Goto(t, "open")
           /\ decided' = [decided EXCEPT ![file[t]] = InProgress]
           /\ data' = [data EXCEPT ![file[t]] = "none"]
  <2>1. decided[file[t]] = 0 /\ loadLock = Null
    <3>1. decided[file[t]] = 0
      BY <1>3 DEF Undecided
    <3>2. loadLock = t => decided[file[t]] = -1
      BY LoaderIsLoading
    <3> QED  BY <1>1, <3>1, <3>2
  <2>2. Others(t) /\ pc'[t] = "open"
    BY <1>1, <1>2, <1>3, SameThread
  <2>3. \A f \in Files : f # file[t] => decided'[f] = decided[f] /\ data'[f] = data[f]
    BY <1>3 DEF IInv, LoadInv, TypeOK
  <2>4. decided'[file[t]] = -1
    BY <1>2, <1>3 DEF TypeOK, InProgress
  <2>5. TypeOK'
    BY <1>1, <1>2, <1>3, <2>2 DEF TypeOK, Goto, Labels, InProgress, Others
  <2>6. LoaderInv'
    BY <1>1, <1>2, <1>3, <2>1, <2>2, <2>3, <2>4, LoadAssumption
    DEF IInv, LoadInv, LoaderInv, Others
  <2>7. DecidedInv'
    BY <2>3, <2>4 DEF IInv, LoadInv, DecidedInv
  <2>8. PassedInv'
    <3>1. ASSUME NEW u \in Threads, u # t
          PROVE  /\ pc'[u] = pc[u] /\ file'[u] = file[u] /\ loadLock # u
                 /\ pc'[u] # "idle" => file[u] \in Files
      BY <1>2, <2>1, <2>2, <3>1, LoadAssumption DEF Others, TypeOK
    <3> QED  BY <1>3, <2>1, <2>2, <2>3, <3>1 DEF IInv, LoadInv, PassedInv, InUse, Using
  <2>9. ConversionInv'
    BY <1>1, <2>2, ConversionUntouched DEF Using
  <2> QED  BY <2>5, <2>6, <2>7, <2>8, <2>9 DEF IInv, LoadInv
<1>4. CASE /\ decided[file[t]] # 0 /\ UNCHANGED loadVars
           /\ Goto(t, IF Loading(t) THEN "msgdata" ELSE back[t])
  <2>1. Others(t) /\ pc'[t] = (IF Loading(t) THEN "msgdata" ELSE back[t])
    BY <1>1, <1>2, <1>4, SameThread
  <2>2. pc'[t] \in {"finddata", "msgdata"} /\ (loadLock = t => pc'[t] = "msgdata")
    BY <1>2, <2>1 DEF TypeOK, Loading
  <2>3. TypeOK'
    BY <1>1, <1>2, <1>4, <2>1, <2>2 DEF TypeOK, loadVars, Goto, Labels, Others
  <2>4. LoaderInv' /\ DecidedInv' /\ PassedInv'
    <3>1. CASE loadLock = t
      <4>1. LoaderInv' /\ DecidedInv'
        BY <1>1, <1>4, <2>1, <2>2, <3>1
        DEF IInv, LoadInv, LoaderInv, DecidedInv, loadVars, Others
      <4>2. PassedInv'
        BY <1>1, <1>4, <2>1, <2>2, <3>1
        DEF IInv, LoadInv, PassedInv, loadVars, InUse, Using, Others
      <4> QED  BY <4>1, <4>2
    <3>2. CASE loadLock # t
      <4>1. loadLock = Null
        BY <1>1, <3>2
      <4>2. decided[file[t]] \in {-1, 0, 1} /\ decided[file[t]] # -1
        BY <1>2, <4>1 DEF TypeOK, IInv, LoadInv, LoaderInv
      <4>3. decided[file[t]] = 1
        BY <1>4, <4>2
      <4> QED  BY <1>1, <1>4, <2>1, <2>2, <3>2, <4>3, LoadKept DEF IInv, InUse, Using
    <3> QED  BY <3>1, <3>2
  <2>5. ConversionInv'
    BY <1>1, <2>1, <2>2, ConversionUntouched DEF Using
  <2> QED  BY <2>3, <2>4, <2>5 DEF IInv, LoadInv
<1> QED  BY <1>3, <1>4 DEF LoadDomain

LEMMA ReadCatalogKeeps ==
  ASSUME IInv, NEW t \in Threads, ReadCatalog(t),
         UNCHANGED <<charset, localVars, tableVars>>
  PROVE  IInv'
<1>1. /\ pc[t] = "open" /\ UNCHANGED <<decided, loadLock, file, back>>
      /\ UNCHANGED <<charset, first, todo, encoding, convd, result, conversions, dangling>>
  BY DEF ReadCatalog, localVars, tableVars
<1>2. TypeOK /\ loadLock = t
  BY <1>1 DEF IInv, LoadInv, LoaderInv
<1>3. file[t] \in Files /\ decided[file[t]] = -1 /\ loadLock # Null
  BY <1>2, LoaderIsLoading, LoadAssumption
<1>4. /\ pc' \in [Threads -> Labels] /\ Others(t)
      /\ data' \in [Files -> {"none", "fresh", "complete"}]
      /\ \A f \in Files : f # file[t] => data'[f] = data[f]
      /\ pc'[t] = "decide" \/ (pc'[t] = "msg" /\ data'[file[t]] = "fresh")
  <2>1. CASE Goto(t, "decide") /\ UNCHANGED data
    BY <1>1, <1>2, <2>1 DEF TypeOK, Goto, Labels, Others
  <2>2. CASE Goto(t, "msg") /\ data' = [data EXCEPT ![file[t]] = "fresh"]
    BY <1>1, <1>2, <1>3, <2>2 DEF TypeOK, Goto, Labels, Others
  <2> QED  BY <2>1, <2>2 DEF ReadCatalog
<1>5. TypeOK'
  BY <1>1, <1>2, <1>4 DEF TypeOK, Others
<1>6. LoaderInv'
  BY <1>1, <1>2, <1>4 DEF IInv, LoadInv, LoaderInv, Others
<1>7. DecidedInv'
  BY <1>1, <1>3, <1>4 DEF IInv, LoadInv, DecidedInv
<1>8. PassedInv'
  <2>1. ASSUME NEW u \in Threads, u # t, pc[u] \in InUse
        PROVE  file[u] \in Files /\ file[u] # file[t]
    BY <1>2, <1>3, <2>1 DEF TypeOK, InUse, Using, IInv, LoadInv, PassedInv
  <2> QED  BY <1>1, <1>2, <1>4, <2>1 DEF IInv, LoadInv, PassedInv, InUse, Using, Others
<1>9. ConversionInv'
  BY <1>1, <1>4, ConversionUntouched DEF Using
<1> QED  BY <1>5, <1>6, <1>7, <1>8, <1>9 DEF IInv, LoadInv

\* When the file is decided it is missing or complete.
LEMMA DecideKeeps ==
  ASSUME IInv, NEW t \in Threads, Decide(t),
         UNCHANGED <<charset, localVars, tableVars>>
  PROVE  IInv'
<1>1. /\ pc[t] = "decide" /\ UNCHANGED <<file, back>> /\ Goto(t, back[t])
      /\ loadLock' = Null
      /\ UNCHANGED <<charset, first, todo, encoding, convd, result, conversions, dangling>>
  BY DEF Decide, localVars, tableVars
<1>2. TypeOK /\ loadLock = t
  BY <1>1 DEF IInv, LoadInv, LoaderInv
<1>3. file[t] \in Files /\ decided[file[t]] = -1 /\ loadLock # Null
  BY <1>2, LoaderIsLoading, LoadAssumption
<1>4. Others(t) /\ pc'[t] = back[t] /\ back[t] \in {"finddata", "msgdata"}
  BY <1>1, <1>2, SameThread DEF TypeOK
<1>5. /\ data'[file[t]] \in {"none", "complete"} /\ decided'[file[t]] = 1
      /\ \A f \in Files : f # file[t] => data'[f] = data[f] /\ decided'[f] = decided[f]
  BY <1>2, <1>3 DEF TypeOK, Decide, WithPlural
<1>6. TypeOK'
  BY <1>1, <1>2, <1>4 DEF TypeOK, Decide, WithPlural, Goto, Labels, Others
<1>7. LoaderInv'
  BY <1>1, <1>2, <1>3, <1>4, <1>5 DEF IInv, LoadInv, LoaderInv, Others
<1>8. DecidedInv'
  BY <1>5 DEF IInv, LoadInv, DecidedInv
<1>9. PassedInv'
  <2>1. ASSUME NEW u \in Threads, u # t, pc[u] \in {"finddata", "msgdata"} \cup InUse
        PROVE  /\ file[u] \in Files /\ file[u] # file[t] /\ decided[file[u]] = 1
               /\ pc[u] \in InUse => data[file[u]] = "complete"
    BY <1>2, <1>3, <2>1 DEF TypeOK, InUse, Using, IInv, LoadInv, PassedInv
  <2> QED  BY <1>1, <1>4, <1>5, <2>1 DEF PassedInv, InUse, Using, Others
<1>10. ConversionInv'
  BY <1>1, <1>4, ConversionUntouched DEF Using
<1> QED  BY <1>6, <1>7, <1>8, <1>9, <1>10 DEF IInv, LoadInv
-----------------------------------------------------------------------------
(* The conversions.                                                        *)

LEMMA FoundIsConverted ==
  ASSUME NEW t \in Threads, Converted(t) # {}
  PROVE  Found(t) \in Converted(t)
BY DEF Found

\* A thread that keeps its file and its element, or takes one for its encoding.
LEMMA TypeKept ==
  ASSUME IInv, NEW t \in Threads, pc[t] # "idle", Others(t),
         UNCHANGED <<loadVars, back, charset, first, encoding>>,
         pc' \in [Threads -> Labels],
         file' \in [Threads -> Files \cup {Null}], file'[t] \in Files,
         todo' \in [Threads -> Seq(Files)],
         convd' \in [Threads -> Nat], result' \in [Threads -> Results],
         conversions' \in [Files -> Seq(Elements)]
  PROVE  TypeOK'
BY DEF IInv, LoadInv, TypeOK, loadVars, Others

\* A thread that takes an element of the table.
LEMMA TakeKeeps ==
  ASSUME IInv, NEW t \in Threads, pc[t] \in {"conversion", "new"}, Converted(t) # {},
         convd' = [convd EXCEPT ![t] = Found(t)], Goto(t, "use"),
         UNCHANGED <<loadVars, file, back, charset, first, todo, encoding, result,
                     conversions, dangling>>
  PROVE  IInv'
<1>1. TypeOK /\ file[t] \in Files /\ pc[t] \in InUse
  BY DEF IInv, LoadInv, TypeOK, InUse
<1>2. /\ Found(t) \in DOMAIN conversions[file[t]] /\ Found(t) \in Nat
      /\ conversions[file[t]][Found(t)].encoding = encoding[t]
  <2>1. Found(t) \in Converted(t)
    BY FoundIsConverted
  <2>2. conversions[file[t]] \in Seq(Elements)
    BY <1>1 DEF TypeOK
  <2> QED  BY <2>1, <2>2, LenProperties DEF Converted
<1>3. Others(t) /\ pc'[t] = "use" /\ pc' \in [Threads -> Labels]
  BY <1>1 DEF TypeOK, Goto, Labels, Using, Others
<1>4. /\ convd' \in [Threads -> Nat] /\ convd'[t] = Found(t)
      /\ \A u \in Threads : u # t => convd'[u] = convd[u]
  BY <1>1, <1>2 DEF TypeOK
<1>5. TypeOK'
  BY <1>1, <1>3, <1>4, TypeKept DEF TypeOK
<1>6. (LoaderInv /\ DecidedInv /\ PassedInv)'
  BY <1>1, <1>3, LoadUntouched DEF InUse, Using
<1>7. ConversionInv'
  <2>1. result[t] = Null
    BY DEF IInv, ConversionInv, ResultInv
  <2> QED  BY <1>1, <1>2, <1>3, <1>4, <2>1, TablesUntouched
<1> QED  BY <1>5, <1>6, <1>7 DEF IInv, LoadInv

LEMMA SearchConversionKeeps ==
  ASSUME IInv, NEW t \in Threads, SearchConversion(t)
  PROVE  IInv'
<1>1. CASE Converted(t) # {}
  BY <1>1, TakeKeeps DEF SearchConversion, tableVars
<1>2. CASE Converted(t) = {}
  <2>1. /\ pc[t] = "conversion" /\ Goto(t, "new")
        /\ UNCHANGED <<loadVars, file, back, charset, first, todo, encoding, convd, result,
                       conversions, dangling>>
    BY <1>2 DEF SearchConversion, tableVars
  <2>2. TypeOK /\ file[t] \in Files /\ pc[t] \in InUse
    BY <2>1 DEF IInv, LoadInv, TypeOK, InUse
  <2>3. Others(t) /\ pc'[t] = "new" /\ pc' \in [Threads -> Labels]
    BY <2>1, <2>2 DEF TypeOK, Goto, Labels, Others
  <2>4. TypeOK'
    BY <2>1, <2>2, <2>3, TypeKept DEF TypeOK
  <2>5. (LoaderInv /\ DecidedInv /\ PassedInv)'
    BY <2>1, <2>2, <2>3, LoadUntouched DEF InUse
  <2>6. ConversionInv'
    BY <2>1, <2>3, ConversionUntouched DEF Using
  <2> QED  BY <2>4, <2>5, <2>6 DEF IInv, LoadInv
<1> QED  BY <1>1, <1>2

\* While all threads use one charset, nobody uses a table without an element
\* for it.
LEMMA NobodyUses ==
  ASSUME IInv, ~ Uselocale, NEW t \in Threads, pc[t] = "new", Converted(t) = {}
  PROVE  Users(file[t]) = {}
<1>1. SUFFICES ASSUME NEW u \in Users(file[t])  PROVE FALSE
  OBVIOUS
<1>2. u \in Threads /\ pc[u] \in Using /\ file[u] = file[t] /\ pc[u] # "idle"
  BY DEF Users, Using
<1>3. encoding[u] = charset /\ encoding[t] = charset
  BY <1>2 DEF IInv, ConversionInv, CharsetInv
<1>4. convd[u] \in Converted(t)
  BY <1>2, <1>3 DEF IInv, ConversionInv, ConvdInv, Converted
<1> QED  BY <1>4

\* Out of memory: there is an answer, and no pointer to an element.
LEMMA NoMemoryKeeps ==
  ASSUME IInv, NEW t \in Threads, pc[t] \in InUse, Answer(t, NoMemory),
         UNCHANGED <<loadVars, file, back, charset, first, todo, encoding, conversions>>,
         ~ Uselocale => dangling' = dangling
  PROVE  IInv'
<1>1. TypeOK /\ file[t] \in Files /\ pc[t] # "idle"
  BY DEF IInv, LoadInv, TypeOK, InUse, Using
<1>2. NoMemory \in Results
  BY DEF Results
<1>3. /\ pc' \in [Threads -> Labels] /\ convd' \in [Threads -> Nat]
      /\ result' \in [Threads -> Results] /\ pc'[t] = "return" /\ result'[t] = NoMemory
      /\ \A u \in Threads : u # t =>
           pc'[u] = pc[u] /\ convd'[u] = convd[u] /\ result'[u] = result[u]
  BY <1>1, <1>2, AnswerMoves
<1>4. Others(t)
  BY <1>3 DEF Others
<1>5. TypeOK'
  BY <1>1, <1>3, <1>4, TypeKept DEF TypeOK
<1>6. (LoaderInv /\ DecidedInv /\ PassedInv)'
  BY <1>3, <1>4, LoadUntouched
<1>7. ConversionInv'
  <2> USE DEF IInv, ConversionInv
  <2>1. ConvdInv' /\ TabInv'
    BY <1>3 DEF ConvdInv, TabInv, Using
  <2>2. UniqueEncodings'
    BY DEF UniqueEncodings
  <2>3. CharsetInv'
    BY <1>1, <1>3 DEF CharsetInv
  <2>4. ResultInv' /\ AnswerEncoded'
    BY <1>3 DEF ResultInv, AnswerEncoded
  <2> QED  BY <2>1, <2>2, <2>3, <2>4
<1> QED  BY <1>5, <1>6, <1>7 DEF IInv, LoadInv

\* A new element at the end of the table, for an encoding that had none.
LEMMA AddKeeps ==
  ASSUME IInv, NEW t \in Threads, pc[t] = "new", Converted(t) = {},
         NEW conv \in {"none", "iconv"},
         conversions' = [conversions EXCEPT ![file[t]] =
           Append(@, [encoding |-> encoding[t], conv |-> conv, conv_tab |-> "null"])],
         convd' = [convd EXCEPT ![t] = Len(conversions[file[t]]) + 1],
         Goto(t, "use"), ~ Uselocale => dangling' = dangling,
         UNCHANGED <<loadVars, file, back, charset, first, todo, encoding, result>>
  PROVE  IInv'
<1> DEFINE f == file[t]
           n == Len(conversions[f])
           new == [encoding |-> encoding[t], conv |-> conv, conv_tab |-> "null"]
<1>1. TypeOK /\ f \in Files /\ pc[t] \in InUse /\ encoding[t] \in Encodings
  BY DEF IInv, LoadInv, TypeOK, InUse
<1>2. conversions[f] \in Seq(Elements) /\ new \in Elements
  BY <1>1 DEF TypeOK, Elements
<1>3. /\ n \in Nat /\ DOMAIN conversions[f] = 1 .. n
      /\ conversions'[f] \in Seq(Elements) /\ DOMAIN conversions'[f] = 1 .. n + 1
      /\ \A i \in 1 .. n : conversions'[f][i] = conversions[f][i]
      /\ conversions'[f][n + 1] = new
  <2>1. conversions'[f] = Append(conversions[f], new)
    BY <1>1 DEF TypeOK
  <2> QED  BY <1>2, <2>1, LenProperties, AppendProperties
<1>4. \A g \in Files : g # f => conversions'[g] = conversions[g]
  BY <1>1 DEF TypeOK
<1>5. conversions' \in [Files -> Seq(Elements)]
  BY <1>1, <1>3, <1>4 DEF TypeOK
<1>6. new.encoding = encoding[t]
  OBVIOUS
<1>7. Others(t) /\ pc'[t] = "use" /\ pc' \in [Threads -> Labels]
  BY <1>1 DEF TypeOK, Goto, Labels, Using, Others
<1>8. /\ convd' \in [Threads -> Nat] /\ convd'[t] = n + 1
      /\ \A u \in Threads : u # t => convd'[u] = convd[u]
  BY <1>1, <1>3 DEF TypeOK
<1> HIDE DEF new, n
<1>9. TypeOK'
  BY <1>1, <1>5, <1>7, <1>8, TypeKept DEF TypeOK
<1>10. (LoaderInv /\ DecidedInv /\ PassedInv)'
  BY <1>1, <1>7, LoadUntouched DEF InUse, Using
<1>11. \A u \in Threads : u # t /\ pc[u] \in Using =>
         /\ convd[u] \in DOMAIN conversions'[file[u]]
         /\ conversions'[file[u]][convd[u]] = conversions[file[u]][convd[u]]
  <2>1. ASSUME NEW u \in Threads, u # t, pc[u] \in Using
        PROVE  file[u] \in Files /\ convd[u] \in DOMAIN conversions[file[u]]
    BY <2>1 DEF IInv, LoadInv, TypeOK, Using, ConversionInv, ConvdInv
  <2>2. ASSUME NEW u \in Threads, u # t, pc[u] \in Using
        PROVE  /\ convd[u] \in DOMAIN conversions'[file[u]]
               /\ conversions'[file[u]][convd[u]] = conversions[file[u]][convd[u]]
    <3>1. CASE file[u] = f
      BY <1>3, <2>1, <2>2, <3>1
    <3>2. CASE file[u] # f
      BY <1>4, <2>1, <2>2, <3>2
    <3> QED  BY <3>1, <3>2
  <2> QED  BY <2>2
<1>12. ConvdInv'
  <2>1. n + 1 \in 1 .. n + 1
    BY <1>3
  <2> QED
    BY <1>3, <1>6, <1>7, <1>8, <1>11, <2>1 DEF IInv, ConversionInv, ConvdInv, Others
<1>13. TabInv'
  <2>1. \A u \in Threads : pc[u] \in {"lock", "convert"} => pc[u] \in Using
    BY DEF Using
  <2> QED  BY <1>7, <1>8, <1>11, <2>1 DEF IInv, ConversionInv, TabInv, Others
<1>14. UniqueEncodings'
  <2>1. \A i, j \in DOMAIN conversions'[f] :
          conversions'[f][i].encoding = conversions'[f][j].encoding => i = j
    <3>1. \A i \in 1 .. n : conversions[f][i].encoding # encoding[t]
      BY <1>3 DEF Converted
    <3>2. \A i, j \in 1 .. n :
            conversions[f][i].encoding = conversions[f][j].encoding => i = j
      BY <1>1, <1>3 DEF IInv, ConversionInv, UniqueEncodings
    <3>3. \A i \in 1 .. n + 1 : i \in 1 .. n \/ i = n + 1
      BY <1>3
    <3> QED  BY <1>3, <1>6, <3>1, <3>2, <3>3
  <2>2. \A g \in Files : g # f => \A i, j \in DOMAIN conversions'[g] :
          conversions'[g][i].encoding = conversions'[g][j].encoding => i = j
    BY <1>4 DEF IInv, ConversionInv, UniqueEncodings
  <2> QED  BY <2>1, <2>2 DEF UniqueEncodings
<1>15. CharsetInv'
  BY <1>7 DEF IInv, ConversionInv, CharsetInv, Others
<1>16. ResultInv' /\ AnswerEncoded'
  BY <1>7 DEF IInv, ConversionInv, ResultInv, AnswerEncoded, Others
<1> QED  BY <1>9, <1>10, <1>12, <1>13, <1>14, <1>15, <1>16 DEF IInv, LoadInv, ConversionInv

LEMMA NewConversionKeeps ==
  ASSUME IInv, NEW t \in Threads, NewConversion(t)
  PROVE  IInv'
<1>1. /\ pc[t] = "new"
      /\ UNCHANGED <<loadVars, file, back, charset, first, todo, encoding>>
  BY DEF NewConversion
<1>2. CASE AddedMeanwhile(t)
  BY <1>1, <1>2, TakeKeeps DEF NewConversion, AddedMeanwhile, tableVars
<1>3. CASE ~ AddedMeanwhile(t)
  <2>1. Converted(t) = {}
    BY <1>3 DEF AddedMeanwhile
  <2>2. dangling' \in {dangling, dangling \cup Users(file[t])}
    BY <1>3 DEF NewConversion
  <2>3. ~ Uselocale => dangling' = dangling
    BY <1>1, <2>1, <2>2, NobodyUses
  <2>4. CASE Answer(t, NoMemory) /\ UNCHANGED conversions
    BY <1>1, <2>3, <2>4, NoMemoryKeeps DEF InUse
  <2>5. CASE /\ \E conv \in {"none", "iconv"} :
                  conversions' = [conversions EXCEPT ![file[t]] =
                    Append(@, [encoding |-> encoding[t], conv |-> conv, conv_tab |-> "null"])]
             /\ convd' = [convd EXCEPT ![t] = Len(conversions[file[t]]) + 1]
             /\ Goto(t, "use") /\ UNCHANGED result
    BY <1>1, <2>1, <2>3, <2>5, AddKeeps
  <2> QED  BY <1>3, <2>4, <2>5 DEF NewConversion
<1> QED  BY <1>2, <1>3
\* The table of strings of the element is allocated, marked or filled.
LEMMA FillKeeps ==
  ASSUME IInv, NEW t \in Threads, pc[t] \in Using,
         NEW tab \in {"null", "failed", "empty", "full"}, SetTab(t, tab),
         tab \in {"empty", "full"} \/ Element(t).conv_tab = "null",
         NEW label \in {"act", "convert", "converted"}, Goto(t, label),
         label = "convert" => tab = "empty",
         UNCHANGED <<loadVars, file, back, charset, first, todo, encoding, convd, result,
                     dangling>>
  PROVE  IInv'
<1>1. TypeOK /\ ConvdInv /\ file[t] \in Files /\ pc[t] \in InUse
  BY DEF IInv, LoadInv, ConversionInv, TypeOK, InUse, Using
<1>2. conversions' \in [Files -> Seq(Elements)]
  BY <1>1, SetTabKeeps
<1>3. \A f \in Files : DOMAIN conversions'[f] = DOMAIN conversions[f]
  BY <1>1, SetTabKeeps
<1>4. \A f \in Files : \A i \in DOMAIN conversions[f] :
        /\ conversions'[f][i].encoding = conversions[f][i].encoding
        /\ conversions'[f][i].conv_tab = IF f = file[t] /\ i = convd[t] THEN tab
                                         ELSE conversions[f][i].conv_tab
  BY <1>1, SetTabKeeps
<1>5. Others(t) /\ pc'[t] = label /\ pc' \in [Threads -> Labels] /\ label \in Using
  BY <1>1 DEF TypeOK, Goto, Labels, Using, Others
<1>6. TypeOK'
  BY <1>1, <1>2, <1>5, TypeKept DEF TypeOK, Using
<1>7. (LoaderInv /\ DecidedInv /\ PassedInv)'
  BY <1>1, <1>5, LoadUntouched DEF InUse
<1>8. \A u \in Threads : pc[u] \in Using =>
        file[u] \in Files /\ convd[u] \in DOMAIN conversions[file[u]]
  BY <1>1 DEF TypeOK, ConvdInv, Using
<1>9. ConvdInv'
  BY <1>1, <1>3, <1>4, <1>5, <1>8 DEF ConvdInv, Others
<1>10. TabInv'
  <2>1. ASSUME NEW u \in Threads, u # t, pc[u] \in {"lock", "convert"}
        PROVE  conversions'[file[u]][convd[u]].conv_tab \in {"empty", "full"}
    <3>1. /\ conversions[file[u]][convd[u]].conv_tab \in {"empty", "full"}
          /\ file[u] \in Files /\ convd[u] \in DOMAIN conversions[file[u]]
      BY <1>8, <2>1 DEF IInv, ConversionInv, TabInv, Using
    <3>2. CASE file[u] = file[t] /\ convd[u] = convd[t]
      BY <1>4, <3>1, <3>2 DEF Element
    <3>3. CASE ~ (file[u] = file[t] /\ convd[u] = convd[t])
      BY <1>4, <3>1, <3>3
    <3> QED  BY <3>2, <3>3
  <2>2. pc'[t] = "convert" =>
          conversions'[file[t]][convd[t]].conv_tab \in {"empty", "full"}
    BY <1>1, <1>4, <1>5, <1>8
  <2> QED  BY <1>5, <2>1, <2>2 DEF TabInv, Others
<1>11. UniqueEncodings'
  BY <1>3, <1>4 DEF IInv, ConversionInv, UniqueEncodings
<1>12. CharsetInv'
  BY <1>1, <1>5 DEF IInv, ConversionInv, CharsetInv, Others, InUse, Using
<1>13. ResultInv' /\ AnswerEncoded'
  BY <1>1, <1>5 DEF IInv, ConversionInv, ResultInv, AnswerEncoded, Others, InUse, Using
<1> QED  BY <1>6, <1>7, <1>9, <1>10, <1>11, <1>12, <1>13 DEF IInv, LoadInv, ConversionInv

\* The thread goes on with the same element.
LEMMA GoOnKeeps ==
  ASSUME IInv, NEW t \in Threads, pc[t] \in Using, NEW label \in Using, Goto(t, label),
         label \in {"lock", "convert"} => Element(t).conv_tab \in {"empty", "full"},
         UNCHANGED <<loadVars, file, back, charset, first, todo, encoding, convd, result,
                     conversions, dangling>>
  PROVE  IInv'
<1>1. TypeOK /\ file[t] \in Files /\ pc[t] \in InUse
  BY DEF IInv, LoadInv, TypeOK, InUse, Using
<1>2. Others(t) /\ pc'[t] = label /\ pc' \in [Threads -> Labels]
  BY <1>1 DEF TypeOK, Goto, Labels, Others
<1>3. TypeOK'
  BY <1>1, <1>2, TypeKept DEF TypeOK, Using
<1>4. (LoaderInv /\ DecidedInv /\ PassedInv)'
  BY <1>1, <1>2, LoadUntouched DEF InUse
<1>5. ConversionInv'
  <2>1. /\ result[t] = Null
        /\ convd[t] \in DOMAIN conversions[file[t]]
        /\ conversions[file[t]][convd[t]].encoding = encoding[t]
    BY DEF IInv, ConversionInv, ResultInv, ConvdInv, Using
  <2> QED  BY <1>1, <1>2, <2>1, TablesUntouched DEF Element, Using
<1> QED  BY <1>3, <1>4, <1>5 DEF IInv, LoadInv

\* The lookup ends with a translation, in its encoding or unconverted.
LEMMA TranslationKeeps ==
  ASSUME IInv, NEW t \in Threads, pc[t] \in Using,
         NEW enc \in {encoding[t], Null}, Answer(t, [file |-> file[t], encoding |-> enc]),
         UNCHANGED <<loadVars, file, back, charset, first, todo, encoding, conversions,
                     dangling>>
  PROVE  IInv'
<1>1. TypeOK /\ file[t] \in Files /\ encoding[t] \in Encodings /\ pc[t] \in InUse
  BY DEF IInv, LoadInv, TypeOK, InUse, Using
<1> DEFINE answer == [file |-> file[t], encoding |-> enc]
<1>2. answer \in Results /\ answer.encoding = enc
  BY <1>1 DEF Results
<1> HIDE DEF answer
<1>3. Answer(t, answer)
  BY DEF answer
<1>4. /\ pc' \in [Threads -> Labels] /\ convd' \in [Threads -> Nat]
      /\ result' \in [Threads -> Results] /\ pc'[t] = "return" /\ result'[t] = answer
      /\ \A u \in Threads : u # t =>
           pc'[u] = pc[u] /\ convd'[u] = convd[u] /\ result'[u] = result[u]
  BY <1>1, <1>2, <1>3, AnswerMoves
<1>5. Others(t)
  BY <1>4 DEF Others
<1>6. TypeOK'
  BY <1>1, <1>4, <1>5, TypeKept DEF TypeOK, Using
<1>7. (LoaderInv /\ DecidedInv /\ PassedInv)'
  BY <1>1, <1>4, <1>5, LoadUntouched
<1>8. ConversionInv'
  BY <1>1, <1>2, <1>4, <1>5, TablesUntouched DEF Using
<1> QED  BY <1>6, <1>7, <1>8 DEF IInv, LoadInv

LEMMA UseKeeps ==
  ASSUME IInv, NEW t \in Threads, Use(t)
  PROVE  IInv'
<1>1. /\ pc[t] = "use"
      /\ UNCHANGED <<loadVars, file, back, charset, first, todo, encoding, conversions,
                     dangling>>
  BY DEF Use, At, tableVars
<1>2. CASE Answer(t, [file |-> file[t], encoding |-> Null])
  BY <1>1, <1>2, TranslationKeeps DEF Using
<1>3. CASE Goto(t, "tab") /\ UNCHANGED <<convd, result>>
  BY <1>1, <1>3, GoOnKeeps DEF Using
<1> QED  BY <1>2, <1>3 DEF Use

LEMMA ReadTabKeeps ==
  ASSUME IInv, NEW t \in Threads, ReadTab(t)
  PROVE  IInv'
<1>1. /\ pc[t] = "tab"
      /\ UNCHANGED <<loadVars, file, back, charset, first, todo, encoding, convd, result,
                     conversions, dangling>>
  BY DEF ReadTab, At, localVars, tableVars
<1>2. PICK label \in {"alloc", "act"} : Goto(t, label)
  BY DEF ReadTab
<1> QED  BY <1>1, <1>2, GoOnKeeps DEF Using

LEMMA AllocTabKeeps ==
  ASSUME IInv, NEW t \in Threads, AllocTab(t)
  PROVE  IInv'
<1>1. /\ pc[t] = "alloc"
      /\ UNCHANGED <<loadVars, file, back, charset, first, todo, encoding, convd, result,
                     dangling>>
  BY DEF AllocTab, At, localVars
<1>2. CASE StillNull(t) /\ SetTab(t, "empty") /\ Goto(t, "convert")
  BY <1>1, <1>2, FillKeeps DEF Using
<1>3. CASE StillNull(t) /\ SetTab(t, "failed") /\ Goto(t, "act")
  BY <1>1, <1>3, FillKeeps DEF Using, StillNull
<1>4. CASE UNCHANGED conversions /\ Goto(t, "act")
  BY <1>1, <1>4, GoOnKeeps DEF Using
<1> QED  BY <1>2, <1>3, <1>4 DEF AllocTab

LEMMA ReadActKeeps ==
  ASSUME IInv, NEW t \in Threads, ReadAct(t)
  PROVE  IInv'
<1>1. /\ pc[t] = "act"
      /\ UNCHANGED <<loadVars, file, back, charset, first, todo, encoding, conversions,
                     dangling>>
  BY DEF ReadAct, At, tableVars
<1>2. CASE Answer(t, NoMemory)
  BY <1>1, <1>2, NoMemoryKeeps DEF InUse, Using
<1>3. CASE Element(t).conv_tab = "empty" /\ Goto(t, "lock") /\ UNCHANGED <<convd, result>>
  BY <1>1, <1>3, GoOnKeeps DEF Using
<1>4. CASE Goto(t, "converted") /\ UNCHANGED <<convd, result>>
  BY <1>1, <1>4, GoOnKeeps DEF Using
<1> QED  BY <1>2, <1>3, <1>4 DEF ReadAct

LEMMA LockPoolKeeps ==
  ASSUME IInv, NEW t \in Threads, LockPool(t)
  PROVE  IInv'
<1>1. /\ pc[t] = "lock" /\ Goto(t, "convert")
      /\ UNCHANGED <<loadVars, file, back, charset, first, todo, encoding, convd, result,
                     conversions, dangling>>
  BY DEF LockPool, At, localVars
<1>2. Element(t).conv_tab \in {"empty", "full"}
  BY <1>1 DEF IInv, ConversionInv, TabInv, Element
<1> QED  BY <1>1, <1>2, GoOnKeeps DEF Using

LEMMA ConvertKeeps ==
  ASSUME IInv, NEW t \in Threads, Convert(t)
  PROVE  IInv'
<1>1. /\ pc[t] = "convert" /\ UNCHANGED <<loadVars, back, charset, first, encoding, dangling>>
  BY DEF Convert, At
<1>2. CASE /\ SetTab(t, "full") /\ Goto(t, "converted")
           /\ UNCHANGED <<file, todo, convd, result>>
  BY <1>1, <1>2, FillKeeps DEF Using
<1>3. CASE /\ TryNext(t) /\ convd' = [convd EXCEPT ![t] = 0]
           /\ UNCHANGED <<result, conversions>>
  <2>1. TypeOK /\ file[t] \in Files /\ pc[t] \in InUse /\ result[t] = Null
    BY <1>1 DEF IInv, LoadInv, TypeOK, InUse, Using, ConversionInv, ResultInv
  <2>2. /\ pc' \in [Threads -> Labels] /\ file' \in [Threads -> Files \cup {Null}]
        /\ todo' \in [Threads -> Seq(Files)] /\ file'[t] \in Files
        /\ pc'[t] \in {"msg", "return"} /\ Others(t)
    BY <1>3, <2>1, TryNextMoves
  <2>3. /\ convd' \in [Threads -> Nat]
        /\ \A u \in Threads : u # t => convd'[u] = convd[u]
    BY <1>3, <2>1 DEF TypeOK
  <2>4. TypeOK'
    BY <1>1, <1>3, <2>1, <2>2, <2>3, TypeKept DEF TypeOK
  <2>5. (LoaderInv /\ DecidedInv /\ PassedInv)'
    BY <1>1, <2>1, <2>2, LoadUntouched
  <2>6. pc'[t] \notin Using /\ pc'[t] \notin {"lock", "convert"}
    BY <2>2 DEF Using
  <2>7. ConversionInv'
    BY <1>1, <1>3, <2>1, <2>2, <2>3, <2>6, TablesUntouched
  <2> QED  BY <2>4, <2>5, <2>7 DEF IInv, LoadInv
<1>4. CASE Answer(t, NoMemory) /\ UNCHANGED <<file, todo, conversions>>
  BY <1>1, <1>4, NoMemoryKeeps DEF InUse, Using
<1> QED  BY <1>2, <1>3, <1>4 DEF Convert

LEMMA TakeConvertedKeeps ==
  ASSUME IInv, NEW t \in Threads, TakeConverted(t)
  PROVE  IInv'
<1>1. /\ pc[t] = "converted"
      /\ Answer(t, [file |-> file[t], encoding |-> Element(t).encoding])
      /\ UNCHANGED <<loadVars, file, back, charset, first, todo, encoding, conversions,
                     dangling>>
  BY DEF TakeConverted, At, tableVars
<1>2. Element(t).encoding = encoding[t]
  BY <1>1 DEF IInv, ConversionInv, ConvdInv, Element, Using
<1> QED  BY <1>1, <1>2, TranslationKeeps DEF Using
-----------------------------------------------------------------------------
(* All steps.                                                              *)

LEMMA InitIInv == Init => IInv
<1> SUFFICES ASSUME Init  PROVE IInv
  OBVIOUS
<1>1. /\ \A t \in Threads : pc[t] = "idle" /\ result[t] = Null
      /\ loadLock = Null /\ dangling = {}
      /\ \A f \in Files : decided[f] = 0 /\ data[f] = "none" /\ conversions[f] = <<>>
  BY DEF Init, LoadInit
<1>2. TypeOK
  <2>1. \A S : <<>> \in Seq(S)
    BY EmptySeq
  <2>2. /\ decided \in [Files -> {-1, 0, 1}] /\ data \in [Files -> {"none", "fresh", "complete"}]
        /\ loadLock \in Threads \cup {Null} /\ pc \in [Threads -> Labels]
        /\ file \in [Threads -> Files \cup {Null}] /\ first \in [Threads -> Files \cup {Null}]
        /\ back \in [Threads -> {"finddata", "msgdata"}] /\ charset \in Encodings
    BY DEF Init, LoadInit, Labels
  <2>3. /\ todo \in [Threads -> Seq(Files)] /\ encoding \in [Threads -> Encodings \cup {Null}]
        /\ convd \in [Threads -> Nat] /\ result \in [Threads -> Results]
        /\ conversions \in [Files -> Seq(Elements)]
    BY <2>1 DEF Init, Results
  <2> QED  BY <1>1, <2>2, <2>3 DEF TypeOK
<1>3. LoaderInv /\ DecidedInv /\ PassedInv
  BY <1>1 DEF LoaderInv, DecidedInv, PassedInv, InUse, Using
<1>4. ConvdInv /\ TabInv /\ CharsetInv /\ ResultInv /\ AnswerEncoded
  BY <1>1 DEF ConvdInv, TabInv, CharsetInv, ResultInv, AnswerEncoded, Using
<1>5. UniqueEncodings
  <2>1. \A f \in Files : DOMAIN conversions[f] = {}
    BY <1>1
  <2> QED  BY <2>1 DEF UniqueEncodings
<1> QED  BY <1>2, <1>3, <1>4, <1>5 DEF IInv, LoadInv, ConversionInv

LEMMA StepKeeps ==
  ASSUME IInv, NEW t \in Threads, Step(t)
  PROVE  IInv'
<1>1. CASE Search(t)
  BY <1>1, FindDomainKeeps, FindDomainDataKeeps, FindMsgKeeps, LocateKeeps DEF Search
<1>2. CASE LoadFile(t)
  BY <1>2, LoadDomainKeeps, ReadCatalogKeeps, DecideKeeps DEF LoadFile, Load
<1>3. CASE Conversion(t)
  BY <1>3, SearchConversionKeeps, NewConversionKeeps, UseKeeps, ReadTabKeeps, AllocTabKeeps,
     ReadActKeeps, LockPoolKeeps, ConvertKeeps, TakeConvertedKeeps DEF Conversion
<1>4. CASE Return(t)
  BY <1>4, ReturnKeeps
<1> QED  BY <1>1, <1>2, <1>3, <1>4 DEF Step

LEMMA NextIInv == IInv /\ [Next]_vars => IInv'
<1> SUFFICES ASSUME IInv, [Next]_vars  PROVE IInv'
  OBVIOUS
<1>1. CASE Next
  BY <1>1, CallKeeps, StepKeeps, SetCharsetKeeps DEF Next
<1>2. CASE UNCHANGED vars
  <2>1. UNCHANGED <<decided, data, loadLock, pc, file, back, charset, first, todo, encoding,
                   convd, result, conversions, dangling>>
    BY <1>2 DEF vars, loadVars, localVars, tableVars
  <2>2. TypeOK'
    BY <2>1 DEF IInv, LoadInv, TypeOK
  <2>3. LoaderInv' /\ DecidedInv' /\ PassedInv'
    BY <2>1 DEF IInv, LoadInv, LoaderInv, DecidedInv, PassedInv
  <2>4. ConvdInv' /\ TabInv' /\ UniqueEncodings' /\ CharsetInv' /\ ResultInv' /\ AnswerEncoded'
    BY <2>1 DEF IInv, ConversionInv, ConvdInv, TabInv, UniqueEncodings, CharsetInv, ResultInv,
                AnswerEncoded
  <2> QED  BY <2>2, <2>3, <2>4 DEF IInv, LoadInv, ConversionInv
<1> QED  BY <1>1, <1>2

(* What the threads know of the files, of their elements of the tables of  *)
(* conversions and of each other, at each of their steps.                  *)
THEOREM Invariance == Spec => []IInv
BY InitIInv, NextIInv, PTL DEF Spec

-----------------------------------------------------------------------------
(* The theorems.                                                           *)

(* The unlocked test of decided in _nl_find_domain and _nl_find_msg is     *)
(* safe: no thread but the loader works with a catalog whose plural        *)
(* formula is not known yet.                                               *)
THEOREM CatalogsComplete == Spec => []CatalogComplete
<1>1. IInv => CatalogComplete
  BY DEF IInv, LoadInv, PassedInv, CatalogComplete
<1> QED  BY <1>1, Invariance, PTL

(* A catalog that has been decided is never loaded again, nor replaced.    *)
THEOREM CatalogsStay == Spec => LoadedOnce
<1>1. ASSUME IInv, [Next]_vars, NEW f \in Files, decided[f] = 1
      PROVE  decided'[f] = 1 /\ data'[f] = data[f]
  <2>1. CASE UNCHANGED loadVars
    BY <1>1, <2>1 DEF loadVars
  <2>2. ASSUME NEW t \in Threads, LoadDomain(t)
        PROVE  decided'[f] = 1 /\ data'[f] = data[f]
    <3>1. CASE UNCHANGED loadVars
      BY <1>1, <3>1 DEF loadVars
    <3>2. CASE /\ decided[file[t]] = 0
               /\ decided' = [decided EXCEPT ![file[t]] = InProgress]
               /\ data' = [data EXCEPT ![file[t]] = "none"]
      BY <1>1, <3>2 DEF IInv, LoadInv, TypeOK
    <3> QED  BY <2>2, <3>1, <3>2 DEF LoadDomain, Undecided
  <2>3. ASSUME NEW t \in Threads, ReadCatalog(t) \/ Decide(t)
        PROVE  decided'[f] = 1 /\ data'[f] = data[f]
    <3>1. loadLock = t
      BY <1>1, <2>3 DEF ReadCatalog, Decide, IInv, LoadInv, LoaderInv
    <3>2. decided[file[t]] = -1
      BY <1>1, <3>1, LoaderIsLoading
    <3>3. f # file[t]
      BY <1>1, <3>2
    <3> QED  BY <1>1, <2>3, <3>3 DEF ReadCatalog, Decide, IInv, LoadInv, TypeOK
  <2>4. Next => \/ UNCHANGED loadVars
                \/ \E t \in Threads : LoadDomain(t) \/ ReadCatalog(t) \/ Decide(t)
    BY DEF Next, Call, SetCharset, Step, Search, FindDomain, FindDomainData, FindMsg, Locate,
           EnsureLoaded, LoadFile, Load, Return, Conversion, SearchConversion, NewConversion,
           Use, ReadTab, AllocTab, ReadAct, LockPool, Convert, TakeConverted
  <2>5. UNCHANGED vars => UNCHANGED loadVars
    BY DEF vars
  <2> QED  BY <1>1, <2>1, <2>2, <2>3, <2>4, <2>5
<1>2. IInv /\ [Next]_vars =>
        [\A f \in Files : decided[f] = 1 => decided'[f] = 1 /\ data'[f] = data[f]]_vars
  BY <1>1
<1> QED  BY <1>2, Invariance, PTL DEF Spec, LoadedOnce

(* The search for an element, the unlock, and the second search under the  *)
(* lock for writing never lead to two elements for one encoding.           *)
THEOREM EncodingsUnique == Spec => []UniqueEncodings
<1>1. IInv => UniqueEncodings
  BY DEF IInv, ConversionInv
<1> QED  BY <1>1, Invariance, PTL

(* In a program whose threads share the locale, the pointer into the table *)
(* of conversions that _nl_find_msg keeps after the unlock stays valid,    *)
(* although an addition reallocates the table: no addition happens while   *)
(* somebody has one.                                                       *)
THEOREM PointersStayValid ==
  ASSUME ~ Uselocale
  PROVE  Spec => []PointersValid
<1>1. IInv => PointersValid
  BY DEF IInv, ConversionInv, CharsetInv, PointersValid
<1> QED  BY <1>1, Invariance, PTL

(* A caller gets a translation in the charset of its own lookup, or as it  *)
(* is in the catalog.                                                      *)
THEOREM AnswersEncoded == Spec => []AnswerEncoded
<1>1. IInv => AnswerEncoded
  BY DEF IInv, ConversionInv
<1> QED  BY <1>1, Invariance, PTL
\* What a step may do to an element.
Stays(old, new) ==
  /\ new.encoding = old.encoding /\ new.conv = old.conv
  /\ old.conv_tab \in {"failed", "full"} => new.conv_tab = old.conv_tab
  /\ old.conv_tab = "empty" => new.conv_tab \in {"empty", "full"}

LEMMA SetTabStays ==
  ASSUME IInv, NEW t \in Threads, pc[t] \in Using,
         NEW tab \in {"null", "failed", "empty", "full"}, SetTab(t, tab),
         \/ Element(t).conv_tab = "null"
         \/ Element(t).conv_tab \in {"empty", "full"} /\ tab = "full",
         NEW f \in Files, NEW i \in DOMAIN conversions[f]
  PROVE  Stays(conversions[f][i], conversions'[f][i])
<1>1. /\ conversions'[f][i].encoding = conversions[f][i].encoding
      /\ conversions'[f][i].conv = conversions[f][i].conv
      /\ conversions'[f][i].conv_tab =
           IF f = file[t] /\ i = convd[t] THEN tab ELSE conversions[f][i].conv_tab
  BY SetTabKeeps DEF IInv, LoadInv, ConversionInv
<1>2. CASE f = file[t] /\ i = convd[t]
  <2>1. conversions[f][i] = Element(t)
    BY <1>2 DEF Element
  <2> QED  BY <1>1, <1>2, <2>1 DEF Stays
<1>3. CASE ~ (f = file[t] /\ i = convd[t])
  BY <1>1, <1>3 DEF Stays
<1> QED  BY <1>2, <1>3

(* A string that was converted stays where it is for the callers that have *)
(* got a pointer to it, and neither an allocation nor its failure is       *)
(* repeated.                                                               *)
THEOREM StringsAreKept == Spec => StringsStay
<1>1. ASSUME IInv, [Next]_vars, NEW f \in Files, NEW i \in DOMAIN conversions[f]
      PROVE  Stays(conversions[f][i], conversions'[f][i])
  <2>1. CASE UNCHANGED conversions
    BY <2>1 DEF Stays
  <2>2. ASSUME NEW t \in Threads, NewConversion(t)
        PROVE  Stays(conversions[f][i], conversions'[f][i])
    <3>1. CASE UNCHANGED conversions
      BY <3>1 DEF Stays
    <3>2. ASSUME NEW new,
                 conversions' = [conversions EXCEPT ![file[t]] = Append(@, new)],
                 new \in Elements
          PROVE  conversions'[f][i] = conversions[f][i]
      <4>1. conversions[f] \in Seq(Elements) /\ i \in 1 .. Len(conversions[f])
        BY <1>1, LenProperties DEF IInv, LoadInv, TypeOK
      <4>2. Append(conversions[f], new)[i] = conversions[f][i]
        BY <3>2, <4>1, AppendProperties
      <4> QED  BY <1>1, <3>2, <4>2 DEF IInv, LoadInv, TypeOK
    <3>3. encoding[t] \in Encodings
      BY <1>1, <2>2 DEF NewConversion, IInv, LoadInv, TypeOK
    <3>4. ASSUME NEW conv \in {"none", "iconv"}
          PROVE  [encoding |-> encoding[t], conv |-> conv, conv_tab |-> "null"] \in Elements
      BY <3>3 DEF Elements
    <3>5. UNCHANGED conversions \/ conversions'[f][i] = conversions[f][i]
      BY <2>2, <3>2, <3>4 DEF NewConversion, tableVars
    <3> QED  BY <3>1, <3>5 DEF Stays
  <2>3. ASSUME NEW t \in Threads, AllocTab(t)
        PROVE  Stays(conversions[f][i], conversions'[f][i])
    <3>1. pc[t] \in Using
      BY <2>3 DEF AllocTab, At, Using
    <3>2. CASE StillNull(t) /\ \E tab \in {"empty", "failed"} : SetTab(t, tab)
      BY <1>1, <3>1, <3>2, SetTabStays DEF StillNull
    <3> QED  BY <2>1, <2>3, <3>2 DEF AllocTab
  <2>4. ASSUME NEW t \in Threads, Convert(t)
        PROVE  Stays(conversions[f][i], conversions'[f][i])
    <3>1. pc[t] \in Using /\ Element(t).conv_tab \in {"empty", "full"}
      BY <1>1, <2>4 DEF Convert, At, Using, IInv, ConversionInv, TabInv, Element
    <3>2. CASE SetTab(t, "full")
      BY <1>1, <3>1, <3>2, SetTabStays
    <3> QED  BY <2>1, <2>4, <3>2 DEF Convert
  <2>5. Next => \/ UNCHANGED conversions
                \/ \E t \in Threads : NewConversion(t) \/ AllocTab(t) \/ Convert(t)
    BY DEF Next, Call, SetCharset, Step, Search, FindDomain, FindDomainData, FindMsg, Locate,
           LoadFile, Return, Conversion, SearchConversion, Use, ReadTab, ReadAct, LockPool,
           TakeConverted, tableVars
  <2>6. UNCHANGED vars => UNCHANGED conversions
    BY DEF vars, tableVars
  <2> QED  BY <1>1, <2>1, <2>2, <2>3, <2>4, <2>5, <2>6
<1>2. IInv /\ [Next]_vars =>
        [\A f \in Files : \A i \in DOMAIN conversions[f] :
           LET old == conversions[f][i]  new == conversions'[f][i]
           IN  /\ new.encoding = old.encoding /\ new.conv = old.conv
               /\ old.conv_tab \in {"failed", "full"} => new.conv_tab = old.conv_tab
               /\ old.conv_tab = "empty" => new.conv_tab \in {"empty", "full"}]_vars
  BY <1>1 DEF Stays
<1> QED  BY <1>2, Invariance, PTL DEF Spec, StringsStay
=============================================================================
