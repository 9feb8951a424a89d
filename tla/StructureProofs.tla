-------------------------- MODULE StructureProofs ---------------------------
(****************************************************************************)
(* Lists of messages and the programs around them.  Whatever the programs   *)
(* do, a list and its index agree; what the parallel search of msgmerge     *)
(* finds does not depend on the schedule; and combined catalogs are in one  *)
(* encoding.  For lists and catalogs of any length and number, and any      *)
(* number of threads.                                                       *)
(****************************************************************************)
EXTENDS MessageList, Msgmerge, Catenate, SequenceTheorems, FiniteSetTheorems, WellFoundedInduction, TLAPS

-----------------------------------------------------------------------------
(* Lists of messages: the invariant.                                     *)

HeapMessages == [key : Keys, obsolete : BOOLEAN]

\* ix is an index of the list l of messages in h.
IndexFor(ix, l, h) ==
  /\ h \in Seq(HeapMessages) /\ l \in Seq(1..Len(h))
  /\ Distinct(l, h)
  /\ ix \in [Keys -> Nat]
  /\ \A k \in Keys : ix[k] = FirstWith(k, l, h)

Steps(program) == { Plan[program][n] : n \in DOMAIN Plan[program] }

\* What a list with an index is, while a program runs.  Only in the middle of
\* a conversion that has changed a key may the index not be that of the list.
IndexInv ==
  outcome = "running" /\ use_hashtable =>
    /\ ~input.allow_duplicates
    /\ heap \in Seq(HeapMessages) /\ item \in Seq(1..Len(heap))
    /\ pos \in 0..Len(item)
    /\ pos # 0 => Running("convert")
    /\ changed => pos # 0
    /\ ~changed => IndexFor(index, item, heap)

ReaderInv ==
  /\ input \in ListInputs
  /\ rest \in Seq(HeapMessages)
  /\ todo \in Seq(Steps(input.program))

ListInv == ReaderInv /\ IndexInv

-----------------------------------------------------------------------------
(* Searching a list.                                                     *)

LEMMA FirstUnique ==
  ASSUME NEW l, NEW h, NEW k, Len(l) \in Nat, Distinct(l, h),
         NEW n \in 1..Len(l), h[l[n]].key = k
  PROVE  FirstWith(k, l, h) = l[n]
  <1> DEFINE I == { i \in 1..Len(l) : h[l[i]].key = k }
  <1>1. I = {n}
    BY DEF Distinct
  <1>2. Min({n}) = n
    BY DEF Min
  <1>3. SelectInSeq(l, LAMBDA p : h[p].key = k) = n
    BY <1>1, <1>2 DEF SelectInSeq
  <1> QED BY <1>3 DEF FirstWith

LEMMA FirstNone ==
  ASSUME NEW l, NEW h, NEW k, \A n \in 1..Len(l) : h[l[n]].key # k
  PROVE  FirstWith(k, l, h) = 0
  <1>1. SelectInSeq(l, LAMBDA p : h[p].key = k) = 0
    BY DEF SelectInSeq
  <1> QED BY <1>1 DEF FirstWith

\* A key is in the index if and only if a message of the list has it.
LEMMA IndexHas ==
  ASSUME NEW ix, NEW l, NEW h, IndexFor(ix, l, h), NEW k \in Keys
  PROVE  ix[k] # 0 <=> \E n \in 1..Len(l) : h[l[n]].key = k
  <1>1. Len(l) \in Nat /\ \A n \in 1..Len(l) : l[n] \in Nat \ {0}
    BY DEF IndexFor
  <1>2. ASSUME NEW n \in 1..Len(l), h[l[n]].key = k
        PROVE  ix[k] # 0
    BY <1>1, <1>2, FirstUnique DEF IndexFor
  <1>3. ASSUME \A n \in 1..Len(l) : h[l[n]].key # k
        PROVE  ix[k] = 0
    BY <1>3, FirstNone DEF IndexFor
  <1> QED BY <1>2, <1>3

\* A list with an element put in.
PutIn(s2, s, n, e) ==
  /\ Len(s2) = Len(s) + 1 /\ s2[n] = e
  /\ \A j \in 1..(Len(s) + 1) : j < n => s2[j] = s[j]
  /\ \A j \in 1..(Len(s) + 1) : j > n => s2[j] = s[j - 1]

LEMMA InsertAtPoints ==
  ASSUME NEW S, NEW s \in Seq(S), NEW n \in 1..(Len(s) + 1), NEW e \in S
  PROVE  /\ InsertAt(s, n, e) \in Seq(S)
         /\ PutIn(InsertAt(s, n, e), s, n, e)
  <1> DEFINE a == SubSeq(s, 1, n - 1)  b == SubSeq(s, n, Len(s))
  <1>1. /\ a \in Seq(S) /\ Len(a) = n - 1
        /\ \A j \in 1..(n - 1) : a[j] = s[j]
    BY SubSeqProperties
  <1>2. /\ b \in Seq(S) /\ Len(b) = Len(s) + 1 - n
        /\ \A j \in 1..(Len(s) + 1 - n) : b[j] = s[n + j - 1]
    BY SubSeqProperties
  <1>3. InsertAt(s, n, e) = (a \o <<e>>) \o b
    BY DEF InsertAt
  <1> HIDE DEF a, b
  <1>4. /\ a \o <<e>> \in Seq(S) /\ Len(a \o <<e>>) = n
        /\ (a \o <<e>>)[n] = e
        /\ \A j \in 1..(n - 1) : (a \o <<e>>)[j] = a[j]
    BY <1>1
  <1> DEFINE c == a \o <<e>>
  <1> HIDE DEF c
  <1>5. c \in Seq(S) /\ Len(c) = n /\ c[n] = e /\ \A j \in 1..(n - 1) : c[j] = s[j]
    BY <1>1, <1>4 DEF c
  <1>6. /\ c \o b \in Seq(S) /\ Len(c \o b) = Len(s) + 1
        /\ \A j \in 1..n : (c \o b)[j] = c[j]
        /\ \A j \in (n + 1)..(Len(s) + 1) : (c \o b)[j] = b[j - n]
    BY <1>2, <1>5, ConcatProperties
  <1>7. \A j \in (n + 1)..(Len(s) + 1) : (c \o b)[j] = s[j - 1]
    BY <1>2, <1>6
  <1> DEFINE s2 == c \o b
  <1> HIDE DEF s2
  <1>8. s2 \in Seq(S) /\ PutIn(s2, s, n, e)
    BY <1>5, <1>6, <1>7 DEF s2, PutIn
  <1> QED BY <1>3, <1>8 DEF c, s2

\* Indexed makes an index, where the keys differ.
LEMMA IndexedIsIndex ==
  ASSUME NEW l, NEW h, h \in Seq(HeapMessages), l \in Seq(1..Len(h)), Distinct(l, h)
  PROVE  IndexFor(Indexed(l, h), l, h)
  <1>1. \A k \in Keys : FirstWith(k, l, h) \in Nat
    <2> SUFFICES ASSUME NEW k \in Keys PROVE FirstWith(k, l, h) \in Nat
      OBVIOUS
    <2>1. CASE \E n \in 1..Len(l) : h[l[n]].key = k
      <3>1. PICK n \in 1..Len(l) : h[l[n]].key = k
        BY <2>1
      <3>2. FirstWith(k, l, h) = l[n] /\ l[n] \in 1..Len(h)
        BY <3>1, FirstUnique
      <3> QED BY <3>2
    <2>2. CASE \A n \in 1..Len(l) : h[l[n]].key # k
      BY <2>2, FirstNone
    <2> QED BY <2>1, <2>2
  <1> QED BY <1>1 DEF IndexFor, Indexed

\* Where an element was before one was put in at n.
Before(j, n) == IF j < n THEN j ELSE j - 1

Shifted(n, len) ==
  /\ \A j \in 1..(len + 1) : j # n =>
       /\ Before(j, n) \in 1..len
       /\ (j < n /\ Before(j, n) = j) \/ (j > n /\ Before(j, n) = j - 1)
  /\ \A i \in 1..len : \E j \in 1..(len + 1) : j # n /\ Before(j, n) = i

LEMMA BeforeFacts == ASSUME NEW len \in Nat, NEW n \in 1..(len + 1) PROVE Shifted(n, len)
<1>1. ASSUME NEW i \in 1..len
      PROVE  \E j \in 1..(len + 1) : j # n /\ Before(j, n) = i
  <2>1. CASE i < n
    <3>1. i \in 1..(len + 1) /\ i # n /\ Before(i, n) = i
      BY <2>1 DEF Before
    <3> QED BY <3>1
  <2>2. CASE ~(i < n)
    <3>1. i + 1 \in 1..(len + 1) /\ i + 1 # n /\ Before(i + 1, n) = i
      BY <2>2 DEF Before
    <3> QED BY <3>1
  <2> QED BY <2>1, <2>2
<1>2. \A j \in 1..(len + 1) : j # n =>
        /\ Before(j, n) \in 1..len
        /\ (j < n /\ Before(j, n) = j) \/ (j > n /\ Before(j, n) = j - 1)
  <2> SUFFICES ASSUME NEW j \in 1..(len + 1), j # n
               PROVE  /\ Before(j, n) \in 1..len
                      /\ (j < n /\ Before(j, n) = j) \/ (j > n /\ Before(j, n) = j - 1)
    OBVIOUS
  <2>1. CASE j < n
    <3>1. Before(j, n) = j
      BY <2>1 DEF Before
    <3>2. j \in 1..len
      BY <2>1
    <3> QED BY <2>1, <3>1, <3>2
  <2>2. CASE j > n
    <3>1. Before(j, n) = j - 1
      BY <2>2 DEF Before
    <3>2. j - 1 \in 1..len
      BY <2>2
    <3> QED BY <2>2, <3>1, <3>2
  <2> QED BY <2>1, <2>2
<1> QED BY <1>1, <1>2 DEF Shifted

\* The list and the index after a message has been put in.
LEMMA InsertIndexed ==
  ASSUME NEW ix, NEW l, NEW h, IndexFor(ix, l, h),
         NEW m \in HeapMessages, NEW n \in 1..(Len(l) + 1), ix[m.key] = 0
  PROVE  IndexFor([ix EXCEPT ![m.key] = Len(h) + 1],
                  InsertAt(l, n, Len(h) + 1), Append(h, m))
  <1> DEFINE p == Len(h) + 1
             h2 == Append(h, m)
             l2 == InsertAt(l, n, p)
             ix2 == [ix EXCEPT ![m.key] = p]
  <1>1. /\ h \in Seq(HeapMessages) /\ Len(h) \in Nat
        /\ l \in Seq(1..Len(h)) /\ Len(l) \in Nat
        /\ \A i \in 1..Len(l) : l[i] \in 1..Len(h)
        /\ m.key \in Keys
    BY DEF IndexFor, HeapMessages
  <1>2. /\ h2 \in Seq(HeapMessages) /\ Len(h2) = p /\ h2[p] = m
        /\ \A i \in 1..Len(h) : h2[i] = h[i]
    BY <1>1
  <1>3. l \in Seq(1..p)
    BY <1>1
  <1>4. /\ l2 \in Seq(1..p) /\ Len(l2) = Len(l) + 1 /\ l2[n] = p
        /\ \A j \in 1..(Len(l) + 1) : j < n => l2[j] = l[j]
        /\ \A j \in 1..(Len(l) + 1) : j > n => l2[j] = l[j - 1]
    <2>1. PICK S : S = 1..p
      OBVIOUS
    <2>2. PICK q : q = p
      OBVIOUS
    <2>3. q \in S /\ l \in Seq(S)
      BY <1>1, <1>3, <2>1, <2>2
    <2>4. InsertAt(l, n, q) \in Seq(S) /\ PutIn(InsertAt(l, n, q), l, n, q)
      BY <2>3, InsertAtPoints
    <2>5. l2 \in Seq(S) /\ PutIn(l2, l, n, p)
      BY <2>2, <2>4
    <2> HIDE DEF l2, p
    <2> QED BY <2>1, <2>5 DEF PutIn
  <1> HIDE DEF h2, l2
  <1>f. Shifted(n, Len(l))
    BY <1>1, BeforeFacts
  <1>5. \A j \in 1..Len(l2) : j # n =>
          /\ Before(j, n) \in 1..Len(l) /\ l2[j] = l[Before(j, n)]
          /\ h2[l2[j]] = h[l[Before(j, n)]]
    <2> SUFFICES ASSUME NEW j \in 1..Len(l2), j # n
                 PROVE  /\ Before(j, n) \in 1..Len(l) /\ l2[j] = l[Before(j, n)]
                        /\ h2[l2[j]] = h[l[Before(j, n)]]
      OBVIOUS
    <2>1. PICK b : b = Before(j, n)
      OBVIOUS
    <2>2. /\ j \in 1..(Len(l) + 1) /\ b \in 1..Len(l)
          /\ (j < n /\ b = j) \/ (j > n /\ b = j - 1)
      BY <2>1, <1>1, <1>4, <1>f DEF Shifted
    <2>3. l2[j] = l[b]
      BY <2>2, <1>4
    <2>4. l[b] \in 1..Len(h)
      BY <2>2, <1>1
    <2>5. h2[l2[j]] = h[l[b]]
      BY <2>3, <2>4, <1>2
    <2> QED BY <2>1, <2>2, <2>3, <2>5
  <1>6. \A i \in 1..Len(l) : h[l[i]].key # m.key
    BY <1>1, IndexHas
  <1>e. Len(l2) \in Nat /\ n \in 1..Len(l2) /\ h2[l2[n]].key = m.key
    BY <1>1, <1>2, <1>4
  <1>7. Distinct(l2, h2)
    <2> SUFFICES ASSUME NEW i \in 1..Len(l2), NEW j \in 1..Len(l2),
                        h2[l2[i]].key = h2[l2[j]].key
                 PROVE  i = j
      BY DEF Distinct
    <2>1. ASSUME NEW a \in 1..Len(l2), a # n PROVE h2[l2[a]].key # m.key
      BY <2>1, <1>5, <1>6
    <2>3. CASE i = n \/ j = n
      BY <2>1, <2>3, <1>e
    <2>2. CASE i # n /\ j # n
      <3>1. /\ Before(i, n) \in 1..Len(l) /\ Before(j, n) \in 1..Len(l)
            /\ h[l[Before(i, n)]].key = h[l[Before(j, n)]].key
        BY <2>2, <1>5
      <3>2. Before(i, n) = Before(j, n)
        BY <3>1 DEF IndexFor, Distinct
      <3>3. i \in 1..(Len(l) + 1) /\ j \in 1..(Len(l) + 1)
        BY <1>4
      <3>4. /\ (i < n /\ Before(i, n) = i) \/ (i > n /\ Before(i, n) = i - 1)
            /\ (j < n /\ Before(j, n) = j) \/ (j > n /\ Before(j, n) = j - 1)
        BY <3>3, <2>2, <1>f DEF Shifted
      <3> QED BY <3>2, <3>3, <3>4
    <2> QED BY <2>2, <2>3
  <1>8. ASSUME NEW k \in Keys PROVE ix2[k] = FirstWith(k, l2, h2)
    <2>1. CASE k = m.key
      <3>1. FirstWith(k, l2, h2) = l2[n]
        BY <2>1, <1>e, <1>7, FirstUnique
      <3>2. ix2[k] = p
        BY <2>1, <1>1 DEF IndexFor
      <3> QED BY <3>1, <3>2, <1>4
    <2>2. CASE k # m.key /\ \E i \in 1..Len(l) : h[l[i]].key = k
      <3>1. PICK i \in 1..Len(l) : h[l[i]].key = k
        BY <2>2
      <3>2. PICK j \in 1..Len(l2) : j # n /\ Before(j, n) = i
        BY <1>4, <1>f DEF Shifted
      <3>3. l2[j] = l[i] /\ h2[l2[j]].key = k
        BY <3>1, <3>2, <1>5
      <3>4. FirstWith(k, l2, h2) = l2[j] /\ FirstWith(k, l, h) = l[i]
        <4>1. Distinct(l, h)
          BY DEF IndexFor
        <4>2. FirstWith(k, l2, h2) = l2[j]
          BY <3>2, <3>3, <1>e, <1>7, FirstUnique
        <4>3. FirstWith(k, l, h) = l[i]
          BY <3>1, <1>1, <4>1, FirstUnique
        <4> QED BY <4>2, <4>3
      <3>5. ix2[k] = ix[k] /\ ix[k] = FirstWith(k, l, h)
        BY <2>2 DEF IndexFor
      <3> QED BY <3>3, <3>4, <3>5
    <2>3. CASE k # m.key /\ \A i \in 1..Len(l) : h[l[i]].key # k
      <3>1. \A j \in 1..Len(l2) : h2[l2[j]].key # k
        <4> SUFFICES ASSUME NEW j \in 1..Len(l2) PROVE h2[l2[j]].key # k
          OBVIOUS
        <4>1. CASE j = n
          BY <4>1, <2>3, <1>e
        <4>2. CASE j # n
          BY <4>2, <2>3, <1>5
        <4> QED BY <4>1, <4>2
      <3>2. FirstWith(k, l2, h2) = 0 /\ FirstWith(k, l, h) = 0
        BY <3>1, <2>3, FirstNone
      <3>3. ix2[k] = ix[k] /\ ix[k] = FirstWith(k, l, h)
        BY <2>3 DEF IndexFor
      <3> QED BY <3>2, <3>3
    <2> QED BY <2>1, <2>2, <2>3
  <1>9. ix2 \in [Keys -> Nat]
    BY <1>1 DEF IndexFor
  <1> QED BY <1>2, <1>4, <1>7, <1>8, <1>9 DEF IndexFor, h2, l2

-----------------------------------------------------------------------------
(* The programs.                                                         *)

LEMMA Pairs == \A a, b : <<a, b>> \in Seq({a, b})
  OBVIOUS

LEMMA Plans ==
  ASSUME NEW p \in DOMAIN Plan
  PROVE  /\ Plan[p] \in Seq(Steps(p))
         /\ "edit" \in Steps(p) => p = "library"
         /\ "fill_header" \in Steps(p) => p = "msginit"
  <1>1. CASE p \in {"msgconv", "msgattrib", "msgmerge", "msginit", "msgfmt"}
    <2>1. Len(Plan[p]) = 2 /\ Plan[p] = <<Plan[p][1], Plan[p][2]>> /\ DOMAIN Plan[p] = 1..2
      BY <1>1 DEF Plan
    <2>2. Steps(p) = {Plan[p][1], Plan[p][2]}
      BY <2>1 DEF Steps
    <2>3. "edit" \notin {Plan[p][1], Plan[p][2]}
      BY <1>1 DEF Plan
    <2>4. "fill_header" \in {Plan[p][1], Plan[p][2]} => p = "msginit"
      BY <1>1 DEF Plan
    <2>5. Plan[p] \in Seq(Steps(p))
      BY <2>1, <2>2, Pairs, Zenon
    <2> QED BY <2>2, <2>3, <2>4, <2>5, Zenon
  <1>2. CASE p \in {"msgcmp", "msgcat", "html"}
    <2>1. PICK a, b, c : /\ Plan[p] = <<a, b, c>>
                         /\ "edit" \notin {a, b, c} /\ "fill_header" \notin {a, b, c}
      BY <1>2 DEF Plan
    <2>2. Steps(p) = {a, b, c}
      BY <2>1 DEF Steps
    <2>3. <<a, b, c>> \in Seq({a, b, c})
      OBVIOUS
    <2>4. Plan[p] \in Seq(Steps(p))
      BY <2>1, <2>2, <2>3, Zenon
    <2> QED BY <2>1, <2>2, <2>4, Zenon
  <1>3. CASE p = "library"
    <2>1. Plan[p] = <<"read", "edit", "edit", "edit">> /\ DOMAIN Plan[p] = 1..4
      BY <1>3 DEF Plan
    <2>2. Steps(p) = {"read", "edit"}
      BY <2>1 DEF Steps
    <2> QED BY <2>1, <2>2, <1>3
  <1>4. DOMAIN Plan = {"msgconv", "msgattrib", "msgcmp", "msgcat", "msgmerge", "msginit",
                       "msgfmt", "html", "library"}
    BY DEF Plan
  <1> QED BY <1>1, <1>2, <1>3, <1>4

\* The program that does it.
LEMMA Doing ==
  ASSUME ReaderInv, NEW op, Running(op)
  PROVE  /\ op \in Steps(input.program) /\ input.program \in DOMAIN Plan
         /\ Tail(todo) \in Seq(Steps(input.program))
  <1>1. todo \in Seq(Steps(input.program)) /\ todo # <<>>
    BY DEF ReaderInv, Running
  <1>2. Head(todo) \in Steps(input.program)
    BY <1>1
  <1> QED BY <1>1, <1>2, ListAssumption DEF ReaderInv, Running

LEMMA ReaderStep == ReaderInv /\ [ListNext]_listvars => ReaderInv'
  <1> SUFFICES ASSUME ReaderInv, [ListNext]_listvars PROVE ReaderInv'
    OBVIOUS
  <1>1. input' = input /\ rest' \in Seq(HeapMessages)
    <2>1. CASE Read
      BY <2>1 DEF Read, ReaderInv
    <2>2. CASE ~Read
      BY <2>2 DEF ReaderInv, ListNext, listvars, readvars, EndRead, AddHeader, FillHeader,
                  RemoveObsolete, Copy, Convert, EndConvert, Edit, Stop
    <2> QED BY <2>1, <2>2
  <1>2. todo' = todo \/ ((\E op : Running(op)) /\ todo' = Tail(todo))
    BY DEF ListNext, listvars, readvars, Read, EndRead, AddHeader, FillHeader,
           RemoveObsolete, Copy, Convert, EndConvert, Edit, Stop
  <1>3. todo' \in Seq(Steps(input.program))
    BY <1>2, Doing DEF ReaderInv
  <1> QED BY <1>1, <1>3 DEF ReaderInv

LEMMA ListInitially == ListInit => ListInv
  <1> SUFFICES ASSUME ListInit PROVE ListInv
    OBVIOUS
  <1>1. ReaderInv
    BY ListAssumption, Plans DEF ReaderInv, ListInit, HeapMessages
  <1>2. Len(<<>>) = 0 /\ <<>> \in Seq(HeapMessages) /\ <<>> \in Seq(1..0)
    OBVIOUS
  <1>3. IndexFor(EmptyIndex, <<>>, <<>>)
    <2>1. Distinct(<<>>, <<>>)
      BY <1>2 DEF Distinct
    <2>2. \A k \in Keys : FirstWith(k, <<>>, <<>>) = 0
      BY <1>2, FirstNone
    <2> QED BY <1>2, <2>1, <2>2 DEF IndexFor, EmptyIndex
  <1>4. IndexInv
    <2> SUFFICES ASSUME use_hashtable
                 PROVE  /\ ~input.allow_duplicates
                        /\ heap \in Seq(HeapMessages) /\ item \in Seq(1..Len(heap))
                        /\ pos \in 0..Len(item) /\ pos = 0 /\ ~changed
                        /\ IndexFor(index, item, heap)
      BY DEF IndexInv
    <2>1. heap = <<>> /\ item = <<>> /\ index = EmptyIndex /\ pos = 0 /\ ~changed
      BY DEF ListInit
    <2>2. ~input.allow_duplicates
      BY DEF ListInit
    <2>3. IndexFor(index, item, heap)
      BY <1>3, <2>1, Zenon
    <2>4. heap \in Seq(HeapMessages) /\ item \in Seq(1..Len(heap)) /\ pos \in 0..Len(item)
      BY <1>2, <2>1
    <2> QED BY <2>1, <2>2, <2>3, <2>4
  <1> QED BY <1>1, <1>4 DEF ListInv

-----------------------------------------------------------------------------
(* The steps.                                                            *)

\* Outside of conversions, list and index agree.
LEMMA Agreement ==
  ASSUME IndexInv, NEW op, Running(op), op # "convert", use_hashtable
  PROVE  pos = 0 /\ ~changed /\ ~input.allow_duplicates /\ IndexFor(index, item, heap)
  BY DEF IndexInv, Running

LEMMA InsertStep ==
  ASSUME IndexInv, NEW op, Running(op), op # "convert",
         NEW m \in HeapMessages, NEW n, use_hashtable => n \in 1..(Len(item) + 1),
         InsertAtPos(m, n), UNCHANGED <<input, iconvvars>>
  PROVE  IndexInv'
  <1> SUFFICES ASSUME outcome' = "running", use_hashtable'
               PROVE  /\ ~input.allow_duplicates
                      /\ heap' \in Seq(HeapMessages) /\ item' \in Seq(1..Len(heap'))
                      /\ pos' \in 0..Len(item') /\ pos' = 0 /\ ~changed'
                      /\ IndexFor(index', item', heap')
    BY DEF IndexInv
  <1>1. use_hashtable /\ pos' = 0 /\ ~changed'
    BY Agreement DEF InsertAtPos, iconvvars
  <1>2. ~input.allow_duplicates /\ IndexFor(index, item, heap)
    BY <1>1, Agreement
  <1>3. /\ heap' = Append(heap, m) /\ item' = InsertAt(item, n, Len(heap) + 1)
        /\ index[m.key] = 0 /\ index' = [index EXCEPT ![m.key] = Len(heap) + 1]
    BY <1>1 DEF InsertAtPos
  <1>4. IndexFor(index', item', heap')
    <2>1. IndexFor([index EXCEPT ![m.key] = Len(heap) + 1],
                   InsertAt(item, n, Len(heap) + 1), Append(heap, m))
      BY <1>1, <1>2, <1>3, InsertIndexed
    <2> QED BY <1>3, <2>1, Zenon
  <1> QED BY <1>1, <1>2, <1>4 DEF IndexFor

\* A step that leaves list and index alone, and is none of a conversion.
LEMMA QuietStep ==
  ASSUME IndexInv, NEW op, Running(op), op # "convert",
         UNCHANGED <<input, heap, item, use_hashtable, index, iconvvars>>
  PROVE  IndexInv'
  BY Agreement DEF IndexInv, Running, iconvvars

LEMMA ReadStep == ListInv /\ Read => IndexInv'
  <1> SUFFICES ASSUME ListInv, Read PROVE IndexInv'
    OBVIOUS
  <1>1. Running("read") /\ rest # <<>> /\ IndexInv /\ UNCHANGED <<input, iconvvars>>
    BY DEF Read, ListInv
  <1>2. Head(rest) \in HeapMessages
    BY <1>1 DEF ListInv, ReaderInv
  <1>3. CASE Seen(Head(rest))
    <2>1. UNCHANGED <<heap, item, use_hashtable, index>>
      BY <1>3 DEF Read
    <2> QED BY <1>1, <2>1, QuietStep
  <1>4. CASE ~Seen(Head(rest))
    <2>1. InsertAtPos(Head(rest), Len(item) + 1)
      BY <1>4 DEF Read
    <2>2. use_hashtable => Len(item) + 1 \in 1..(Len(item) + 1)
      BY <1>1, Agreement DEF IndexFor
    <2> QED BY <1>1, <1>2, <2>1, <2>2, InsertStep
  <1> QED BY <1>3, <1>4

LEMMA HeaderIsMessage == NewHeader \in HeapMessages /\ NewHeader.key = HeaderKey
  BY ListAssumption DEF NewHeader, HeapMessages

LEMMA HeaderSteps == ListInv /\ (AddHeader \/ FillHeader) => IndexInv'
  <1> SUFFICES ASSUME ListInv, AddHeader \/ FillHeader PROVE IndexInv'
    OBVIOUS
  <1>1. PICK op \in {"header", "fill_header"} : Running(op)
    BY DEF AddHeader, FillHeader
  <1>2. IndexInv /\ UNCHANGED <<input, iconvvars>>
    BY DEF AddHeader, FillHeader, readvars, ListInv
  <1>3. CASE InsertAtPos(NewHeader, 1)
    <2>1. use_hashtable => 1 \in 1..(Len(item) + 1)
      BY <1>1, <1>2, Agreement DEF IndexFor
    <2> QED BY <1>1, <1>2, <1>3, <2>1, HeaderIsMessage, InsertStep
  <1>4. CASE ~InsertAtPos(NewHeader, 1)
    <2>1. UNCHANGED <<heap, item, use_hashtable, index>>
      BY <1>4 DEF AddHeader, FillHeader
    <2> QED BY <1>1, <1>2, <2>1, QuietStep
  <1> QED BY <1>3, <1>4

LEMMA RemoveStep == ListInv /\ RemoveObsolete => IndexInv'
  <1> SUFFICES ASSUME ListInv, RemoveObsolete PROVE IndexInv'
    OBVIOUS
  <1>1. CASE use_hashtable /\ Removed = {}
    <2>1. /\ Running("remove") /\ IndexInv
          /\ UNCHANGED <<input, heap, item, use_hashtable, index, iconvvars>>
      BY <1>1 DEF RemoveObsolete, KeepsIndex, readvars, ListInv
    <2> QED BY <2>1, QuietStep
  <1>2. CASE ~(use_hashtable /\ Removed = {})
    BY <1>2 DEF RemoveObsolete, KeepsIndex, IndexInv
  <1> QED BY <1>1, <1>2

LEMMA CopyStep == ListInv /\ Copy => IndexInv'
  <1> SUFFICES ASSUME ListInv, Copy, outcome' = "running", use_hashtable'
               PROVE  /\ ~input.allow_duplicates
                      /\ heap' \in Seq(HeapMessages) /\ item' \in Seq(1..Len(heap'))
                      /\ pos' \in 0..Len(item') /\ pos' = 0 /\ ~changed'
                      /\ IndexFor(index', item', heap')
    BY DEF IndexInv, Copy, readvars
  <1>1. use_hashtable /\ Running("copy") /\ IndexInv
    BY DEF Copy, ListInv
  <1>2. /\ pos' = 0 /\ ~changed' /\ ~input.allow_duplicates
        /\ IndexFor(index, item, heap)
    BY <1>1, Agreement DEF Copy, iconvvars
  <1>3. /\ heap' = [n \in 1..Len(item) |-> heap[item[n]]]
        /\ item' = [n \in 1..Len(item) |-> n]
        /\ Distinct(item', heap') /\ index' = Indexed(item', heap')
    BY <1>1 DEF Copy, Running
  <1>4. /\ heap' \in Seq(HeapMessages) /\ Len(heap') = Len(item)
        /\ item' \in Seq(1..Len(item)) /\ Len(item') = Len(item) /\ Len(item) \in Nat
    <2>1. item \in Seq(1..Len(heap)) /\ heap \in Seq(HeapMessages) /\ Len(item) \in Nat
      BY <1>2 DEF IndexFor
    <2>2. \A n \in 1..Len(item) : heap[item[n]] \in HeapMessages
      BY <2>1
    <2> DEFINE N == Len(item)
    <2>3. heap' \in [1..N -> HeapMessages] /\ item' \in [1..N -> 1..N]
      BY <1>3, <2>2
    <2>4. N \in Nat
      BY <2>1
    <2> HIDE DEF N
    <2>5. /\ heap' \in Seq(HeapMessages) /\ Len(heap') = N
          /\ item' \in Seq(1..N) /\ Len(item') = N
      BY <2>3, <2>4
    <2> QED BY <2>4, <2>5 DEF N
  <1>5. IndexFor(index', item', heap')
    BY <1>3, <1>4, IndexedIsIndex
  <1> QED BY <1>2, <1>4, <1>5

LEMMA WithKey ==
  ASSUME NEW m \in HeapMessages, NEW k \in Keys
  PROVE  /\ m.key \in Keys
         /\ [m EXCEPT !.key = k] \in HeapMessages
         /\ m.key = k => [m EXCEPT !.key = k] = m
  BY DEF HeapMessages

\* A message whose key is in ASCII keeps it.
LEMMA ConvertStep == ListInv /\ Convert => IndexInv'
  <1> SUFFICES ASSUME ListInv, Convert, use_hashtable PROVE IndexInv'
    BY DEF Convert, IndexInv
  <1> DEFINE p == item[pos + 1]
  <1>1. /\ ~input.allow_duplicates
        /\ heap \in Seq(HeapMessages) /\ item \in Seq(1..Len(heap))
        /\ pos \in 0..Len(item) /\ (~changed => IndexFor(index, item, heap))
    BY DEF Convert, Running, ListInv, IndexInv
  <1>2. /\ Running("convert") /\ pos < Len(item) /\ pos' = pos + 1
        /\ UNCHANGED <<input, todo, item, use_hashtable, index, outcome>>
        /\ heap' = [heap EXCEPT ![p].key = input.conversion[@]]
        /\ changed' = (changed \/ heap[p].key \notin Ascii)
    BY DEF Convert, readvars
  <1>3. /\ Len(item) \in Nat /\ pos' \in 0..Len(item) /\ pos' # 0
        /\ p \in 1..Len(heap) /\ Len(heap) \in Nat
    BY <1>1, <1>2
  <1> HIDE DEF p
  <1> DEFINE key == heap[p].key
  <1>4. heap[p] \in HeapMessages /\ key \in Keys
    <2>1. heap[p] \in HeapMessages
      BY <1>1, <1>3
    <2> QED BY <2>1, WithKey, ListAssumption
  <1>5. input.conversion \in [Keys -> Keys] /\ (key \in Ascii => input.conversion[key] = key)
    BY ListAssumption DEF ListInv, ReaderInv
  <1> DEFINE m == [heap[p] EXCEPT !.key = input.conversion[key]]
  <1>6. m \in HeapMessages /\ (key \in Ascii => m = heap[p])
    <2>1. input.conversion[key] \in Keys
      BY <1>4, <1>5
    <2> QED BY <1>4, <1>5, <2>1, WithKey
  <1>7. heap' = [heap EXCEPT ![p] = m]
    BY <1>2
  <1> HIDE DEF m
  <1>8. heap' \in Seq(HeapMessages) /\ Len(heap') = Len(heap)
    BY <1>1, <1>3, <1>6, <1>7
  <1>9. ASSUME ~changed' PROVE IndexFor(index', item', heap')
    <2>1. ~changed /\ key \in Ascii
      BY <1>2, <1>9
    <2>2. heap' = heap
      BY <2>1, <1>1, <1>3, <1>6, <1>7
    <2> QED BY <2>1, <2>2, <1>1, <1>2
  <1>10. Running("convert")'
    BY <1>2 DEF Running
  <1>11. item' \in Seq(1..Len(heap')) /\ pos' \in 0..Len(item') /\ ~input'.allow_duplicates
    BY <1>1, <1>2, <1>3, <1>8
  <1> QED BY <1>3, <1>8, <1>9, <1>10, <1>11 DEF IndexInv

LEMMA EndConvertStep == ListInv /\ EndConvert => IndexInv'
  <1> SUFFICES ASSUME ListInv, EndConvert, use_hashtable'
               PROVE  /\ ~input'.allow_duplicates
                      /\ heap' \in Seq(HeapMessages) /\ item' \in Seq(1..Len(heap'))
                      /\ pos' \in 0..Len(item') /\ pos' = 0 /\ ~changed'
                      /\ IndexFor(index', item', heap')
    BY DEF IndexInv
  <1>1. /\ use_hashtable /\ (changed => Distinct(item, heap))
        /\ index' = IF changed THEN Indexed(item, heap) ELSE index
        /\ pos' = 0 /\ ~changed' /\ UNCHANGED <<input, heap, item>>
    BY DEF EndConvert, readvars
  <1>2. /\ ~input.allow_duplicates
        /\ heap \in Seq(HeapMessages) /\ item \in Seq(1..Len(heap))
        /\ (~changed => IndexFor(index, item, heap))
    BY <1>1 DEF EndConvert, Running, ListInv, IndexInv
  <1>3. IndexFor(index', item', heap')
    <2>1. CASE changed
      BY <2>1, <1>1, <1>2, IndexedIsIndex
    <2>2. CASE ~changed
      BY <2>2, <1>1, <1>2
    <2> QED BY <2>1, <2>2
  <1>4. pos' \in 0..Len(item')
    BY <1>1, <1>2
  <1> QED BY <1>1, <1>2, <1>3, <1>4

\* A list that a program fills by way of libgettextpo has no index.
LEMMA EditStep == ListInv /\ Edit => IndexInv'
  <1> SUFFICES ASSUME ListInv, Edit PROVE ~use_hashtable'
    BY DEF IndexInv
  <1>1. Running("edit") /\ use_hashtable' = use_hashtable
    BY DEF Edit, InsertAtPos
  <1>2. input.program = "library" /\ input.allow_duplicates
    BY <1>1, Doing, Plans, ListAssumption DEF ListInv, ReaderInv
  <1>3. ~use_hashtable
    BY <1>1, <1>2, Agreement DEF ListInv
  <1> QED BY <1>1, <1>3

LEMMA EndStep == ListInv /\ (EndRead \/ Stop) => IndexInv'
  <1> SUFFICES ASSUME ListInv, EndRead \/ Stop PROVE IndexInv'
    OBVIOUS
  <1>1. CASE EndRead
    <2>1. /\ Running("read") /\ IndexInv
          /\ UNCHANGED <<input, heap, item, use_hashtable, index, iconvvars>>
      BY <1>1 DEF EndRead, readvars, ListInv
    <2> QED BY <2>1, QuietStep
  <1>2. CASE Stop
    BY <1>2 DEF Stop, IndexInv
  <1> QED BY <1>1, <1>2

LEMMA ListKept == ListInv /\ [ListNext]_listvars => ListInv'
  <1> SUFFICES ASSUME ListInv, [ListNext]_listvars PROVE IndexInv'
    BY ReaderStep DEF ListInv
  <1>1. CASE UNCHANGED listvars
    BY <1>1 DEF ListInv, IndexInv, listvars, Running
  <1>2. CASE ListNext
    BY <1>2, ReadStep, HeaderSteps, RemoveStep, CopyStep, ConvertStep, EndConvertStep,
       EditStep, EndStep DEF ListNext
  <1> QED BY <1>1, <1>2

-----------------------------------------------------------------------------
(* No program aborts, except msginit.                                    *)

\* A header entry that msginit reads is not obsolete.
LiveHeaders ==
  \A in \in ListInputs : in.program = "msginit" =>
    \A n \in 1..Len(in.file) : in.file[n].key = HeaderKey => ~in.file[n].obsolete

HeadersIn(s) == \A n \in 1..Len(s) : s[n].key = HeaderKey => s[n] = NewHeader

AbortInv ==
  /\ NeverAborts
  /\ input.program = "msginit" =>
       heap \in Seq(HeapMessages) /\ HeadersIn(rest) /\ HeadersIn(heap)

\* A key that is not found can be put in.
LEMMA InsertsNew ==
  ASSUME ReaderInv, NeverAborts, NEW m, NEW n, InsertAtPos(m, n),
         use_hashtable => index[m.key] = 0
  PROVE  NeverAborts'
  BY DEF InsertAtPos, NeverAborts

LEMMA ReadGoesOn == ListInv /\ NeverAborts /\ Read => NeverAborts'
  <1> SUFFICES ASSUME ListInv, NeverAborts, Read PROVE NeverAborts'
    OBVIOUS
  <1>1. CASE Seen(Head(rest))
    BY <1>1 DEF Read, NeverAborts
  <1>2. CASE ~Seen(Head(rest))
    <2>1. InsertAtPos(Head(rest), Len(item) + 1)
      BY <1>2 DEF Read
    <2>2. ASSUME use_hashtable PROVE index[Head(rest).key] = 0
      <3>1. ~input.allow_duplicates
        BY <2>2, Agreement DEF Read, ListInv
      <3> QED BY <2>2, <3>1, <1>2 DEF Seen, Search
    <2> QED BY <2>1, <2>2, InsertsNew DEF ListInv
  <1> QED BY <1>1, <1>2

LEMMA HeaderGoesOn == ListInv /\ AbortInv /\ (AddHeader \/ FillHeader) => NeverAborts'
  <1> SUFFICES ASSUME ListInv, AbortInv, AddHeader \/ FillHeader PROVE NeverAborts'
    OBVIOUS
  <1>1. CASE ~InsertAtPos(NewHeader, 1)
    BY <1>1 DEF AddHeader, FillHeader, AbortInv, NeverAborts
  <1>2. CASE AddHeader /\ InsertAtPos(NewHeader, 1)
    <2>1. LacksHeader \/ outcome' = outcome
      BY <1>2 DEF AddHeader
    <2>2. use_hashtable /\ LacksHeader => index[NewHeader.key] = 0
      BY HeaderIsMessage DEF LacksHeader, Search
    <2> QED BY <1>2, <2>1, <2>2, InsertsNew DEF ListInv, AbortInv, NeverAborts
  <1>3. CASE FillHeader /\ InsertAtPos(NewHeader, 1)
    <2>1. Running("fill_header") /\ (~LiveHeader \/ outcome' = outcome)
      BY <1>3 DEF FillHeader
    <2>2. input.program = "msginit"
      BY <2>1, Doing, Plans DEF ListInv
    <2>3. ASSUME use_hashtable, ~LiveHeader PROVE index[NewHeader.key] = 0
      <3>1. IndexFor(index, item, heap)
        BY <2>1, <2>3, Agreement DEF ListInv
      <3>2. \A n \in 1..Len(item) : item[n] \in 1..Len(heap)
        BY <3>1 DEF IndexFor
      <3>3. \A n \in 1..Len(item) : heap[item[n]].key # HeaderKey
        BY <2>2, <2>3, <3>2 DEF LiveHeader, AbortInv, HeadersIn
      <3>4. HeaderKey \in Keys
        BY ListAssumption
      <3> QED BY <3>1, <3>3, <3>4, IndexHas, HeaderIsMessage
    <2> QED BY <1>3, <2>1, <2>3, InsertsNew DEF ListInv, AbortInv, NeverAborts
  <1> QED BY <1>1, <1>2, <1>3

\* Copies differ as the messages do.
LEMMA CopyGoesOn == ListInv /\ NeverAborts /\ Copy => NeverAborts'
  <1> SUFFICES ASSUME ListInv, NeverAborts, Copy PROVE NeverAborts'
    OBVIOUS
  <1>1. CASE use_hashtable
    <2>1. IndexFor(index, item, heap)
      BY <1>1, Agreement DEF ListInv, Copy
    <2>2. Distinct(item, heap) /\ Len(item) \in Nat
      BY <2>1 DEF IndexFor
    <2>3. Len(item') = Len(item)
      BY <2>2 DEF Copy
    <2>4. Distinct(item', heap')
      BY <2>2, <2>3 DEF Copy, Distinct
    <2> QED BY <2>4 DEF Copy, NeverAborts
  <1>2. CASE ~use_hashtable
    BY <1>2 DEF Copy, NeverAborts
  <1> QED BY <1>1, <1>2

LEMMA NobodyAborts == ListInv /\ AbortInv /\ [ListNext]_listvars => NeverAborts'
  <1> SUFFICES ASSUME ListInv, AbortInv, [ListNext]_listvars PROVE NeverAborts'
    OBVIOUS
  <1>1. NeverAborts
    BY DEF AbortInv
  <1>2. CASE Read
    BY <1>1, <1>2, ReadGoesOn
  <1>3. CASE AddHeader \/ FillHeader
    BY <1>3, HeaderGoesOn
  <1>4. CASE Copy
    BY <1>1, <1>4, CopyGoesOn
  <1>5. CASE Edit
    <2>1. Running("edit") /\ ListInv
      BY <1>5 DEF Edit
    <2>2. input.program = "library" /\ input.allow_duplicates
      BY <2>1, Doing, Plans, ListAssumption DEF ListInv, ReaderInv
    <2>3. ~use_hashtable
      BY <2>1, <2>2, Agreement DEF ListInv
    <2> QED BY <1>1, <1>5, <2>3 DEF Edit, InsertAtPos, NeverAborts
  <1>6. CASE EndRead \/ RemoveObsolete \/ Convert \/ EndConvert \/ Stop
    BY <1>1, <1>6 DEF EndRead, RemoveObsolete, Convert, EndConvert, Stop, NeverAborts
  <1>7. CASE UNCHANGED listvars
    BY <1>1, <1>7 DEF listvars, NeverAborts
  <1> QED BY <1>2, <1>3, <1>4, <1>5, <1>6, <1>7 DEF ListNext

LEMMA HeadersAppended ==
  ASSUME NEW h \in Seq(HeapMessages), HeadersIn(h),
         NEW m \in HeapMessages, m.key = HeaderKey => m = NewHeader
  PROVE  Append(h, m) \in Seq(HeapMessages) /\ HeadersIn(Append(h, m))
  BY DEF HeadersIn

LEMMA HeadersLeft ==
  ASSUME NEW s \in Seq(HeapMessages), s # <<>>, HeadersIn(s)
  PROVE  /\ Head(s) \in HeapMessages /\ (Head(s).key = HeaderKey => Head(s) = NewHeader)
         /\ HeadersIn(Tail(s))
  BY DEF HeadersIn

\* msginit only reads messages, and puts in its own header entry.
LEMMA MsginitSteps ==
  ASSUME ReaderInv, input.program = "msginit", NEW op, Running(op)
  PROVE  op \in {"read", "fill_header"}
  <1>1. op \in Steps("msginit")
    BY Doing
  <1> QED BY <1>1 DEF Steps, Plan

LEMMA HeadersStep ==
  ASSUME ListInv, AbortInv, [ListNext]_listvars, input'.program = "msginit"
  PROVE  heap' \in Seq(HeapMessages) /\ HeadersIn(rest') /\ HeadersIn(heap')
  <1>1. input.program = "msginit"
    BY ReaderStep DEF ListNext, listvars, readvars, Read, EndRead, AddHeader, FillHeader,
       RemoveObsolete, Copy, Convert, EndConvert, Edit, Stop
  <1>2. heap \in Seq(HeapMessages) /\ HeadersIn(rest) /\ HeadersIn(heap)
    BY <1>1 DEF AbortInv
  <1>3. CASE Read
    <2>1. rest # <<>> /\ rest' = Tail(rest)
          /\ (heap' = heap \/ heap' = Append(heap, Head(rest)))
      BY <1>3 DEF Read, InsertAtPos
    <2>2. rest \in Seq(HeapMessages)
      BY DEF ListInv, ReaderInv
    <2> QED BY <1>2, <2>1, <2>2, HeadersLeft, HeadersAppended
  <1>4. CASE FillHeader
    <2>1. rest' = rest /\ (heap' = heap \/ heap' = Append(heap, NewHeader))
      BY <1>4 DEF FillHeader, InsertAtPos, readvars
    <2> QED BY <1>2, <2>1, HeadersAppended, HeaderIsMessage
  <1>5. CASE ~Read /\ ~FillHeader
    <2>1. heap' = heap /\ rest' = rest
      <3>1. CASE EndRead \/ Stop \/ UNCHANGED listvars
        BY <3>1 DEF EndRead, Stop, listvars, readvars
      <3>2. CASE AddHeader \/ RemoveObsolete \/ Copy \/ Convert \/ EndConvert \/ Edit
        <4>1. \E op \in {"header", "remove", "copy", "convert", "edit"} : Running(op)
          BY <3>2 DEF AddHeader, RemoveObsolete, Copy, Convert, EndConvert, Edit
        <4> QED BY <4>1, <1>1, MsginitSteps DEF ListInv
      <3> QED BY <3>1, <3>2, <1>5 DEF ListNext
    <2> QED BY <1>2, <2>1
  <1> QED BY <1>3, <1>4, <1>5

LEMMA AbortInitially == LiveHeaders /\ ListInit => AbortInv
  <1> SUFFICES ASSUME LiveHeaders, ListInit PROVE AbortInv
    OBVIOUS
  <1>1. NeverAborts /\ heap = <<>> /\ rest = input.file /\ input \in ListInputs
    BY DEF ListInit, NeverAborts
  <1>2. heap \in Seq(HeapMessages) /\ HeadersIn(heap)
    BY <1>1 DEF HeadersIn
  <1>3. ASSUME input.program = "msginit" PROVE HeadersIn(rest)
    <2>1. rest \in Seq(HeapMessages)
      BY ListInitially DEF ListInv, ReaderInv
    <2>2. \A n \in 1..Len(rest) : rest[n].key = HeaderKey => ~rest[n].obsolete
      BY <1>1, <1>3 DEF LiveHeaders
    <2>3. \A m \in HeapMessages : m.key = HeaderKey /\ ~m.obsolete => m = NewHeader
      BY DEF NewHeader, HeapMessages
    <2> SUFFICES ASSUME NEW n \in 1..Len(rest), rest[n].key = HeaderKey
                 PROVE  rest[n] = NewHeader
      BY DEF HeadersIn
    <2>4. rest[n] \in HeapMessages
      BY <2>1
    <2>5. ~rest[n].obsolete
      BY <2>2
    <2> QED BY <2>3, <2>4, <2>5, Zenon
  <1> QED BY <1>1, <1>2, <1>3 DEF AbortInv

-----------------------------------------------------------------------------
(* The theorems on lists.                                                *)

(* ListInv: while a program runs, the index of a list that has one is that *)
(* of its messages, except within iconv_message_list_internal, once that *)
(* has changed a key (msgl-iconv.c:311).                                 *)
THEOREM ListInvariant == ListSpec => []ListInv
  BY ListInitially, ListKept, PTL DEF ListSpec

(* IndexCurrent: a search by way of the index (message_list_search) finds*)
(* what a search of the list would, for any files, programs, keys and    *)
(* conversions.                                                          *)
THEOREM IndexIsCurrent == ListSpec => []IndexCurrent
  <1>1. ListInv => IndexCurrent
    BY DEF ListInv, IndexInv, IndexCurrent, IndexFor, Linear
  <1> QED BY <1>1, ListInvariant, PTL

(* NeverAborts: no insertion finds the key of its message in the index   *)
(* (message.c:355), unless msginit reads a file whose header entry is    *)
(* obsolete; that one is excluded because it does abort.                 *)
THEOREM InsertionsSucceed ==
  ASSUME LiveHeaders
  PROVE  ListSpec => []NeverAborts
  <1>1. ListInv /\ AbortInv /\ [ListNext]_listvars => AbortInv'
    BY NobodyAborts, HeadersStep DEF AbortInv
  <1>2. ListInit => AbortInv
    BY AbortInitially
  <1>3. AbortInv => NeverAborts
    BY DEF AbortInv
  <1> QED BY <1>1, <1>2, <1>3, ListInvariant, PTL DEF ListSpec

-----------------------------------------------------------------------------
(* msgmerge: the invariant of its parallel search.                       *)

(* The indices, as they should be.                                          *)
CurrIndex == Index(lists, {1})
CompIndex == [l \in 2..(Len(args.compendiums) + 1) |-> args.compendiums[l - 1]]

MergePoints == {"idle", "check_curr", "lock_curr", "build_curr", "search_curr",
                "check_comp", "lock_comp", "build_comp", "search_comp"}

(* The indices that exist are those of the lists in this pass.              *)
FindexInv ==
  /\ comp_findex \in {Null, CompIndex}
  /\ phase = "search" => curr_findex \in {Null, CurrIndex}

(* The lists of this pass.                                                  *)
ListsInv ==
  phase = "search" =>
    /\ Len(search_results) = Len(refmlp) /\ Len(refmlp) \in Nat
    /\ DOMAIN search_results = 1..Len(refmlp)
    /\ next \in 1..(Len(refmlp) + 1)
    /\ Index(lists, 2..Len(lists)) = CompIndex

(* A thread that searches in an index has one, and a thread between the two *)
(* searches has the result of the first.                                    *)
ThreadInv(t) ==
  /\ phase # "search" => mergepc[t] = "idle"
  /\ mergepc[t] \in MergePoints
  /\ mergepc[t] # "idle" =>
       LET m == refmlp[jj[t]]
       IN /\ jj[t] \in 1..Len(refmlp)
          /\ message_list_list_search(lists, m.id) = None
          /\ ~is_header(m) /\ args.use_fuzzy
          /\ mergepc[t] = "search_curr" => curr_findex = CurrIndex
          /\ mergepc[t] = "search_comp" => comp_findex = CompIndex
          /\ mergepc[t] \in {"check_comp", "lock_comp", "build_comp", "search_comp"} =>
               mp1[t] = FuzzySearch(CurrIndex, m.id, Threshold)

MergeInv ==
  /\ args \in Inputs /\ pass \in Nat
  /\ mergepc \in [MergeThreads -> MergePoints]
  /\ jj \in [MergeThreads -> Nat]
  /\ DOMAIN mp1 = MergeThreads
  /\ FindexInv /\ ListsInv /\ SearchSound
  /\ \A t \in MergeThreads : ThreadInv(t)

LEMMA SoundKept ==
  ASSUME UNCHANGED <<args, lists, refmlp>>
  PROVE  /\ \A j : SearchAlone(j)' = SearchAlone(j)
         /\ CurrIndex' = CurrIndex /\ CompIndex' = CompIndex
<1>1. \A best, id : LowerBound(best, id)' = LowerBound(best, id) BY DEF LowerBound
<1>2. \A j : SearchAlone(j)' = SearchAlone(j) BY <1>1 DEF SearchAlone
<1>. QED BY <1>2 DEF CurrIndex, CompIndex

LEMMA InitMerge == MergeInit => MergeInv
<1>. SUFFICES ASSUME MergeInit PROVE MergeInv
  OBVIOUS
<1>1. args \in Inputs /\ phase = "set" /\ pass = 0 /\ comp_findex = Null
  BY DEF MergeInit, MergeStart
<1>2. /\ mergepc = [t \in MergeThreads |-> "idle"]
      /\ jj = [t \in MergeThreads |-> 0] /\ DOMAIN mp1 = MergeThreads
  BY DEF MergeInit, MergeStart
<1>3. mergepc \in [MergeThreads -> MergePoints] BY <1>2 DEF MergePoints
<1>4. \A t \in MergeThreads : ThreadInv(t) BY <1>2, <1>3 DEF ThreadInv
<1>. QED BY <1>1, <1>2, <1>3, <1>4 DEF MergeInv, FindexInv, ListsInv, SearchSound

(* The loop starts.                                                         *)
LEMMA RefIsList ==
  ASSUME NEW p \in Nat \ {0}, args \in Inputs,
         args.multi_domain \/ p <= Len(args.ref)
  PROVE  Len(RefList(p)) \in Nat
<1>. DEFINE r == IF args.multi_domain THEN 1 ELSE p
            l == args.ref[r].messages
<1>1. IsList(args.ref) /\ args.ref # <<>> BY InputsAssumption DEF IsCatalog, IsFile
<1>2. r \in DOMAIN args.ref
  BY <1>1 DEF IsList
<1>3. IsList(l) BY <1>2, InputsAssumption DEF IsCatalog, ListRead, IsFile
<1>. HIDE DEF l
<1>4. PICK S : l \in Seq(S) BY <1>3 DEF IsList
<1>5. l \in Seq(S \cup {DummyHeader}) BY <1>4
<1>6. <<DummyHeader>> \o l \in Seq(S \cup {DummyHeader}) BY <1>5
<1>7. WithHeader(l) \in Seq(S \cup {DummyHeader}) BY <1>5, <1>6 DEF WithHeader
<1>. QED BY <1>7 DEF RefList, l

LEMMA StartSearch ==
  ASSUME MergeInv, SetCurrentList
  PROVE  MergeInv'
<1>. USE DEF MergeInv
<1>1. /\ phase = "set" /\ pass < Len(Passes) /\ pass' = pass + 1 /\ phase' = "search"
      /\ next' = 1 /\ refmlp' = RefList(pass + 1)
      /\ lists' = <<DefList(pass + 1)>> \o args.compendiums
      /\ search_results' = [j \in 1..Len(refmlp') |-> Null]
      /\ curr_findex' = Null
      /\ UNCHANGED <<args, def, mergepc, jj, mp1, comp_findex>>
  BY DEF SetCurrentList, Freed, data
<1>2. args.multi_domain \/ pass + 1 <= Len(args.ref)
  <2>. SUFFICES ASSUME ~args.multi_domain PROVE pass + 1 <= Len(args.ref)
    OBVIOUS
  <2>1. Len(args.ref) \in Nat BY InputsAssumption DEF IsCatalog, IsList, IsFile
  <2>2. Len(Passes) = Len(args.ref) BY <2>1 DEF Passes
  <2>. QED BY <1>1, <2>1, <2>2
<1>3. Len(refmlp') \in Nat BY <1>1, <1>2, RefIsList
<1>4. CompIndex' = CompIndex BY <1>1 DEF CompIndex
<1>5. Index(lists, 2..Len(lists))' = CompIndex
  <2>1. PICK S : args.compendiums \in Seq(S) BY InputsAssumption DEF IsList
  <2>. DEFINE c == args.compendiums
              d == DefList(pass + 1)
  <2>2. c \in Seq(S \cup {d}) /\ <<d>> \in Seq(S \cup {d}) BY <2>1
  <2>3. lists' = <<d>> \o c BY <1>1
  <2>. HIDE DEF c, d
  <2>4. Len(lists') = Len(c) + 1 /\ \A l \in 2..(Len(c) + 1) : lists'[l] = c[l - 1]
    BY <2>2, <2>3
  <2>. QED BY <2>4 DEF Index, CompIndex, c
<1>6. FindexInv' BY <1>1, <1>4 DEF FindexInv
<1>7. ListsInv' BY <1>1, <1>3, <1>4, <1>5 DEF ListsInv
<1>8. SearchSound'
  <2>1. Len(search_results') = Len(refmlp') BY <1>1, <1>3
  <2>. QED BY <1>1, <2>1 DEF SearchSound
<1>9. \A t \in MergeThreads : ThreadInv(t)' BY <1>1 DEF ThreadInv
<1>. QED BY <1>1, <1>6, <1>7, <1>8, <1>9

(* A thread finishes its iteration with what it would have found alone.     *)
LEMMA FinishSound ==
  ASSUME MergeInv, phase = "search", phase' = "search", UNCHANGED <<args, lists, refmlp>>,
         NEW j \in 1..Len(refmlp), NEW r, r = SearchAlone(j),
         search_results' = [search_results EXCEPT ![j] = r]
  PROVE  /\ SearchSound'
         /\ Len(search_results') = Len(refmlp) /\ DOMAIN search_results' = 1..Len(refmlp)
<1>. USE DEF MergeInv
<1>1. /\ Len(search_results) = Len(refmlp) /\ Len(refmlp) \in Nat
      /\ DOMAIN search_results = 1..Len(refmlp)
  BY DEF ListsInv
<1>2. search_results' = [i \in 1..Len(refmlp) |-> IF i = j THEN r ELSE search_results[i]]
  BY <1>1
<1>3. Len(search_results') = Len(refmlp) /\ DOMAIN search_results' = 1..Len(refmlp)
  BY <1>1, <1>2
<1>4. \A i \in 1..Len(refmlp) : search_results'[i] # Null => search_results'[i] = SearchAlone(i)
  BY <1>1, <1>2 DEF SearchSound
<1>5. \A i : SearchAlone(i)' = SearchAlone(i) BY SoundKept
<1>. QED BY <1>3, <1>4, <1>5 DEF SearchSound

(* What a step of one thread leaves to the others.                          *)
LEMMA OthersKept ==
  ASSUME UNCHANGED <<phase, args, lists, refmlp>>,
         NEW u \in MergeThreads, ThreadInv(u), MergeInv,
         mergepc'[u] = mergepc[u], jj'[u] = jj[u], mp1'[u] = mp1[u],
         curr_findex' = curr_findex \/ curr_findex' = CurrIndex,
         comp_findex' = comp_findex \/ comp_findex' = CompIndex
  PROVE  ThreadInv(u)'
<1>1. CurrIndex' = CurrIndex /\ CompIndex' = CompIndex BY SoundKept
<1>. HIDE DEF CurrIndex, CompIndex
<1>. QED BY <1>1 DEF ThreadInv

(* A step of a thread t in the loop that finishes no iteration.             *)
LEMMA SearchStep ==
  ASSUME MergeInv, LoopFrame, NEW t \in MergeThreads, mergepc[t] # "idle",
         NEW pc \in MergePoints, mergepc' = [mergepc EXCEPT ![t] = pc],
         UNCHANGED jj, DOMAIN mp1' = MergeThreads,
         \A u \in MergeThreads \ {t} : mp1'[u] = mp1[u],
         curr_findex' = curr_findex \/ curr_findex' = CurrIndex,
         comp_findex' = comp_findex \/ comp_findex' = CompIndex,
         UNCHANGED search_results, ThreadInv(t)'
  PROVE  MergeInv'
<1>. USE DEF MergeInv
<1>1. phase = "search" /\ UNCHANGED <<args, phase, pass, next, lists, refmlp>>
  BY DEF LoopFrame, data, ThreadInv
<1>2. CurrIndex' = CurrIndex /\ CompIndex' = CompIndex BY <1>1, SoundKept
<1>3. \A u \in MergeThreads : ThreadInv(u)'
  <2>. SUFFICES ASSUME NEW u \in MergeThreads \ {t} PROVE ThreadInv(u)'
    OBVIOUS
  <2>1. mergepc'[u] = mergepc[u] OBVIOUS
  <2>. QED BY <1>1, <2>1, OthersKept
<1>4. FindexInv' BY <1>1, <1>2 DEF FindexInv
<1>5. ListsInv'
  BY <1>1, <1>2 DEF ListsInv
<1>6. SearchSound'
  <2>1. \A j : SearchAlone(j)' = SearchAlone(j) BY <1>1, SoundKept
  <2>. QED BY <1>1, <2>1 DEF SearchSound
<1>7. mergepc' \in [MergeThreads -> MergePoints] OBVIOUS
<1>. QED BY <1>1, <1>3, <1>4, <1>5, <1>6, <1>7

(* A step of a thread t in the loop that finishes its iteration.            *)
LEMMA FinishStep ==
  ASSUME MergeInv, LoopFrame, NEW t \in MergeThreads, mergepc[t] # "idle",
         NEW r, r = SearchAlone(jj[t]), Finish(t, jj[t], r),
         UNCHANGED <<jj, findex>>, DOMAIN mp1' = MergeThreads,
         \A u \in MergeThreads \ {t} : mp1'[u] = mp1[u]
  PROVE  MergeInv'
<1>. USE DEF MergeInv
<1>1. phase = "search" /\ UNCHANGED <<args, phase, pass, next, lists, refmlp>>
  BY DEF LoopFrame, data, ThreadInv
<1>2. CurrIndex' = CurrIndex /\ CompIndex' = CompIndex BY <1>1, SoundKept
<1>3. mergepc' = [mergepc EXCEPT ![t] = "idle"] /\ jj[t] \in 1..Len(refmlp)
      /\ search_results' = [search_results EXCEPT ![jj[t]] = r]
  BY DEF Finish, ThreadInv
<1>4. UNCHANGED <<curr_findex, comp_findex>> BY DEF findex
<1>5. \A u \in MergeThreads : ThreadInv(u)'
  <2>1. ThreadInv(t)' BY <1>1, <1>3 DEF ThreadInv, MergePoints
  <2>2. ASSUME NEW u \in MergeThreads \ {t} PROVE ThreadInv(u)'
    <3>1. mergepc'[u] = mergepc[u] BY <1>3
    <3>. QED BY <1>1, <1>4, <3>1, OthersKept
  <2>. QED BY <2>1, <2>2
<1>6. FindexInv' BY <1>1, <1>2, <1>4 DEF FindexInv
<1>7. SearchSound' /\ Len(search_results') = Len(refmlp) /\ DOMAIN search_results' = 1..Len(refmlp)
  BY <1>1, <1>3, FinishSound
<1>8. ListsInv' BY <1>1, <1>2, <1>7 DEF ListsInv
<1>9. mergepc' \in [MergeThreads -> MergePoints] BY <1>3 DEF MergePoints
<1>. QED BY <1>1, <1>5, <1>6, <1>7, <1>8, <1>9

(* The thread takes an iteration.                                           *)
LEMMA IterateStep ==
  ASSUME MergeInv, NEW t \in MergeThreads, Iterate(t)
  PROVE  MergeInv'
<1>. USE DEF MergeInv
<1>. DEFINE m == refmlp[next]
            exact == message_list_list_search(lists, m.id)
<1>1. /\ phase = "search" /\ mergepc[t] = "idle" /\ next <= Len(search_results)
      /\ jj' = [jj EXCEPT ![t] = next] /\ next' = next + 1
      /\ UNCHANGED <<args, phase, pass, refmlp, lists, mp1, curr_findex, comp_findex>>
  BY DEF Iterate, data, findex
<1>2. next \in 1..Len(refmlp) /\ Len(refmlp) \in Nat /\ next' \in 1..(Len(refmlp) + 1)
  BY <1>1 DEF ListsInv
<1>3. CurrIndex' = CurrIndex /\ CompIndex' = CompIndex BY <1>1, SoundKept
<1>4. FindexInv' BY <1>1, <1>3 DEF FindexInv
<1>5. jj' \in [MergeThreads -> Nat] BY <1>1, <1>2
<1>6. ASSUME NEW pc \in MergePoints, mergepc' = [mergepc EXCEPT ![t] = pc]
      PROVE  \A u \in MergeThreads \ {t} : ThreadInv(u)'
  <2>. SUFFICES ASSUME NEW u \in MergeThreads \ {t} PROVE ThreadInv(u)'
    OBVIOUS
  <2>1. mergepc'[u] = mergepc[u] /\ jj'[u] = jj[u] BY <1>1, <1>6
  <2>. QED BY <1>1, <2>1, OthersKept
<1>7. ASSUME NEW r, r = SearchAlone(next), Finish(t, next, r)
      PROVE  MergeInv'
  <2>1. mergepc' = [mergepc EXCEPT ![t] = "idle"]
        /\ search_results' = [search_results EXCEPT ![next] = r]
    BY <1>7 DEF Finish
  <2>2. ThreadInv(t)' BY <1>1, <2>1 DEF ThreadInv, MergePoints
  <2>3. \A u \in MergeThreads : ThreadInv(u)' BY <1>6, <2>1, <2>2 DEF MergePoints
  <2>4. /\ SearchSound' /\ Len(search_results') = Len(refmlp)
        /\ DOMAIN search_results' = 1..Len(refmlp)
    BY <1>1, <1>2, <1>7, <2>1, FinishSound
  <2>5. ListsInv' BY <1>1, <1>2, <1>3, <2>4 DEF ListsInv
  <2>6. mergepc' \in [MergeThreads -> MergePoints] BY <2>1 DEF MergePoints
  <2>. QED BY <1>1, <1>4, <1>5, <2>3, <2>4, <2>5, <2>6
<1>8. CASE exact # None
  <2>1. Finish(t, next, [found |-> exact, fuzzy |-> FALSE]) BY <1>8 DEF Iterate
  <2>2. SearchAlone(next) = [found |-> exact, fuzzy |-> FALSE] BY <1>8 DEF SearchAlone
  <2>. QED BY <1>7, <2>1, <2>2
<1>9. CASE exact = None /\ (is_header(m) \/ ~args.use_fuzzy)
  <2>1. Finish(t, next, Unmatched) BY <1>9 DEF Iterate
  <2>2. SearchAlone(next) = Unmatched BY <1>9 DEF SearchAlone
  <2>. QED BY <1>7, <2>1, <2>2
<1>10. CASE exact = None /\ ~is_header(m) /\ args.use_fuzzy
  <2>1. mergepc' = [mergepc EXCEPT ![t] = "check_curr"] /\ UNCHANGED search_results
    BY <1>10 DEF Iterate
  <2>2. mergepc'[t] = "check_curr" /\ jj'[t] = next BY <1>1, <2>1
  <2>3. ThreadInv(t)' BY <1>1, <1>2, <1>10, <2>2 DEF ThreadInv, MergePoints
  <2>4. \A u \in MergeThreads : ThreadInv(u)' BY <1>6, <2>1, <2>3 DEF MergePoints
  <2>5. ListsInv' BY <1>1, <1>2, <1>3, <2>1 DEF ListsInv
  <2>6. SearchSound'
    <3>1. \A j : SearchAlone(j)' = SearchAlone(j) BY <1>1, SoundKept
    <3>. QED BY <1>1, <2>1, <3>1 DEF SearchSound
  <2>7. mergepc' \in [MergeThreads -> MergePoints] BY <2>1 DEF MergePoints
  <2>. QED BY <1>1, <1>4, <1>5, <2>4, <2>5, <2>6, <2>7
<1>. QED BY <1>8, <1>9, <1>10

(* The tests without and under the lock.                                    *)
LEMMA CheckStep ==
  ASSUME MergeInv, NEW t \in MergeThreads,
         \/ Check(t, "check_curr", curr_findex, "lock_curr", "search_curr")
         \/ Check(t, "check_comp", comp_findex, "lock_comp", "search_comp")
  PROVE  MergeInv'
<1>. USE DEF MergeInv
<1>1. /\ LoopFrame /\ UNCHANGED <<jj, mp1, search_results, curr_findex, comp_findex>>
      /\ mergepc[t] \in {"check_curr", "check_comp"}
  BY DEF Check, findex
<1>2. phase = "search" /\ UNCHANGED <<args, phase, lists, refmlp>>
  BY <1>1 DEF LoopFrame, data, ThreadInv
<1>3. CurrIndex' = CurrIndex /\ CompIndex' = CompIndex BY <1>2, SoundKept
<1>4. PICK pc \in MergePoints :
        /\ mergepc' = [mergepc EXCEPT ![t] = pc]
        /\ \/ mergepc[t] = "check_curr" /\ pc = "lock_curr"
           \/ mergepc[t] = "check_comp" /\ pc = "lock_comp"
           \/ mergepc[t] = "check_curr" /\ pc = "search_curr" /\ curr_findex # Null
           \/ mergepc[t] = "check_comp" /\ pc = "search_comp" /\ comp_findex # Null
  BY DEF Check, MergePoints
<1>5. mergepc'[t] = pc BY <1>4
<1>6. ThreadInv(t)'
  <2>. HIDE DEF CurrIndex, CompIndex
  <2>. QED BY <1>1, <1>2, <1>3, <1>4, <1>5 DEF ThreadInv, FindexInv
<1>. QED BY <1>1, <1>4, <1>6, SearchStep

LEMMA LockStep ==
  ASSUME MergeInv, NEW t \in MergeThreads,
         \/ Lock(t, Curr, "lock_curr", "build_curr")
         \/ Lock(t, Comp, "lock_comp", "build_comp")
  PROVE  MergeInv'
<1>. USE DEF MergeInv
<1>1. /\ LoopFrame /\ UNCHANGED <<jj, mp1, search_results, curr_findex, comp_findex>>
      /\ mergepc[t] \in {"lock_curr", "lock_comp"}
  BY DEF Lock
<1>2. phase = "search" /\ UNCHANGED <<args, phase, lists, refmlp>>
  BY <1>1 DEF LoopFrame, data, ThreadInv
<1>3. CurrIndex' = CurrIndex /\ CompIndex' = CompIndex BY <1>2, SoundKept
<1>4. PICK pc \in MergePoints :
        /\ mergepc' = [mergepc EXCEPT ![t] = pc]
        /\ \/ mergepc[t] = "lock_curr" /\ pc = "build_curr"
           \/ mergepc[t] = "lock_comp" /\ pc = "build_comp"
  BY DEF Lock, MergePoints
<1>5. mergepc'[t] = pc BY <1>4
<1>6. ThreadInv(t)'
  <2>. HIDE DEF CurrIndex, CompIndex
  <2>. QED BY <1>1, <1>2, <1>3, <1>4, <1>5 DEF ThreadInv
<1>. QED BY <1>1, <1>4, <1>6, SearchStep

LEMMA BuildStep ==
  ASSUME MergeInv, NEW t \in MergeThreads, BuildCurr(t) \/ BuildComp(t)
  PROVE  MergeInv'
<1>. USE DEF MergeInv
<1>1. /\ LoopFrame /\ UNCHANGED <<jj, mp1, search_results>>
      /\ mergepc[t] \in {"build_curr", "build_comp"}
  BY DEF BuildCurr, BuildComp
<1>2. phase = "search" /\ UNCHANGED <<args, phase, lists, refmlp>>
  BY <1>1 DEF LoopFrame, data, ThreadInv
<1>3. CurrIndex' = CurrIndex /\ CompIndex' = CompIndex BY <1>2, SoundKept
<1>4. Index(lists, 2..Len(lists)) = CompIndex BY <1>2 DEF ListsInv
<1>5. curr_findex \in {Null, CurrIndex} /\ comp_findex \in {Null, CompIndex}
  BY <1>2 DEF FindexInv
<1>6. CASE BuildCurr(t)
  <2>1. mergepc[t] = "build_curr" /\ mergepc' = [mergepc EXCEPT ![t] = "search_curr"]
        /\ curr_findex' = CurrIndex /\ comp_findex' = comp_findex
    BY <1>5, <1>6 DEF BuildCurr, CurrIndex
  <2>2. mergepc'[t] = "search_curr" BY <2>1
  <2>3. ThreadInv(t)'
    <3>. HIDE DEF CurrIndex, CompIndex
    <3>. QED BY <1>1, <1>2, <1>3, <2>1, <2>2 DEF ThreadInv, MergePoints
  <2>4. "search_curr" \in MergePoints BY DEF MergePoints
  <2>. QED BY <1>1, <2>1, <2>3, <2>4, SearchStep
<1>7. CASE BuildComp(t)
  <2>1. mergepc[t] = "build_comp" /\ mergepc' = [mergepc EXCEPT ![t] = "search_comp"]
        /\ curr_findex' = curr_findex /\ comp_findex' = CompIndex
    BY <1>4, <1>5, <1>7 DEF BuildComp
  <2>2. mergepc'[t] = "search_comp" BY <2>1
  <2>3. ThreadInv(t)'
    <3>. HIDE DEF CurrIndex, CompIndex
    <3>. QED BY <1>1, <1>2, <1>3, <2>1, <2>2 DEF ThreadInv, MergePoints
  <2>4. "search_comp" \in MergePoints BY DEF MergePoints
  <2>. QED BY <1>1, <2>1, <2>3, <2>4, SearchStep
<1>. QED BY <1>6, <1>7

(* The searches in the indices.                                             *)
LEMMA NothingInNoList ==
  ASSUME NEW fi, DOMAIN fi = {}, NEW id, NEW bound
  PROVE  FuzzySearch(fi, id, bound) = None
<1>1. UNION { {l} \X (1..Len(fi[l])) : l \in DOMAIN fi } = {} OBVIOUS
<1>. QED BY <1>1 DEF FuzzySearch

LEMMA CurrAlone ==
  ASSUME MergeInv, NEW t \in MergeThreads, SearchCurr(t), args.compendiums = <<>>
  PROVE  SearchAlone(jj[t]) = Answer(FuzzySearch(curr_findex, refmlp[jj[t]].id, Threshold))
<1>. USE DEF MergeInv
<1>. DEFINE m == refmlp[jj[t]]
            best == FuzzySearch(curr_findex, m.id, Threshold)
<1>1. LoopFrame /\ mergepc[t] = "search_curr" BY DEF SearchCurr
<1>2. phase = "search" BY <1>1 DEF ThreadInv
<1>3. /\ curr_findex = CurrIndex /\ message_list_list_search(lists, m.id) = None
      /\ ~is_header(m) /\ args.use_fuzzy
  BY <1>1 DEF ThreadInv
<1>4. DOMAIN CompIndex = {} BY DEF CompIndex
<1>5. Index(lists, 2..Len(lists)) = CompIndex BY <1>2 DEF ListsInv
<1>6. \A bound : FuzzySearch(Index(lists, 2..Len(lists)), m.id, bound) = None
  BY <1>4, <1>5, NothingInNoList
<1>7. best = FuzzySearch(Index(lists, {1}), m.id, Threshold) BY <1>3 DEF CurrIndex
<1>8. SearchAlone(jj[t]) = Answer(best)
  <2>. HIDE DEF best
  <2>. QED BY <1>3, <1>6, <1>7 DEF SearchAlone, Answer
<1>. QED BY <1>8

LEMMA CompAlone ==
  ASSUME MergeInv, NEW t \in MergeThreads, SearchComp(t)
  PROVE  Finish(t, jj[t], SearchAlone(jj[t]))
<1>. USE DEF MergeInv
<1>. DEFINE m == refmlp[jj[t]]
            mp2 == FuzzySearch(comp_findex, m.id, LowerBound(mp1[t], m.id))
            r == Answer(IF mp2 = None THEN mp1[t] ELSE mp2)
<1>1. mergepc[t] = "search_comp" /\ Finish(t, jj[t], r) BY DEF SearchComp
<1>2. phase = "search" BY <1>1 DEF ThreadInv
<1>3. Index(lists, 2..Len(lists)) = CompIndex BY <1>2 DEF ListsInv
<1>4. /\ comp_findex = CompIndex /\ message_list_list_search(lists, m.id) = None
      /\ ~is_header(m) /\ args.use_fuzzy
      /\ mp1[t] = FuzzySearch(Index(lists, {1}), m.id, Threshold)
  BY <1>1 DEF ThreadInv, CurrIndex
<1>5. SearchAlone(jj[t]) = r BY <1>3, <1>4 DEF SearchAlone, Answer
<1>. HIDE DEF r
<1>. QED BY <1>1, <1>5

LEMMA SearchCurrStep ==
  ASSUME MergeInv, NEW t \in MergeThreads, SearchCurr(t)
  PROVE  MergeInv'
<1>. USE DEF MergeInv
<1>. DEFINE m == refmlp[jj[t]]
            best == FuzzySearch(curr_findex, m.id, Threshold)
<1>1. /\ LoopFrame /\ UNCHANGED <<jj, findex>> /\ mergepc[t] = "search_curr"
      /\ mp1' = [mp1 EXCEPT ![t] = best]
      /\ UNCHANGED <<curr_findex, comp_findex>>
  BY DEF SearchCurr, findex
<1>2. phase = "search" /\ UNCHANGED <<args, phase, lists, refmlp>>
  BY <1>1 DEF LoopFrame, data, ThreadInv
<1>3. CurrIndex' = CurrIndex /\ CompIndex' = CompIndex BY <1>2, SoundKept
<1>4. /\ curr_findex = CurrIndex /\ message_list_list_search(lists, m.id) = None
      /\ ~is_header(m) /\ args.use_fuzzy
  BY <1>1 DEF ThreadInv
<1>5. DOMAIN mp1' = MergeThreads /\ mp1'[t] = best
      /\ \A u \in MergeThreads \ {t} : mp1'[u] = mp1[u]
  BY <1>1
<1>6. CASE args.compendiums = <<>>
  <2>1. Finish(t, jj[t], Answer(best)) BY <1>6 DEF SearchCurr
  <2>6. SearchAlone(jj[t]) = Answer(best) BY <1>6, CurrAlone
  <2>. QED BY <1>1, <1>5, <2>1, <2>6, FinishStep
<1>7. CASE args.compendiums # <<>>
  <2>1. mergepc' = [mergepc EXCEPT ![t] = "check_comp"] /\ UNCHANGED search_results
    BY <1>7 DEF SearchCurr
  <2>2. mergepc'[t] = "check_comp" BY <2>1
  <2>3. FuzzySearch(CurrIndex, m.id, Threshold)' = best BY <1>1, <1>2, <1>3, <1>4
  <2>4. ThreadInv(t)'
    <3>. HIDE DEF CurrIndex, CompIndex
    <3>. QED BY <1>1, <1>2, <1>3, <1>4, <1>5, <2>2, <2>3 DEF ThreadInv, MergePoints
  <2>5. "check_comp" \in MergePoints BY DEF MergePoints
  <2>. QED BY <1>1, <1>5, <2>1, <2>4, <2>5, SearchStep
<1>. QED BY <1>6, <1>7

LEMMA SearchCompStep ==
  ASSUME MergeInv, NEW t \in MergeThreads, SearchComp(t)
  PROVE  MergeInv'
<1>. USE DEF MergeInv
<1>1. LoopFrame /\ UNCHANGED <<jj, mp1, findex>> /\ mergepc[t] = "search_comp" BY DEF SearchComp
<1>2. Finish(t, jj[t], SearchAlone(jj[t])) BY CompAlone
<1>3. DOMAIN mp1' = MergeThreads /\ \A u \in MergeThreads \ {t} : mp1'[u] = mp1[u] BY <1>1
<1>. QED BY <1>1, <1>2, <1>3, FinishStep

LEMMA ThreadStep ==
  ASSUME MergeInv, NEW t \in MergeThreads, Thread(t)
  PROVE  MergeInv'
BY IterateStep, CheckStep, LockStep, BuildStep, SearchCurrStep, SearchCompStep DEF Thread

(* The other steps leave the loop, when every thread is idle.               *)
LEMMA OutsideStep ==
  ASSUME MergeInv, phase' # "search", UNCHANGED <<args, jj, mp1>>, pass' \in Nat,
         UNCHANGED mergepc, \A t \in MergeThreads : mergepc[t] = "idle",
         comp_findex' \in {Null, comp_findex}
  PROVE  MergeInv'
<1>. USE DEF MergeInv
<1>1. CompIndex' = CompIndex BY DEF CompIndex
<1>2. FindexInv' BY <1>1 DEF FindexInv
<1>3. \A t \in MergeThreads : ThreadInv(t)' BY DEF ThreadInv
<1>. QED BY <1>2, <1>3 DEF ListsInv, SearchSound

LEMMA MainStep ==
  ASSUME MergeInv, Main
  PROVE  MergeInv'
<1>1. CASE SetCurrentList BY <1>1, StartSearch
<1>2. CASE MergePass
  BY <1>2, OutsideStep DEF MergePass, data, search, findex, MergeInv
<1>3. CASE DestroyDefinitions
  <2>1. \A t \in MergeThreads : mergepc[t] = "idle"
    BY <1>3 DEF DestroyDefinitions, MergeInv, ThreadInv
  <2>. QED BY <1>3, <2>1, OutsideStep DEF DestroyDefinitions, data, MergeInv
<1>6. CASE KeepObsolete \/ EndMerge
  <2>1. \A t \in MergeThreads : mergepc[t] = "idle"
    BY <1>6 DEF KeepObsolete, EndMerge, MergeInv, ThreadInv
  <2>. QED BY <1>6, <2>1, OutsideStep DEF KeepObsolete, EndMerge, data, search, findex, MergeInv
<1>4. CASE Write
  <2>1. \A t \in MergeThreads : mergepc[t] = "idle" BY <1>4 DEF Write, MergeInv, ThreadInv
  <2>. QED BY <1>4, <2>1, OutsideStep DEF Write, search, findex, MergeInv
<1>5. CASE Again
  <2>1. args' \in Inputs /\ phase' = "set" /\ pass' = 0 /\ comp_findex' = Null
    BY <1>5 DEF Again, MergeInv
  <2>2. /\ mergepc' = [t \in MergeThreads |-> "idle"]
        /\ jj' = [t \in MergeThreads |-> 0] /\ DOMAIN mp1' = MergeThreads
    BY <1>5 DEF Again
  <2>3. mergepc' \in [MergeThreads -> MergePoints] BY <2>2 DEF MergePoints
  <2>4. \A t \in MergeThreads : ThreadInv(t)' BY <2>1, <2>2, <2>3 DEF ThreadInv
  <2>. QED BY <2>1, <2>2, <2>3, <2>4 DEF MergeInv, FindexInv, ListsInv, SearchSound
<1>. QED BY <1>1, <1>2, <1>3, <1>4, <1>5, <1>6 DEF Main

LEMMA MergeKept == MergeInv /\ UNCHANGED mergevars => MergeInv'
BY DEF MergeInv, mergevars, data, search, findex, FindexInv, ListsInv, SearchSound,
       ThreadInv, CurrIndex, CompIndex, SearchAlone, LowerBound

(* The invariant of the parallel search: an index is that of the lists of    *)
(* this pass; a thread that searches in one finds it there, and a thread     *)
(* between its two searches has the result of the first; outside of the      *)
(* loop no thread is at work.                                                *)
THEOREM MergeInvariant == MergeSpec => []MergeInv
<1>1. MergeInv /\ [MergeNext]_mergevars => MergeInv'
  BY MainStep, ThreadStep, MergeKept DEF MergeNext, Done
<1>. QED BY <1>1, InitMerge, PTL DEF MergeSpec

(* SearchSound: what a thread finds for a message is what the loop would     *)
(* have found alone, however the threads take turns in building the indices *)
(* and in searching them, from pass to pass.                                *)
THEOREM SearchesSound == MergeSpec => []SearchSound
<1>1. MergeInv => SearchSound BY DEF MergeInv
<1>. QED BY <1>1, MergeInvariant, PTL

-----------------------------------------------------------------------------
(* Sequences: the least of a set of positions, what is left when an element *)
(* is removed, and what a concatenation consists of.                        *)

LEMMA SmallestNumber ==
  ASSUME NEW S \in SUBSET Nat, S # {}
  PROVE  \E i \in S : \A j \in S : i <= j
<1>. DEFINE R == {p \in Nat \X Nat : p[1] < p[2]}
<1>1. IsWellFoundedOn(R, Nat)
  <2>1. IsWellFoundedOn({p \in Nat \X Nat : p[1] < p[2]}, Nat)
    BY NatLessThanWellFounded, Zenon DEF OpToRel
  <2>. QED BY <2>1
<1>. HIDE DEF R
<1>2. PICK i \in S : \A j \in S : ~(<<j, i>> \in R)
  BY <1>1, WFMin
<1>3. \A j \in S : ~(j < i)
  BY <1>2 DEF R
<1>. QED BY <1>3

LEMMA SeqFacts ==
  ASSUME NEW s, IsSeq(s)
  PROVE  /\ Len(s) \in Nat /\ DOMAIN s = 1..Len(s)
         /\ s = [i \in 1..Len(s) |-> s[i]]
         /\ \A i \in 1..Len(s) : s[i] \in ToSet(s)
         /\ \A x \in ToSet(s) : \E i \in 1..Len(s) : x = s[i]
<1>1. PICK S : S = ToSet(s) /\ s \in Seq(S) BY DEF IsSeq
<1>2. Len(s) \in Nat /\ DOMAIN s = 1..Len(s) /\ s = [i \in 1..Len(s) |-> s[i]] BY <1>1
<1>. QED BY <1>2 DEF ToSet

LEMMA SeqMade ==
  ASSUME NEW n \in Nat, NEW s, s = [i \in 1..n |-> s[i]]
  PROVE  IsSeq(s) /\ Len(s) = n
<1>1. DOMAIN s = 1..n OBVIOUS
<1>2. \A i \in 1..n : s[i] \in ToSet(s) BY <1>1 DEF ToSet
<1>3. s \in [1..n -> ToSet(s)] BY <1>2
<1>4. s \in Seq(ToSet(s)) BY <1>3
<1>. QED BY <1>4 DEF IsSeq

LEMMA LeftOver ==
  ASSUME NEW s, IsSeq(s), NEW n \in 1..Len(s)
  PROVE  /\ Len(RemoveAt(s, n)) = Len(s) - 1
         /\ IsSeq(RemoveAt(s, n))
         /\ \A p \in 1..(Len(s) - 1) : RemoveAt(s, n)[p] = IF p < n THEN s[p] ELSE s[p + 1]
<1>1. PICK S : s \in Seq(S) BY DEF IsSeq
<1>. DEFINE a == SubSeq(s, 1, n - 1)
            b == SubSeq(s, n + 1, Len(s))
<1>2. Len(s) \in Nat /\ n \in Nat /\ 1 <= n /\ n <= Len(s) BY <1>1
<1>3. a \in Seq(S) /\ Len(a) = n - 1 /\ \A p \in 1..(n - 1) : a[p] = s[p]
  BY <1>1, <1>2
<1>4. b \in Seq(S) /\ Len(b) = Len(s) - n /\ \A p \in 1..(Len(s) - n) : b[p] = s[n + p]
  BY <1>1, <1>2
<1>5. RemoveAt(s, n) = a \o b BY DEF RemoveAt
<1>. HIDE DEF a, b
<1>6. a \o b \in Seq(S) /\ Len(a \o b) = Len(s) - 1
  <2>1. a \o b \in Seq(S) /\ Len(a \o b) = Len(a) + Len(b) BY <1>3, <1>4, ConcatProperties
  <2>2. (n - 1) + (Len(s) - n) = Len(s) - 1 BY <1>2
  <2>. QED BY <1>3, <1>4, <2>1, <2>2
<1>7. ASSUME NEW p \in 1..(Len(s) - 1)
      PROVE  (a \o b)[p] = IF p < n THEN s[p] ELSE s[p + 1]
  <2>1. CASE p < n
    <3>1. p \in 1..(n - 1) BY <1>2, <2>1
    <3>2. (a \o b)[p] = a[p] BY <1>2, <1>3, <1>4, <3>1
    <3>. QED BY <1>3, <2>1, <3>1, <3>2
  <2>2. CASE ~(p < n)
    <3>1. p - (n - 1) \in 1..(Len(s) - n) /\ n + (p - (n - 1)) = p + 1 BY <1>2, <2>2
    <3>2. (a \o b)[p] = b[p - (n - 1)] BY <1>2, <1>3, <1>4, <2>2
    <3>. QED BY <1>4, <2>2, <3>1, <3>2
  <2>. QED BY <2>1, <2>2
<1>8. IsSeq(a \o b)
  <2>1. PICK c : c = a \o b OBVIOUS
  <2>2. c \in Seq(S) /\ Len(c) \in Nat BY <1>6, <2>1
  <2>3. c = [p \in 1..Len(c) |-> c[p]] BY <2>2
  <2>. QED BY <2>1, <2>2, <2>3, SeqMade
<1>. QED BY <1>5, <1>6, <1>7, <1>8

(* FlattenSeq is defined by recursion over the length of its argument: f[i] *)
(* is the concatenation of the first i sequences.                           *)
Concatenates(f, s, n) ==
  /\ FlattenSeq(s) = f[n]
  /\ \A i \in 1..n : f[i] = IF i = 1 THEN s[i] ELSE f[i - 1] \o s[i]

LEMMA FlattenRec ==
  ASSUME NEW n \in Nat \ {0}, NEW s, s = [j \in 1..n |-> s[j]]
  PROVE  \E f : Concatenates(f, s, n)
<1>. DEFINE Rec(f, k) == f = [i \in 1..k |-> IF i = 1 THEN s[i] ELSE f[i - 1] \o s[i]]
            B == { k \in 0..n : ~\E f : Rec(f, k) }
<1>1. B = {}
  <2>. SUFFICES ASSUME B # {} PROVE FALSE
    OBVIOUS
  <2>. HIDE DEF Rec
  <2>1. B \subseteq Nat OBVIOUS
  <2>2. PICK k \in B : \A j \in B : k <= j BY <2>1, SmallestNumber
  <2>. HIDE DEF B
  <2>3. k \in 0..n /\ ~\E f : Rec(f, k) BY <2>2 DEF B
  <2>4. k # 0
    <3>1. Rec([i \in 1..0 |-> 0], 0) BY DEF Rec
    <3>. QED BY <2>3, <3>1
  <2>5. k - 1 \in 0..n /\ k - 1 \notin B BY <2>2, <2>3, <2>4
  <2>6. PICK f : Rec(f, k - 1) BY <2>5 DEF B
  <2>. DEFINE g == [i \in 1..k |-> IF i < k THEN f[i] ELSE IF i = 1 THEN s[i] ELSE f[i - 1] \o s[i]]
  <2>7. \A i \in 1..(k - 1) : f[i] = IF i = 1 THEN s[i] ELSE f[i - 1] \o s[i]
    BY <2>6 DEF Rec
  <2>8. ASSUME NEW i \in 1..k PROVE g[i] = IF i = 1 THEN s[i] ELSE g[i - 1] \o s[i]
    <3>1. i # 1 => g[i - 1] = f[i - 1] BY <2>3
    <3>2. CASE i < k
      <4>1. i \in 1..(k - 1) /\ g[i] = f[i] BY <2>3, <3>2
      <4>. HIDE DEF g
      <4>. QED BY <2>7, <3>1, <4>1
    <3>3. CASE ~(i < k)
      <4>1. g[i] = IF i = 1 THEN s[i] ELSE f[i - 1] \o s[i] BY <3>3
      <4>. HIDE DEF g
      <4>. QED BY <3>1, <4>1
    <3>. QED BY <3>2, <3>3
  <2>9. g = [i \in 1..k |-> g[i]] OBVIOUS
  <2>10. Rec(g, k)
    <3>. HIDE DEF g
    <3>. QED BY <2>8, <2>9 DEF Rec
  <2>. QED BY <2>3, <2>10
<1>2. Len(s) = n BY SeqMade
<1>. DEFINE flatten == CHOOSE f : Rec(f, n)
<1>3. Rec(flatten, n)
  <2>. HIDE DEF Rec
  <2>1. \E f : Rec(f, n) BY <1>1
  <2>. QED BY <2>1, Zenon
<1>4. FlattenSeq(s) = flatten[n] BY <1>2 DEF FlattenSeq
<1>. HIDE DEF flatten
<1>5. \A i \in 1..n : flatten[i] = IF i = 1 THEN s[i] ELSE flatten[i - 1] \o s[i] BY <1>3
<1>. HIDE DEF Rec
<1>. QED BY <1>4, <1>5 DEF Concatenates

LEMMA Flattened ==
  ASSUME NEW n \in Nat, NEW s, s = [j \in 1..n |-> s[j]], NEW S,
         \A j \in 1..n : s[j] \in Seq(S)
  PROVE  FlattenSeq(s) \in Seq(S)
<1>2. Len(s) = n BY SeqMade
<1>4. CASE n = 0
  <2>1. FlattenSeq(s) = s BY <1>2, <1>4 DEF FlattenSeq
  <2>2. s = <<>> BY <1>2, <1>4, SeqMade DEF IsSeq
  <2>3. <<>> \in Seq(S) OBVIOUS
  <2>. QED BY <2>1, <2>2, <2>3
<1>5. CASE n # 0
  <2>a. PICK flatten : Concatenates(flatten, s, n) BY <1>5, FlattenRec
  <2>1. FlattenSeq(s) = flatten[n] BY <2>a DEF Concatenates
  <2>2. \A i \in 1..n : flatten[i] = IF i = 1 THEN s[i] ELSE flatten[i - 1] \o s[i]
    BY <2>a DEF Concatenates
  <2>. DEFINE C == { i \in 1..n : flatten[i] \notin Seq(S) }
  <2>3. C = {}
    <3>. SUFFICES ASSUME C # {} PROVE FALSE
      OBVIOUS
    <3>1. PICK k \in C : \A j \in C : k <= j
      <4>1. C \subseteq Nat OBVIOUS
      <4>. QED BY <4>1, SmallestNumber
    <3>2. k \in 1..n /\ flatten[k] \notin Seq(S) BY <3>1
    <3>3. CASE k = 1 BY <2>2, <3>2, <3>3
    <3>4. CASE k # 1
      <4>1. k - 1 \in 1..n /\ k - 1 \notin C BY <3>1, <3>2, <3>4
      <4>2. flatten[k - 1] \in Seq(S) BY <4>1
      <4>3. flatten[k] = flatten[k - 1] \o s[k] BY <2>2, <3>2, <3>4
      <4>. QED BY <3>2, <4>2, <4>3
    <3>. QED BY <3>3, <3>4
  <2>. QED BY <1>5, <2>1, <2>3
<1>. QED BY <1>4, <1>5

LEMMA FlattenedParts ==
  ASSUME NEW n \in Nat, NEW s, s = [j \in 1..n |-> s[j]],
         \A j \in 1..n : IsSeq(s[j])
  PROVE  /\ IsSeq(FlattenSeq(s))
         /\ \A x \in ToSet(FlattenSeq(s)) : \E j \in 1..n : x \in ToSet(s[j])
<1>. DEFINE S == UNION { ToSet(s[j]) : j \in 1..n }
<1>1. ASSUME NEW j \in 1..n PROVE s[j] \in Seq(S)
  <2>1. ToSet(s[j]) \subseteq S BY <1>1
  <2>2. s[j] \in Seq(ToSet(s[j])) BY DEF IsSeq
  <2>3. Len(s[j]) \in Nat /\ DOMAIN s[j] = 1..Len(s[j]) /\ s[j] = [p \in 1..Len(s[j]) |-> s[j][p]]
        /\ \A p \in 1..Len(s[j]) : s[j][p] \in ToSet(s[j])
    BY SeqFacts
  <2>. QED BY <2>1, <2>3
<1>2. FlattenSeq(s) \in Seq(S)
  <2>. HIDE DEF S
  <2>. QED BY <1>1, Flattened
<1>3. PICK f : f = FlattenSeq(s) OBVIOUS
<1>4. f \in Seq(S) BY <1>2, <1>3
<1>5. IsSeq(f)
  <2>1. f = [p \in 1..Len(f) |-> f[p]] /\ Len(f) \in Nat BY <1>4
  <2>. QED BY <2>1, SeqMade
<1>6. \A x \in ToSet(f) : x \in S
  <2>1. DOMAIN f = 1..Len(f) BY <1>4
  <2>. QED BY <1>4, <2>1 DEF ToSet
<1>. QED BY <1>3, <1>5, <1>6

(* What ElementsAt makes: for each k, f[k] is the index of its k-th element. *)
Chooses(f, e, s, I) ==
  /\ IsSeq(e)
  /\ f \in [1..Len(e) -> I]
  /\ \A k \in 1..Len(e) : e[k] = s[f[k]]
  /\ \A k, n \in 1..Len(e) : f[k] = f[n] => k = n
  /\ \A i \in I : \E k \in 1..Len(e) : f[k] = i

LEMMA Joined ==
  ASSUME NEW a, NEW b, IsSeq(a), IsSeq(b)
  PROVE  /\ IsSeq(a \o b)
         /\ Len(a \o b) = Len(a) + Len(b)
         /\ \A i \in 1..Len(a) : (a \o b)[i] = a[i]
         /\ \A i \in 1..Len(b) : (a \o b)[Len(a) + i] = b[i]
<1>. DEFINE S == ToSet(a) \cup ToSet(b)
<1>1. /\ Len(a) \in Nat /\ DOMAIN a = 1..Len(a) /\ a = [i \in 1..Len(a) |-> a[i]]
      /\ \A i \in 1..Len(a) : a[i] \in ToSet(a)
  BY SeqFacts
<1>2. /\ Len(b) \in Nat /\ DOMAIN b = 1..Len(b) /\ b = [i \in 1..Len(b) |-> b[i]]
      /\ \A i \in 1..Len(b) : b[i] \in ToSet(b)
  BY SeqFacts
<1>3. a \in Seq(S)
  <2>1. a \in Seq(ToSet(a)) BY DEF IsSeq
  <2>. QED BY <1>1, <2>1
<1>4. b \in Seq(S)
  <2>1. b \in Seq(ToSet(b)) BY DEF IsSeq
  <2>. QED BY <1>2, <2>1
<1>. HIDE DEF S
<1>5. /\ a \o b \in Seq(S) /\ Len(a \o b) = Len(a) + Len(b)
      /\ \A i \in 1..Len(a) : (a \o b)[i] = a[i]
      /\ \A i \in 1..Len(b) : (a \o b)[Len(a) + i] = b[i]
  <2>1. /\ a \o b \in Seq(S) /\ Len(a \o b) = Len(a) + Len(b)
        /\ \A i \in 1 .. Len(a) + Len(b) : (a \o b)[i] = IF i <= Len(a) THEN a[i] ELSE b[i - Len(a)]
    BY <1>3, <1>4, ConcatProperties
  <2>2. ASSUME NEW i \in 1..Len(b) PROVE (a \o b)[Len(a) + i] = b[i]
    <3>1. Len(a) + i \in 1..(Len(a) + Len(b)) /\ ~(Len(a) + i <= Len(a)) /\ (Len(a) + i) - Len(a) = i
      BY <1>1, <1>2
    <3>. QED BY <2>1, <3>1
  <2>3. ASSUME NEW i \in 1..Len(a) PROVE (a \o b)[i] = a[i]
    <3>1. i \in 1..(Len(a) + Len(b)) /\ i <= Len(a) BY <1>1, <1>2
    <3>. QED BY <2>1, <3>1
  <2>. QED BY <2>1, <2>2, <2>3
<1>6. PICK c : c = a \o b OBVIOUS
<1>7. IsSeq(c)
  <2>0. c \in Seq(S) BY <1>5, <1>6
  <2>1. c = [i \in 1..Len(c) |-> c[i]] /\ Len(c) \in Nat BY <2>0
  <2>. QED BY <2>1, SeqMade
<1>. QED BY <1>5, <1>6, <1>7

LEMMA Singleton == ASSUME NEW x PROVE IsSeq(<<x>>) /\ Len(<<x>>) = 1 /\ <<x>>[1] = x
<1>1. <<x>> = [i \in 1..1 |-> <<x>>[i]] OBVIOUS
<1>. QED BY <1>1, SeqMade

LEMMA Empty == IsSeq(<<>>) /\ Len(<<>>) = 0
BY DEF IsSeq

LEMMA Chosen ==
  ASSUME NEW s, IsSeq(s), NEW I \in SUBSET (1..Len(s))
  PROVE  \E f : Chooses(f, ElementsAt(s, I), s, I)
<1>. DEFINE n == Len(s)
            parts == [i \in 1..n |-> IF i \in I THEN <<s[i]>> ELSE <<>>]
<1>1. n \in Nat BY SeqFacts
<1>2. parts = [i \in 1..n |-> parts[i]] OBVIOUS
<1>3. ElementsAt(s, I) = FlattenSeq(parts) BY DEF ElementsAt
<1>4. \A i \in 1..n : parts[i] = IF i \in I THEN <<s[i]>> ELSE <<>> OBVIOUS
<1>5. I \in SUBSET (1..n) OBVIOUS
<1>. HIDE DEF parts, n
<1>6. CASE n = 0
  <2>1. Len(parts) = 0 /\ parts = <<>>
    <3>1. Len(parts) = 0 /\ IsSeq(parts) BY <1>2, <1>6, SeqMade
    <3>. QED BY <3>1 DEF IsSeq
  <2>2. ElementsAt(s, I) = <<>> BY <1>3, <2>1 DEF FlattenSeq
  <2>3. I = {} BY <1>5, <1>6
  <2>4. Chooses(<<>>, <<>>, s, I) BY <2>3, Empty DEF Chooses
  <2>. QED BY <2>2, <2>4
<1>7. CASE n # 0
  <2>1. PICK g : Concatenates(g, parts, n) BY <1>1, <1>2, <1>7, FlattenRec
  <2>2. FlattenSeq(parts) = g[n] BY <2>1 DEF Concatenates
  <2>3. \A i \in 1..n : g[i] = IF i = 1 THEN parts[i] ELSE g[i - 1] \o parts[i]
    BY <2>1 DEF Concatenates
  <2>. DEFINE Ok(m) == \E f : Chooses(f, g[m], s, I \cap (1..m))
              C == { m \in 1..n : ~Ok(m) }
  <2>4. ASSUME NEW e, NEW f, NEW i \in 1..n, Chooses(f, e, s, I \cap (1..(i - 1)))
        PROVE  \E h : Chooses(h, e \o parts[i], s, I \cap (1..i))
    <3>1. IsSeq(e) /\ Len(e) \in Nat BY <2>4, SeqFacts DEF Chooses
    <3>2. CASE i \notin I
      <4>1. parts[i] = <<>> BY <1>4, <3>2
      <4>3. I \cap (1..i) = I \cap (1..(i - 1)) BY <1>1, <1>5, <3>2
      <4>2. e \o <<>> = e BY <3>1, ConcatEmptySeq DEF IsSeq
      <4>. QED BY <2>4, <4>1, <4>2, <4>3
    <3>3. CASE i \in I
      <4>. DEFINE c == e \o <<s[i]>>
                  h == [k \in 1..(Len(e) + 1) |-> IF k <= Len(e) THEN f[k] ELSE i]
      <4>1. parts[i] = <<s[i]>> BY <1>4, <3>3
      <4>2. IsSeq(<<s[i]>>) /\ Len(<<s[i]>>) = 1 /\ <<s[i]>>[1] = s[i] BY Singleton
      <4>3. /\ IsSeq(c) /\ Len(c) = Len(e) + 1
            /\ \A k \in 1..Len(e) : c[k] = e[k]
            /\ c[Len(e) + 1] = s[i]
        BY <3>1, <4>2, Joined
      <4>. HIDE DEF c
      <4>4. I \cap (1..i) = (I \cap (1..(i - 1))) \cup {i} BY <1>1, <3>3
      <4>5. i \notin 1..(i - 1) OBVIOUS
      <4>6. /\ f \in [1..Len(e) -> I \cap (1..(i - 1))]
            /\ \A k \in 1..Len(e) : e[k] = s[f[k]]
            /\ \A k, m \in 1..Len(e) : f[k] = f[m] => k = m
            /\ \A j \in I \cap (1..(i - 1)) : \E k \in 1..Len(e) : f[k] = j
        BY <2>4 DEF Chooses
      <4>7. \A k \in 1..Len(e) : h[k] = f[k] /\ k \in 1..(Len(e) + 1) BY <3>1
      <4>8. h[Len(e) + 1] = i /\ Len(e) + 1 \in 1..(Len(e) + 1) BY <3>1
      <4>9. DOMAIN h = 1..(Len(e) + 1) /\ h = [k \in 1..(Len(e) + 1) |-> h[k]] OBVIOUS
      <4>10. \A k \in 1..(Len(e) + 1) : k \in 1..Len(e) \/ k = Len(e) + 1 BY <3>1
      <4>. HIDE DEF h
      <4>11. h \in [1..Len(c) -> I \cap (1..i)]
        BY <4>3, <4>4, <4>6, <4>7, <4>8, <4>9, <4>10
      <4>12. \A k \in 1..Len(c) : c[k] = s[h[k]] BY <4>3, <4>6, <4>7, <4>8, <4>10
      <4>13. ASSUME NEW k \in 1..Len(c), NEW m \in 1..Len(c), h[k] = h[m] PROVE k = m
        <5>1. (k \in 1..Len(e) \/ k = Len(e) + 1) /\ (m \in 1..Len(e) \/ m = Len(e) + 1)
          BY <4>3, <4>10
        <5>2. \A j \in 1..Len(e) : h[j] # i BY <4>5, <4>6, <4>7
        <5>. QED BY <4>6, <4>7, <4>8, <4>13, <5>1, <5>2
      <4>14. ASSUME NEW j \in I \cap (1..i) PROVE \E k \in 1..Len(c) : h[k] = j
        <5>1. CASE j = i BY <4>3, <4>8, <5>1
        <5>2. CASE j # i
          <6>1. PICK k \in 1..Len(e) : f[k] = j BY <4>4, <4>6, <5>2
          <6>2. k \in 1..Len(c) /\ h[k] = j BY <4>3, <4>7, <6>1
          <6>. QED BY <6>2
        <5>. QED BY <5>1, <5>2
      <4>15. Chooses(h, c, s, I \cap (1..i)) BY <4>3, <4>11, <4>12, <4>13, <4>14 DEF Chooses
      <4>. QED BY <4>1, <4>15 DEF c
    <3>. QED BY <3>2, <3>3
  <2>5. C = {}
    <3>. SUFFICES ASSUME C # {} PROVE FALSE
      OBVIOUS
    <3>. HIDE DEF Ok
    <3>1. C \subseteq Nat BY <1>1
    <3>2. PICK m \in C : \A j \in C : m <= j BY <3>1, SmallestNumber
    <3>3. m \in 1..n /\ ~Ok(m) BY <3>2
    <3>4. CASE m = 1
      <4>1. g[1] = parts[1] BY <2>3, <3>3, <3>4
      <4>2. I \cap (1..0) = {} OBVIOUS
      <4>3. Chooses(<<>>, <<>>, s, I \cap (1..(1 - 1))) BY <4>2, Empty DEF Chooses
      <4>4. PICK h : Chooses(h, <<>> \o parts[1], s, I \cap (1..1)) BY <2>4, <3>3, <3>4, <4>3
      <4>5. <<>> \o parts[1] = parts[1] BY <1>4, <3>3, <3>4
      <4>. QED BY <3>3, <3>4, <4>1, <4>4, <4>5 DEF Ok
    <3>5. CASE m # 1
      <4>1. m - 1 \in 1..n /\ m - 1 \notin C BY <1>1, <3>2, <3>3, <3>5
      <4>2. PICK f : Chooses(f, g[m - 1], s, I \cap (1..(m - 1))) BY <4>1 DEF Ok
      <4>3. g[m] = g[m - 1] \o parts[m] BY <2>3, <3>3, <3>5
      <4>4. \E h : Chooses(h, g[m - 1] \o parts[m], s, I \cap (1..m)) BY <2>4, <3>3, <4>2
      <4>. QED BY <3>3, <4>3, <4>4 DEF Ok
    <3>. QED BY <3>4, <3>5
  <2>6. Ok(n)
    <3>. HIDE DEF Ok
    <3>1. n \in 1..n BY <1>1, <1>7
    <3>. QED BY <2>5, <3>1
  <2>7. I \cap (1..n) = I BY <1>5
  <2>. QED BY <1>3, <2>2, <2>6, <2>7
<1>. QED BY <1>6, <1>7

-----------------------------------------------------------------------------
(* msgmerge: catalogs in memory.                                            *)

LEMMA Listed ==
  ASSUME NEW s
  PROVE  IsList(s) <=> IsSeq(s)
BY DEF IsList, IsSeq, ToSet

(* A list of n messages as the reader makes them.                           *)
LEMMA ListMade ==
  ASSUME NEW n \in Nat, NEW s, s = [i \in 1..n |-> s[i]], \A i \in 1..n : IsRead(s[i])
  PROVE  ListRead(s) /\ Len(s) = n
<1>1. IsSeq(s) /\ Len(s) = n BY SeqMade
<1>2. DOMAIN s = 1..n OBVIOUS
<1>. QED BY <1>1, <1>2, Listed DEF ListRead

LEMMA ListFacts ==
  ASSUME NEW l, ListRead(l)
  PROVE  /\ IsSeq(l) /\ Len(l) \in Nat /\ DOMAIN l = 1..Len(l)
         /\ \A i \in 1..Len(l) : IsRead(l[i])
<1>1. IsSeq(l) BY Listed DEF ListRead
<1>2. Len(l) \in Nat /\ DOMAIN l = 1..Len(l) BY <1>1, SeqFacts
<1>. QED BY <1>1, <1>2 DEF ListRead

LEMMA ListJoined ==
  ASSUME NEW a, NEW b, ListRead(a), ListRead(b)
  PROVE  ListRead(a \o b)
<1>1. /\ IsSeq(a) /\ Len(a) \in Nat /\ \A i \in 1..Len(a) : IsRead(a[i])
      /\ IsSeq(b) /\ Len(b) \in Nat /\ \A i \in 1..Len(b) : IsRead(b[i])
  BY ListFacts
<1>2. PICK c : c = a \o b OBVIOUS
<1>3. /\ IsSeq(c) /\ Len(c) = Len(a) + Len(b)
      /\ \A i \in 1..Len(a) : c[i] = a[i]
      /\ \A i \in 1..Len(b) : c[Len(a) + i] = b[i]
  BY <1>1, <1>2, Joined
<1>4. ASSUME NEW i \in 1..Len(c) PROVE IsRead(c[i])
  <2>1. CASE i \in 1..Len(a) BY <1>1, <1>3, <2>1
  <2>2. CASE i \notin 1..Len(a)
    <3>1. i - Len(a) \in 1..Len(b) /\ Len(a) + (i - Len(a)) = i BY <1>1, <1>3, <2>2
    <3>2. c[Len(a) + (i - Len(a))] = b[i - Len(a)] BY <1>3, <3>1
    <3>. QED BY <1>1, <3>1, <3>2
  <2>. QED BY <2>1, <2>2
<1>5. DOMAIN c = 1..Len(c) BY <1>3, SeqFacts
<1>. QED BY <1>2, <1>3, <1>4, <1>5, Listed DEF ListRead

(* Messages that are chosen from a list are messages of that list.          *)
LEMMA ListChosen ==
  ASSUME NEW l, ListRead(l), NEW I \in SUBSET (1..Len(l))
  PROVE  ListRead(ElementsAt(l, I))
<1>1. IsSeq(l) /\ Len(l) \in Nat /\ \A i \in 1..Len(l) : IsRead(l[i]) BY ListFacts
<1>2. PICK e : e = ElementsAt(l, I) OBVIOUS
<1>3. PICK f : Chooses(f, e, l, I) BY <1>1, <1>2, Chosen
<1>4. IsSeq(e) /\ f \in [1..Len(e) -> I] /\ \A k \in 1..Len(e) : e[k] = l[f[k]]
  BY <1>3 DEF Chooses
<1>5. DOMAIN e = 1..Len(e) BY <1>4, SeqFacts
<1>6. \A k \in 1..Len(e) : IsRead(e[k]) BY <1>1, <1>4
<1>. QED BY <1>2, <1>4, <1>5, <1>6, Listed DEF ListRead

LEMMA Catalogs ==
  ASSUME NEW mdl, IsCatalog(mdl)
  PROVE  /\ IsSeq(mdl) /\ Len(mdl) \in Nat /\ DOMAIN mdl = 1..Len(mdl)
         /\ mdl = [d \in 1..Len(mdl) |-> mdl[d]]
         /\ \A d \in 1..Len(mdl) : DOMAIN mdl[d] = {"domain", "messages"}
                                   /\ ListRead(mdl[d].messages)
         /\ \A d, e \in 1..Len(mdl) : mdl[d].domain = mdl[e].domain => d = e
<1>1. IsSeq(mdl) BY Listed DEF IsCatalog
<1>2. Len(mdl) \in Nat /\ DOMAIN mdl = 1..Len(mdl) /\ mdl = [d \in 1..Len(mdl) |-> mdl[d]]
  BY <1>1, SeqFacts
<1>. QED BY <1>1, <1>2 DEF IsCatalog

LEMMA CatalogMade ==
  ASSUME NEW n \in Nat, NEW mdl, mdl = [d \in 1..n |-> mdl[d]],
         \A d \in 1..n : DOMAIN mdl[d] = {"domain", "messages"} /\ ListRead(mdl[d].messages),
         \A d, e \in 1..n : mdl[d].domain = mdl[e].domain => d = e
  PROVE  IsCatalog(mdl) /\ Len(mdl) = n
<1>1. IsSeq(mdl) /\ Len(mdl) = n BY SeqMade
<1>2. DOMAIN mdl = 1..n OBVIOUS
<1>. QED BY <1>1, <1>2, Listed DEF IsCatalog

(* The searches for a domain and for a message: the least index, or 0.      *)
Found(i, n, I) == i \in 0..n /\ (i = 0 => I = {}) /\ (i # 0 => i \in I /\ \A j \in I : i <= j)

LEMMA LeastOf ==
  ASSUME NEW I \in SUBSET Nat, I # {}
  PROVE  Min(I) \in I /\ \A j \in I : Min(I) <= j
<1>1. \E x \in I : \A y \in I : x <= y BY SmallestNumber
<1>. QED BY <1>1 DEF Min

LEMMA DomainFound ==
  ASSUME NEW mdl, Len(mdl) \in Nat, NEW d
  PROVE  Found(DomainIndex(mdl, d), Len(mdl), { i \in 1..Len(mdl) : mdl[i].domain = d })
<1>. DEFINE I == { i \in 1..Len(mdl) : mdl[i].domain = d }
<1>1. DomainIndex(mdl, d) = IF I # {} THEN Min(I) ELSE 0 BY DEF DomainIndex, SelectInSeq
<1>2. I \in SUBSET Nat /\ \A i \in I : i \in 1..Len(mdl) OBVIOUS
<1>. HIDE DEF I
<1>3. I # {} => Min(I) \in I /\ \A j \in I : Min(I) <= j BY <1>2, LeastOf
<1>4. CASE I = {} BY <1>1, <1>4 DEF Found, I
<1>5. CASE I # {}
  <2>1. DomainIndex(mdl, d) \in I /\ \A j \in I : DomainIndex(mdl, d) <= j BY <1>1, <1>3, <1>5
  <2>2. DomainIndex(mdl, d) \in 1..Len(mdl) BY <1>2, <2>1
  <2>. QED BY <1>5, <2>1, <2>2 DEF Found, I
<1>. QED BY <1>4, <1>5

LEMMA MessageFound ==
  ASSUME NEW l, Len(l) \in Nat, NEW id
  PROVE  Found(message_list_search(l, id), Len(l), { i \in 1..Len(l) : l[i].id = id })
<1>. DEFINE I == { i \in 1..Len(l) : l[i].id = id }
<1>1. message_list_search(l, id) = IF I # {} THEN Min(I) ELSE 0
  BY DEF message_list_search, SelectInSeq
<1>2. I \in SUBSET Nat /\ \A i \in I : i \in 1..Len(l) OBVIOUS
<1>. HIDE DEF I
<1>3. I # {} => Min(I) \in I /\ \A j \in I : Min(I) <= j BY <1>2, LeastOf
<1>4. CASE I = {} BY <1>1, <1>4 DEF Found, I
<1>5. CASE I # {}
  <2>1. message_list_search(l, id) \in I /\ \A j \in I : message_list_search(l, id) <= j BY <1>1, <1>3, <1>5
  <2>2. message_list_search(l, id) \in 1..Len(l) BY <1>2, <2>1
  <2>. QED BY <1>5, <2>1, <2>2 DEF Found, I
<1>. QED BY <1>4, <1>5

(* msgdomain_list_sublist, and message_list_append: the k-th list stays, or *)
(* is the one of the domain, or is new.                                     *)
Untouched(new, mdl, d, k) == k \in 1..Len(mdl) /\ mdl[k].domain # d /\ new[k] = mdl[k]
Longer(new, mdl, d, l, k) ==
  /\ k \in 1..Len(mdl) /\ mdl[k].domain = d /\ new[k].domain = d
  /\ new[k].messages = mdl[k].messages \o l
Created(new, mdl, d, l, k) ==
  /\ k = Len(mdl) + 1 /\ new[k].domain = d /\ new[k].messages = l
  /\ \A j \in 1..Len(mdl) : mdl[j].domain # d

Extended(new, mdl, d, l) ==
  /\ IsCatalog(new)
  /\ Len(new) \in {Len(mdl), Len(mdl) + 1}
  /\ \A k \in 1..Len(new) :
       Untouched(new, mdl, d, k) \/ Longer(new, mdl, d, l, k) \/ Created(new, mdl, d, l, k)
  /\ \E k \in 1..Len(new) : Longer(new, mdl, d, l, k) \/ Created(new, mdl, d, l, k)

LEMMA AppendedTo ==
  ASSUME NEW mdl, IsCatalog(mdl), NEW d, NEW l, ListRead(l)
  PROVE  Extended(AppendTo(mdl, d, l), mdl, d, l)
<1>1. /\ IsSeq(mdl) /\ Len(mdl) \in Nat /\ DOMAIN mdl = 1..Len(mdl)
      /\ mdl = [k \in 1..Len(mdl) |-> mdl[k]]
      /\ \A k \in 1..Len(mdl) : DOMAIN mdl[k] = {"domain", "messages"} /\ ListRead(mdl[k].messages)
      /\ \A j, k \in 1..Len(mdl) : mdl[j].domain = mdl[k].domain => j = k
  BY Catalogs
<1>. DEFINE n == DomainIndex(mdl, d)
<1>2. Found(n, Len(mdl), { i \in 1..Len(mdl) : mdl[i].domain = d }) BY <1>1, DomainFound
<1>3. PICK new : new = AppendTo(mdl, d, l) OBVIOUS
<1>4. CASE n = 0
  <2>1. \A j \in 1..Len(mdl) : mdl[j].domain # d BY <1>2, <1>4 DEF Found
  <2>2. new = Append(mdl, [domain |-> d, messages |-> l]) BY <1>3, <1>4 DEF AppendTo
  <2>3. PICK r : r = [domain |-> d, messages |-> l] OBVIOUS
  <2>4. r.domain = d /\ r.messages = l /\ DOMAIN r = {"domain", "messages"} BY <2>3
  <2>5. /\ Len(new) = Len(mdl) + 1 /\ new = [k \in 1..(Len(mdl) + 1) |-> new[k]]
        /\ \A k \in 1..Len(mdl) : new[k] = mdl[k]
        /\ new[Len(mdl) + 1] = r
    BY <1>1, <2>2, <2>3 DEF IsSeq
  <2>6. \A k \in 1..(Len(mdl) + 1) : k \in 1..Len(mdl) \/ k = Len(mdl) + 1 BY <1>1
  <2>7. \A k \in 1..(Len(mdl) + 1) :
           DOMAIN new[k] = {"domain", "messages"} /\ ListRead(new[k].messages)
    BY <1>1, <2>4, <2>5, <2>6
  <2>8. \A j, k \in 1..(Len(mdl) + 1) : new[j].domain = new[k].domain => j = k
    BY <1>1, <2>1, <2>4, <2>5, <2>6
  <2>9. IsCatalog(new) BY <1>1, <2>5, <2>7, <2>8, CatalogMade
  <2>10. Len(mdl) + 1 \in 1..(Len(mdl) + 1) BY <1>1
  <2>11. Created(new, mdl, d, l, Len(mdl) + 1) BY <2>1, <2>4, <2>5 DEF Created
  <2>12. \A k \in 1..Len(mdl) : Untouched(new, mdl, d, k) BY <2>1, <2>5 DEF Untouched
  <2>. QED BY <1>3, <2>5, <2>6, <2>9, <2>10, <2>11, <2>12 DEF Extended
<1>5. CASE n # 0
  <2>1. n \in 1..Len(mdl) /\ mdl[n].domain = d BY <1>1, <1>2, <1>5 DEF Found
  <2>2. new = [mdl EXCEPT ![n].messages = @ \o l] BY <1>3, <1>5 DEF AppendTo
  <2>. HIDE DEF n
  <2>3. /\ new = [k \in 1..Len(mdl) |-> new[k]]
        /\ \A k \in 1..Len(mdl) : k # n => new[k] = mdl[k]
        /\ DOMAIN new[n] = {"domain", "messages"} /\ new[n].domain = d
        /\ new[n].messages = mdl[n].messages \o l
    BY <1>1, <2>1, <2>2
  <2>4. ListRead(mdl[n].messages \o l) BY <1>1, <2>1, ListJoined
  <2>5. \A k \in 1..Len(mdl) :
           DOMAIN new[k] = {"domain", "messages"} /\ ListRead(new[k].messages)
    BY <1>1, <2>3, <2>4
  <2>6. \A k \in 1..Len(mdl) : new[k].domain = mdl[k].domain BY <2>1, <2>3
  <2>7. \A j, k \in 1..Len(mdl) : new[j].domain = new[k].domain => j = k BY <1>1, <2>6
  <2>8. IsCatalog(new) /\ Len(new) = Len(mdl) BY <1>1, <2>3, <2>5, <2>7, CatalogMade
  <2>9. \A k \in 1..Len(mdl) : mdl[k].domain = d => k = n BY <1>1, <2>1
  <2>10. Longer(new, mdl, d, l, n) BY <2>1, <2>3 DEF Longer
  <2>11. \A k \in 1..Len(mdl) : k # n => Untouched(new, mdl, d, k) BY <2>3, <2>9 DEF Untouched
  <2>. QED BY <1>3, <2>1, <2>8, <2>10, <2>11 DEF Extended
<1>. QED BY <1>4, <1>5

-----------------------------------------------------------------------------
(* msgmerge: what is kept of a definition.                                  *)

SameText(m, o) == o.pos = m.pos /\ o.str[1] = m.str[1]

LEMMA MessageFacts ==
  ASSUME NEW m, IsRead(m)
  PROVE  /\ DOMAIN m = MessageFields
         /\ m.str \in Seq(TextKinds)
         /\ Len(m.str) \in Nat \ {0} /\ m.str[1] \in TextKinds
         /\ m.str = [i \in 1..Len(m.str) |-> m.str[i]]
<1>1. DOMAIN m = MessageFields /\ m.str \in Seq(TextKinds) /\ m.str # <<>> BY DEF IsRead
<1>2. PICK str : str = m.str OBVIOUS
<1>3. str \in Seq(TextKinds) /\ str # <<>> BY <1>1, <1>2
<1>4. Len(str) \in Nat \ {0} /\ str[1] \in TextKinds /\ str = [i \in 1..Len(str) |-> str[i]]
  BY <1>3
<1>. QED BY <1>1, <1>2, <1>4

LEMMA OneText ==
  ASSUME NEW S, NEW x \in S
  PROVE  <<x>> \in Seq(S) /\ <<x>> # <<>> /\ <<x>>[1] = x
OBVIOUS

LEMMA HeaderMerged ==
  ASSUME args \in Inputs, NEW d, IsRead(d), NEW r, IsRead(r)
  PROVE  /\ MergedFields(d, r) \in [nplurals : Nat, potdate : Nat, language : Nat]
         /\ MergedFields(d, r) = NoFields => d.hdr = NoFields
         /\ MergedFields(d, r).nplurals = d.hdr.nplurals
<1>1. d.hdr \in [nplurals : Nat, potdate : Nat, language : Nat] BY DEF IsRead
<1>2. r.hdr \in [nplurals : Nat, potdate : Nat, language : Nat] BY DEF IsRead
<1>3. args.lang \in Nat BY InputsAssumption
<1>4. MergedFields(d, r) \in [nplurals : Nat, potdate : Nat, language : Nat]
  BY <1>1, <1>2, <1>3 DEF MergedFields
<1>5. ASSUME MergedFields(d, r) = NoFields PROVE d.hdr = NoFields
  <2>1. d.hdr.nplurals = 0 BY <1>5 DEF MergedFields, NoFields
  <2>2. d.hdr.potdate = 0 BY <1>5 DEF MergedFields, NoFields
  <2>3. d.hdr.language = 0 BY <1>5 DEF MergedFields, NoFields
  <2>. QED BY <1>1, <2>1, <2>2, <2>3 DEF NoFields
<1>. QED BY <1>4, <1>5 DEF MergedFields

LEMMA MergedRead ==
  ASSUME args \in Inputs, NEW d, IsRead(d), NEW r, IsRead(r), NEW f,
         is_header(r) => is_header(d)
  PROVE  /\ IsRead(message_merge(d, r, f))
         /\ message_merge(d, r, f).id = r.id
         /\ message_merge(d, r, f).pos = d.pos
         /\ Translated(d) => message_merge(d, r, f).str[1] = d.str[1]
<1>. DEFINE hdr == IF is_header(r) THEN MergedFields(d, r) ELSE NoFields
            str == IF is_header(r)
                   THEN IF hdr = NoFields THEN <<"">> ELSE <<"full">>
                   ELSE d.str
            prev == IF ~args.previous \/ is_header(r) THEN NoId ELSE PrevId(d)
            fuzzy == d.fuzzy \/ f \/ Unfit(d, r, str)
<1>1. PICK m : m = message_merge(d, r, f) OBVIOUS
<1>2. m = [id |-> r.id, plural |-> r.plural, str |-> str, hdr |-> hdr, fuzzy |-> fuzzy,
           obsolete |-> r.obsolete, format |-> r.format, range |-> r.range,
           prev |-> prev, pos |-> d.pos]
  BY <1>1, Zenon DEF message_merge
<1>3. hdr \in [nplurals : Nat, potdate : Nat, language : Nat]
  <2>1. NoFields \in [nplurals : Nat, potdate : Nat, language : Nat] BY DEF NoFields
  <2>. QED BY <2>1, HeaderMerged
<1>4. str \in Seq(TextKinds) /\ str # <<>>
  <2>1. d.str \in Seq(TextKinds) /\ d.str # <<>> BY DEF IsRead
  <2>2. "" \in TextKinds /\ "full" \in TextKinds BY DEF TextKinds
  <2>3. <<"">> \in Seq(TextKinds) /\ <<"">> # <<>> /\ <<"full">> \in Seq(TextKinds) /\ <<"full">> # <<>>
    BY <2>2, OneText
  <2>4. str \in {<<"">>, <<"full">>, d.str} OBVIOUS
  <2>. HIDE DEF str
  <2>. QED BY <2>1, <2>3, <2>4
<1>5. is_header(r) => str = IF hdr = NoFields THEN <<"">> ELSE <<"full">> OBVIOUS
<1>6. Translated(d) => str[1] = d.str[1]
  <2>1. CASE is_header(r)
    <3>1. d.str = IF d.hdr = NoFields THEN <<"">> ELSE <<"full">> BY <2>1 DEF IsRead
    <3>2. hdr = NoFields => d.hdr = NoFields BY <2>1, HeaderMerged
    <3>3. d.str[1] # "" => str = <<"full">> /\ d.str = <<"full">>
      <4>1. str = IF hdr = NoFields THEN <<"">> ELSE <<"full">> BY <2>1
      <4>2. <<"">>[1] = "" OBVIOUS
      <4>. HIDE DEF str, hdr
      <4>3. CASE d.hdr = NoFields
        <5>1. d.str = <<"">> BY <3>1, <4>3
        <5>2. d.str[1] = "" BY <4>2, <5>1
        <5>. QED BY <5>2
      <4>4. CASE d.hdr # NoFields
        <5>1. d.str = <<"full">> BY <3>1, <4>4
        <5>2. str = <<"full">> BY <3>2, <4>1, <4>4
        <5>. QED BY <5>1, <5>2
      <4>. QED BY <4>3, <4>4
    <3>. HIDE DEF str
    <3>. QED BY <3>3 DEF Translated
  <2>2. CASE ~is_header(r) BY <2>2
  <2>. QED BY <2>1, <2>2
<1>7. (r.range = NoRange \/ r.range \in Nat \X Nat) /\ (is_header(r) => r.plural = NoPlural)
  BY DEF IsRead
<1>. HIDE DEF hdr, str, prev, fuzzy
<1>8. /\ DOMAIN m = MessageFields
      /\ m.id = r.id /\ m.plural = r.plural /\ m.str = str /\ m.hdr = hdr
      /\ m.range = r.range /\ m.pos = d.pos
  BY <1>2 DEF MessageFields
<1>9. is_header(m) <=> is_header(r) BY <1>8 DEF is_header
<1>10. IsRead(m) BY <1>3, <1>4, <1>5, <1>7, <1>8, <1>9 DEF IsRead
<1>. QED BY <1>1, <1>6, <1>8, <1>10

LEMMA TextReplaced ==
  ASSUME NEW m, IsRead(m), ~is_header(m), NEW o, DOMAIN o = MessageFields,
         o.id = m.id, o.hdr = m.hdr, o.range = m.range,
         o.str \in Seq(TextKinds), o.str # <<>>
  PROVE  IsRead(o)
BY DEF IsRead, is_header

LEMMA Product ==
  ASSUME NEW a \in Nat \ {0}, NEW b \in Nat \ {0}
  PROVE  a * b \in Nat \ {0}
OBVIOUS

LEMMA RepairedRead ==
  ASSUME NEW x, IsRead(x.msg), NEW n \in Nat \ {0}, is_header(x.msg) => x.problem = 0
  PROVE  /\ IsRead(Repaired(x, n))
         /\ Repaired(x, n).id = x.msg.id
         /\ SameText(x.msg, Repaired(x, n))
<1>. DEFINE m == x.msg
<1>1. /\ DOMAIN m = MessageFields /\ m.str \in Seq(TextKinds)
      /\ Len(m.str) \in Nat \ {0} /\ m.str[1] \in TextKinds
  BY MessageFacts
<1>. HIDE DEF m
<1>2. CASE x.problem = 1
  <2>. DEFINE L == Len(m.str)
              str == [i \in 1..(n * L) |-> m.str[((i - 1) % L) + 1]]
  <2>1. L \in Nat \ {0} BY <1>1
  <2>2. ~is_header(m) BY <1>2 DEF m
  <2>3. Repaired(x, n) = [m EXCEPT !.fuzzy = TRUE, !.str = str] BY <1>2 DEF Repaired, m
  <2>4. n * L \in Nat \ {0} BY <2>1, Product
  <2>. HIDE DEF L
  <2>5. ASSUME NEW i \in 1..(n * L) PROVE m.str[((i - 1) % L) + 1] \in TextKinds
    <3>1. i - 1 \in Nat BY <2>4
    <3>2. (i - 1) % L \in 0..(L - 1) BY <2>1, <3>1
    <3>3. ((i - 1) % L) + 1 \in 1..L BY <2>1, <3>2
    <3>4. PICK k \in 1..L : k = ((i - 1) % L) + 1 BY <3>3
    <3>5. m.str[k] \in TextKinds BY <1>1, <3>4 DEF L
    <3>. QED BY <3>4, <3>5
  <2>6. str \in [1..(n * L) -> TextKinds] BY <2>5
  <2>7. 1 \in 1..(n * L) BY <2>4
  <2>8. str[1] = m.str[1]
    <3>1. (1 - 1) % L = 0 BY <2>1
    <3>. QED BY <2>7, <3>1
  <2>. DEFINE k == n * L
  <2>9. str \in Seq(TextKinds) /\ str # <<>>
    <3>1. k \in Nat /\ str \in [1..k -> TextKinds] /\ DOMAIN str = 1..k /\ 1 \in 1..k
      BY <2>4, <2>6, <2>7
    <3>. HIDE DEF k, str
    <3>2. PICK t : t = str OBVIOUS
    <3>3. t \in [1..k -> TextKinds] BY <3>1, <3>2
    <3>4. t \in Seq(TextKinds) /\ t # <<>> BY <3>1, <3>3
    <3>. QED BY <3>2, <3>4
  <2>. HIDE DEF str, k
  <2>10. PICK o : o = [m EXCEPT !.fuzzy = TRUE, !.str = str] OBVIOUS
  <2>11. /\ DOMAIN o = MessageFields /\ o.str = str /\ o.id = m.id /\ o.hdr = m.hdr
         /\ o.range = m.range /\ o.pos = m.pos
    BY <1>1, <2>10 DEF MessageFields
  <2>12. IsRead(o) BY <2>2, <2>9, <2>11, TextReplaced DEF m
  <2>. QED BY <2>3, <2>8, <2>10, <2>11, <2>12 DEF SameText, m
<1>3. CASE x.problem = 2 /\ Len(m.str) > 1
  <2>1. ~is_header(m) BY <1>3 DEF m
  <2>2. Repaired(x, n) = [m EXCEPT !.str = <<m.str[1]>>, !.fuzzy = TRUE]
    BY <1>3 DEF Repaired, m
  <2>3. PICK first : first = m.str[1] /\ first \in TextKinds BY <1>1
  <2>. DEFINE str == <<m.str[1]>>
  <2>a. <<first>> \in Seq(TextKinds) /\ <<first>> # <<>> /\ <<first>>[1] = first BY <2>3
  <2>4. str \in Seq(TextKinds) /\ str # <<>> /\ str[1] = m.str[1] BY <2>3, <2>a
  <2>. HIDE DEF str
  <2>5. PICK o : o = [m EXCEPT !.str = str, !.fuzzy = TRUE] OBVIOUS
  <2>6. /\ DOMAIN o = MessageFields /\ o.str = str /\ o.id = m.id /\ o.hdr = m.hdr
        /\ o.range = m.range /\ o.pos = m.pos
    BY <1>1, <2>5 DEF MessageFields
  <2>7. IsRead(o) BY <2>1, <2>4, <2>6, TextReplaced DEF m
  <2>. QED BY <2>2, <2>4, <2>5, <2>6, <2>7 DEF SameText, m, str
<1>4. CASE x.problem # 1 /\ ~(x.problem = 2 /\ Len(m.str) > 1)
  <2>1. Repaired(x, n) = m BY <1>4 DEF Repaired, m
  <2>. QED BY <2>1 DEF SameText, m
<1>. QED BY <1>2, <1>3, <1>4

LEMMA FieldChanged ==
  ASSUME NEW m, IsRead(m), NEW o, DOMAIN o = MessageFields,
         o.id = m.id, o.plural = m.plural, o.hdr = m.hdr, o.str = m.str,
         o.range \in {m.range, NoRange}
  PROVE  IsRead(o)
BY DEF IsRead, is_header

LEMMA PrevDropped ==
  ASSUME NEW m, IsRead(m)
  PROVE  IsRead(DropPrev(m)) /\ DropPrev(m).id = m.id /\ SameText(m, DropPrev(m))
<1>1. DOMAIN m = MessageFields BY DEF IsRead
<1>2. PICK o : o = [m EXCEPT !.prev = NoId] OBVIOUS
<1>3. /\ DOMAIN o = MessageFields /\ o.str = m.str /\ o.id = m.id /\ o.hdr = m.hdr
      /\ o.range = m.range /\ o.pos = m.pos /\ o.plural = m.plural
  BY <1>1, <1>2 DEF MessageFields
<1>4. IsRead(o) BY <1>3, FieldChanged
<1>. QED BY <1>2, <1>3, <1>4 DEF DropPrev, SameText

LEMMA PluralCount ==
  ASSUME NEW l, ListRead(l)
  PROVE  get_plural_count(l) \in Nat \ {0}
<1>. DEFINE h == message_list_search(l, Header)
<1>1. Len(l) \in Nat /\ \A i \in 1..Len(l) : IsRead(l[i]) BY ListFacts
<1>2. Found(h, Len(l), { i \in 1..Len(l) : l[i].id = Header }) BY <1>1, MessageFound
<1>3. h # 0 => l[h].hdr \in [nplurals : Nat, potdate : Nat, language : Nat]
  BY <1>1, <1>2 DEF Found, IsRead
<1>4. get_plural_count(l) = IF h # 0 /\ l[h].hdr.nplurals # 0 THEN l[h].hdr.nplurals ELSE 2
  BY DEF get_plural_count
<1>. HIDE DEF h
<1>. QED BY <1>3, <1>4

LEMMA MissingRead ==
  ASSUME NEW r, IsRead(r), ~is_header(r), NEW n \in Nat \ {0}
  PROVE  IsRead(Missing(r, n)) /\ Missing(r, n).id = r.id
<1>1. DOMAIN r = MessageFields /\ r.str \in Seq(TextKinds) /\ Len(r.str) \in Nat \ {0}
  BY MessageFacts
<1>2. PICK m : m = message_copy(r) OBVIOUS
<1>3. m = [r EXCEPT !.obsolete = FALSE] BY <1>2 DEF message_copy
<1>4. /\ DOMAIN m = MessageFields /\ m.str = r.str /\ m.id = r.id /\ m.hdr = r.hdr
      /\ m.range = r.range /\ m.plural = r.plural
  BY <1>1, <1>3 DEF MessageFields
<1>5. IsRead(m) BY <1>4, FieldChanged
<1>. DEFINE str == [i \in 1..n |-> ""]
<1>6. str \in Seq(TextKinds) /\ str # <<>>
  <2>1. "" \in TextKinds BY DEF TextKinds
  <2>2. str \in [1..n -> TextKinds] /\ DOMAIN str = 1..n BY <2>1
  <2>. HIDE DEF str
  <2>3. PICK t : t = str OBVIOUS
  <2>4. t \in [1..n -> TextKinds] BY <2>2, <2>3
  <2>5. t \in Seq(TextKinds) /\ t # <<>> BY <2>4
  <2>. QED BY <2>3, <2>5
<1>. HIDE DEF str
<1>7. PICK o : o = [m EXCEPT !.str = str] OBVIOUS
<1>8. /\ DOMAIN o = MessageFields /\ o.str = str /\ o.id = m.id /\ o.hdr = m.hdr
      /\ o.range = m.range
  BY <1>4, <1>7 DEF MessageFields
<1>9. ~is_header(m) BY <1>4 DEF is_header
<1>10. IsRead(o) BY <1>5, <1>6, <1>8, <1>9, TextReplaced
<1>11. Missing(r, n) \in {m, o} BY <1>2, <1>7 DEF Missing, str
<1>. QED BY <1>4, <1>5, <1>8, <1>10, <1>11

(* Where the searches look.                                                 *)
At(ll, a) == a[1] \in 1..Len(ll) /\ a[2] \in 1..Len(ll[a[1]])

LEMMA ExactPlace ==
  ASSUME NEW ll, \A l \in 1..Len(ll) : Len(ll[l]) \in Nat, NEW id,
         message_list_list_search(ll, id) # None
  PROVE  /\ At(ll, message_list_list_search(ll, id))
         /\ ll[message_list_list_search(ll, id)[1]][message_list_list_search(ll, id)[2]].id = id
<1>. DEFINE place(l) == message_list_search(ll[l], id)
            W(l) == IF place(l) = 0 THEN 0 ELSE Weight(ll[l][place(l)])
            best == { l \in 1..Len(ll) :
                        /\ W(l) > 0
                        /\ \A o \in 1..Len(ll) : W(o) < W(l) \/ (W(o) = W(l) /\ l <= o) }
            l == CHOOSE l \in best : TRUE
<1>1. message_list_list_search(ll, id) = IF best = {} THEN <<0, 0>> ELSE <<l, place(l)>>
  BY Zenon DEF message_list_list_search
<1>2. \A k \in best : k \in 1..Len(ll) /\ place(k) # 0 OBVIOUS
<1>. HIDE DEF best
<1>3. best # {} BY <1>1 DEF None
<1>4. l \in best BY <1>3
<1>. HIDE DEF l
<1>5. message_list_list_search(ll, id) = <<l, place(l)>> BY <1>1, <1>3
<1>6. l \in 1..Len(ll) /\ place(l) # 0 BY <1>2, <1>4
<1>7. Found(place(l), Len(ll[l]), { i \in 1..Len(ll[l]) : ll[l][i].id = id }) BY <1>6, MessageFound
<1>8. place(l) \in 1..Len(ll[l]) /\ ll[l][place(l)].id = id BY <1>6, <1>7 DEF Found
<1>. QED BY <1>5, <1>6, <1>8 DEF At

LEMMA FuzzyPlace ==
  ASSUME NEW fi, NEW id, NEW bound, FuzzySearch(fi, id, bound) # None
  PROVE  /\ FuzzySearch(fi, id, bound)[1] \in DOMAIN fi
         /\ FuzzySearch(fi, id, bound)[2] \in 1..Len(fi[FuzzySearch(fi, id, bound)[1]])
<1>. DEFINE G(a) == Goal(fi[a[1]][a[2]], id)
            Before_(a, b) == a[1] < b[1] \/ (a[1] = b[1] /\ a[2] < b[2])
            places == UNION { {l} \X (1..Len(fi[l])) : l \in DOMAIN fi }
            all  == { a \in places : Translated(fi[a[1]][a[2]]) /\ G(a) > bound }
            best == { a \in all : \A b \in all \ {a} :
                        G(a) > G(b) \/ (G(a) = G(b) /\ Before_(a, b)) }
<1>1. FuzzySearch(fi, id, bound) = IF best = {} THEN None ELSE CHOOSE a \in best : TRUE
  BY Zenon DEF FuzzySearch
<1>2. best \subseteq places
  <2>1. all \subseteq places OBVIOUS
  <2>. HIDE DEF all
  <2>2. best \subseteq all OBVIOUS
  <2>. QED BY <2>1, <2>2
<1>3. \A a \in places : a[1] \in DOMAIN fi /\ a[2] \in 1..Len(fi[a[1]]) OBVIOUS
<1>. HIDE DEF best, places
<1>4. FuzzySearch(fi, id, bound) \in best BY <1>1
<1>. QED BY <1>2, <1>3, <1>4

(* The passes, and the lists of a pass.                                     *)
LEMMA PassFacts ==
  ASSUME args \in Inputs, IsCatalog(def), def # <<>>
  PROVE  /\ Len(Passes) \in Nat
         /\ \A p \in 1..Len(Passes) :
              /\ args.multi_domain \/ p \in 1..Len(args.ref)
              /\ Passes[p].def \in 0..Len(def)
              /\ \A d \in 1..Len(def) : Passes[p].domain = def[d].domain <=> Passes[p].def = d
<1>1. /\ Len(def) \in Nat
      /\ \A d, e \in 1..Len(def) : def[d].domain = def[e].domain => d = e
  BY Catalogs
<1>2. Len(args.ref) \in Nat BY InputsAssumption, Catalogs DEF IsFile
<1>3. CASE args.multi_domain
  <2>. DEFINE pair(d) == [domain |-> def[d].domain, def |-> d]
              all == [d \in 1..Len(def) |-> pair(d)]
  <2>1. Passes = IF def[1].messages = <<>> THEN Tail(all) ELSE all BY <1>3 DEF Passes
  <2>2. IsSeq(all) /\ Len(all) = Len(def) /\ \A d \in 1..Len(def) : all[d] = pair(d)
    <3>1. all = [d \in 1..Len(def) |-> all[d]] OBVIOUS
    <3>2. \A d \in 1..Len(def) : all[d] = pair(d) OBVIOUS
    <3>. HIDE DEF all
    <3>. QED BY <1>1, <3>1, <3>2, SeqMade
  <2>3. \A d \in 1..Len(def) : pair(d).domain = def[d].domain /\ pair(d).def = d OBVIOUS
  <2>4. Len(def) # 0
    <3>1. IsSeq(def) BY Catalogs
    <3>. QED BY <3>1 DEF IsSeq
  <2>. HIDE DEF all, pair
  <2>5. CASE def[1].messages = <<>>
    <3>1. PICK t : t = Tail(all) OBVIOUS
    <3>2. all # <<>> BY <2>2, <2>4 DEF IsSeq
    <3>3. Len(t) = Len(def) - 1 /\ \A p \in 1..(Len(def) - 1) : t[p] = all[p + 1]
      BY <1>1, <2>2, <3>1, <3>2 DEF IsSeq
    <3>4. ASSUME NEW p \in 1..Len(t) PROVE t[p].def = p + 1 /\ p + 1 \in 1..Len(def)
                                         /\ t[p].domain = def[p + 1].domain
      <4>1. p + 1 \in 1..Len(def) /\ p \in 1..(Len(def) - 1) BY <1>1, <2>4, <3>3
      <4>2. t[p] = pair(p + 1) BY <2>2, <3>3, <4>1
      <4>. QED BY <2>3, <4>1, <4>2
    <3>5. Passes = t BY <2>1, <2>5, <3>1
    <3>6. Len(t) \in Nat BY <1>1, <2>4, <3>3
    <3>. QED BY <1>1, <1>3, <3>4, <3>5, <3>6
  <2>6. CASE def[1].messages # <<>>
    <3>1. Passes = all BY <2>1, <2>6
    <3>. QED BY <1>1, <1>3, <2>2, <2>3, <3>1
  <2>. QED BY <2>5, <2>6
<1>4. CASE ~args.multi_domain
  <2>. DEFINE pair(r) == [domain |-> args.ref[r].domain, def |-> DomainIndex(def, args.ref[r].domain)]
  <2>1. Passes = [r \in 1..Len(args.ref) |-> pair(r)] BY <1>4 DEF Passes
  <2>2. Len(Passes) = Len(args.ref) BY <1>2, <2>1
  <2>3. ASSUME NEW p \in 1..Len(Passes)
        PROVE  /\ p \in 1..Len(args.ref)
               /\ Passes[p].def \in 0..Len(def)
               /\ \A d \in 1..Len(def) : Passes[p].domain = def[d].domain <=> Passes[p].def = d
    <3>. DEFINE n == args.ref[p].domain
    <3>1. p \in 1..Len(args.ref) BY <2>2
    <3>2. Passes[p].domain = n /\ Passes[p].def = DomainIndex(def, n) BY <2>1, <3>1
    <3>. HIDE DEF n
    <3>3. Found(DomainIndex(def, n), Len(def), { i \in 1..Len(def) : def[i].domain = n })
      BY <1>1, DomainFound
    <3>4. ASSUME NEW d \in 1..Len(def) PROVE n = def[d].domain <=> DomainIndex(def, n) = d
      BY <1>1, <3>3 DEF Found
    <3>5. DomainIndex(def, n) \in 0..Len(def) BY <3>3 DEF Found
    <3>. QED BY <3>1, <3>2, <3>4, <3>5
  <2>. QED BY <1>2, <2>2, <2>3
<1>. QED BY <1>3, <1>4

LEMMA DummyRead == IsRead(DummyHeader) /\ DummyHeader.id = Header
<1>1. DOMAIN DummyHeader = MessageFields BY DEF DummyHeader, MessageFields
<1>2. DummyHeader.str = <<"">> /\ DummyHeader.hdr = NoFields /\ DummyHeader.range = NoRange
      /\ DummyHeader.plural = NoPlural /\ DummyHeader.id = Header
  BY DEF DummyHeader
<1>3. <<"">> \in Seq(TextKinds) /\ <<"">> # <<>>
  <2>1. "" \in TextKinds BY DEF TextKinds
  <2>. QED BY <2>1, OneText
<1>4. NoFields \in [nplurals : Nat, potdate : Nat, language : Nat] BY DEF NoFields
<1>5. IsRead(DummyHeader) BY <1>1, <1>2, <1>3, <1>4 DEF IsRead
<1>. QED BY <1>2, <1>5

LEMMA ListsRead ==
  ASSUME args \in Inputs, IsCatalog(def), def # <<>>, NEW p \in 1..Len(Passes)
  PROVE  /\ ListRead(DefList(p)) /\ ListRead(RefList(p))
         /\ IsSeq(<<DefList(p)>> \o args.compendiums)
         /\ Len(<<DefList(p)>> \o args.compendiums) \in Nat
         /\ Len(<<DefList(p)>> \o args.compendiums) >= 1
         /\ (<<DefList(p)>> \o args.compendiums)[1] = DefList(p)
         /\ \A l \in 1..Len(<<DefList(p)>> \o args.compendiums) :
              ListRead((<<DefList(p)>> \o args.compendiums)[l])
<1>. DEFINE c == args.compendiums
<1>1. IsSeq(<<>>) /\ Len(<<>>) = 0 BY Empty
<1>2. ListRead(<<>>) BY <1>1, Listed, SeqFacts DEF ListRead
<1>3. Passes[p].def \in 0..Len(def) /\ (args.multi_domain \/ p \in 1..Len(args.ref)) BY PassFacts
<1>4. ListRead(DefList(p))
  <2>1. \A d \in 1..Len(def) : ListRead(def[d].messages) BY Catalogs
  <2>. QED BY <1>2, <1>3, <2>1, Catalogs DEF DefList
<1>5. ListRead(RefList(p))
  <2>. DEFINE l == args.ref[IF args.multi_domain THEN 1 ELSE p].messages
  <2>1. IsCatalog(args.ref) /\ args.ref # <<>> BY InputsAssumption DEF IsFile
  <2>2. Len(args.ref) \in Nat \ {0}
    <3>1. IsSeq(args.ref) BY <2>1, Catalogs
    <3>. QED BY <2>1, <3>1 DEF IsSeq
  <2>3. ListRead(l) BY <1>3, <2>1, <2>2, Catalogs
  <2>4. ListRead(<<DummyHeader>>)
    <3>1. <<DummyHeader>> = [i \in 1..1 |-> <<DummyHeader>>[i]] /\ <<DummyHeader>>[1] = DummyHeader
      OBVIOUS
    <3>2. \A i \in 1..1 : IsRead(<<DummyHeader>>[i]) BY <3>1, DummyRead
    <3>3. PICK d : d = <<DummyHeader>> OBVIOUS
    <3>4. d = [i \in 1..1 |-> d[i]] /\ \A i \in 1..1 : IsRead(d[i]) BY <3>1, <3>2, <3>3
    <3>. QED BY <3>3, <3>4, ListMade
  <2>5. ListRead(<<DummyHeader>> \o l) BY <2>3, <2>4, ListJoined
  <2>. QED BY <2>3, <2>5 DEF RefList, WithHeader
<1>6. IsSeq(c) /\ Len(c) \in Nat /\ \A l \in 1..Len(c) : ListRead(c[l])
  <2>1. IsSeq(c) /\ \A l \in DOMAIN c : ListRead(c[l]) BY InputsAssumption, Listed
  <2>. QED BY <2>1, SeqFacts
<1>7. PICK d : d = DefList(p) OBVIOUS
<1>8. PICK all : all = <<d>> \o c OBVIOUS
<1>9. IsSeq(<<d>>) /\ Len(<<d>>) = 1 /\ <<d>>[1] = d BY Singleton
<1>10. /\ IsSeq(all) /\ Len(all) = 1 + Len(c)
       /\ \A l \in 1..1 : all[l] = <<d>>[l]
       /\ \A l \in 1..Len(c) : all[1 + l] = c[l]
  BY <1>6, <1>8, <1>9, Joined
<1>11. all[1] = d BY <1>9, <1>10
<1>12. ASSUME NEW l \in 1..Len(all) PROVE ListRead(all[l])
  <2>1. CASE l = 1 BY <1>4, <1>7, <1>11, <2>1
  <2>2. CASE l # 1
    <3>1. l - 1 \in 1..Len(c) /\ 1 + (l - 1) = l BY <1>6, <1>10, <2>2
    <3>2. all[1 + (l - 1)] = c[l - 1] BY <1>10, <3>1
    <3>. QED BY <1>6, <3>1, <3>2
  <2>. QED BY <2>1, <2>2
<1>. HIDE DEF c
<1>13. all = <<DefList(p)>> \o c BY <1>7, <1>8
<1>14. Len(all) \in Nat /\ Len(all) >= 1 BY <1>6, <1>10
<1>. QED BY <1>4, <1>5, <1>7, <1>10, <1>11, <1>12, <1>13, <1>14 DEF c

(* What a search may find.                                                  *)
LEMMA AloneFound ==
  ASSUME Len(lists) \in Nat, Len(lists) >= 1,
         \A l \in 1..Len(lists) : Len(lists[l]) \in Nat, NEW j
  PROVE  SearchAlone(j).found # None =>
           /\ At(lists, SearchAlone(j).found)
           /\ \/ /\ SearchAlone(j).found = message_list_list_search(lists, refmlp[j].id)
                 /\ lists[SearchAlone(j).found[1]][SearchAlone(j).found[2]].id = refmlp[j].id
              \/ ~is_header(refmlp[j]) /\ SearchAlone(j).fuzzy
<1>. DEFINE m     == refmlp[j]
            exact == message_list_list_search(lists, m.id)
            best1 == FuzzySearch(Index(lists, {1}), m.id, Threshold)
            best2 == FuzzySearch(Index(lists, 2..Len(lists)), m.id, LowerBound(best1, m.id))
            best  == IF best2 = None THEN best1 ELSE best2
<1>1. SearchAlone(j) = IF exact # None THEN [found |-> exact, fuzzy |-> FALSE]
                       ELSE IF is_header(m) \/ ~args.use_fuzzy \/ best = None THEN Unmatched
                       ELSE [found |-> best, fuzzy |-> TRUE]
  BY DEF SearchAlone
<1>2. exact # None => At(lists, exact) /\ lists[exact[1]][exact[2]].id = m.id
  BY ExactPlace
<1>3. \A n, k : k \in n => Index(lists, n)[k] = lists[k] BY DEF Index
<1>4. \A n : DOMAIN Index(lists, n) = n BY DEF Index
<1>5. best1 # None => At(lists, best1)
  <2>. SUFFICES ASSUME best1 # None PROVE At(lists, best1)
    OBVIOUS
  <2>1. best1[1] \in DOMAIN Index(lists, {1}) /\ best1[2] \in 1..Len(Index(lists, {1})[best1[1]])
    BY FuzzyPlace
  <2>. HIDE DEF best1
  <2>2. best1[1] = 1 BY <1>4, <2>1
  <2>3. Index(lists, {1})[1] = lists[1] BY <1>3
  <2>. QED BY <2>1, <2>2, <2>3 DEF At
<1>6. best2 # None => At(lists, best2)
  <2>. SUFFICES ASSUME best2 # None PROVE At(lists, best2)
    OBVIOUS
  <2>1. /\ best2[1] \in DOMAIN Index(lists, 2..Len(lists))
        /\ best2[2] \in 1..Len(Index(lists, 2..Len(lists))[best2[1]])
    BY FuzzyPlace
  <2>. HIDE DEF best2
  <2>2. best2[1] \in 2..Len(lists) BY <1>4, <2>1
  <2>3. Index(lists, 2..Len(lists))[best2[1]] = lists[best2[1]] BY <1>3, <2>2
  <2>. QED BY <2>1, <2>2, <2>3 DEF At
<1>. HIDE DEF exact, best1, best2
<1>7. best # None => At(lists, best) BY <1>5, <1>6
<1>. HIDE DEF best, m
<1>8. Unmatched.found = None BY DEF Unmatched, None
<1>9. CASE exact # None
  <2>1. SearchAlone(j).found = exact BY <1>1, <1>9
  <2>2. m = refmlp[j] /\ exact = message_list_list_search(lists, refmlp[j].id) BY DEF m, exact
  <2>3. lists[exact[1]][exact[2]].id = m.id /\ At(lists, exact) BY <1>2, <1>9
  <2>. QED BY <2>1, <2>2, <2>3
<1>10. CASE exact = None /\ (is_header(m) \/ ~args.use_fuzzy \/ best = None)
  BY <1>1, <1>8, <1>10
<1>11. CASE exact = None /\ ~(is_header(m) \/ ~args.use_fuzzy \/ best = None)
  <2>1. SearchAlone(j).found = best /\ SearchAlone(j).fuzzy = TRUE BY <1>1, <1>11
  <2>. QED BY <1>7, <1>11, <2>1 DEF m
<1>. QED BY <1>9, <1>10, <1>11

-----------------------------------------------------------------------------
(* msgmerge: the invariant of what it keeps.                                *)

KeptIn(mdl, m) ==
  \E k \in 1..Len(mdl) : \E n \in 1..Len(mdl[k].messages) : SameText(m, mdl[k].messages[n])

DomainKept(d) ==
  \A i \in 1..Len(def[d].messages) :
    Translated(def[d].messages[i]) => KeptIn(result, def[d].messages[i])

FilesInv == IsCatalog(file) /\ IsCatalog(def) /\ def # <<>> /\ IsCatalog(result)

(* The lists of this pass; an iteration that was taken has its result, or   *)
(* a thread is in it.                                                       *)
PassInv ==
  /\ phase \in {"set", "search", "obsolete", "write", "done"}
  /\ phase = "search" =>
       /\ pass \in 1..Len(Passes)
       /\ lists = <<DefList(pass)>> \o args.compendiums
       /\ refmlp = RefList(pass)
       /\ \A j \in 1..(next - 1) :
            \/ search_results[j] = SearchAlone(j)
            \/ \E t \in MergeThreads : mergepc[t] # "idle" /\ jj[t] = j

(* A definition that was merged is in the result.                           *)
UsedInv ==
  \A d \in 1..Len(def) : \A i \in 1..Len(def[d].messages) :
    <<d, i>> \in used /\ Translated(def[d].messages[i]) => KeptIn(result, def[d].messages[i])

(* So is every definition of a domain that the last loop has visited.       *)
ObsoleteInv ==
  /\ phase = "obsolete" => next \in 1..(Len(def) + 1) /\ \A d \in 1..(next - 1) : DomainKept(d)
  /\ phase \in {"write", "done"} => \A d \in 1..Len(def) : DomainKept(d)

KeepInv == FilesInv /\ PassInv /\ UsedInv /\ ObsoleteInv

LEMMA StillKept ==
  ASSUME NEW mdl, IsCatalog(mdl), NEW d, NEW l, ListRead(l), NEW new, Extended(new, mdl, d, l),
         NEW m, KeptIn(mdl, m)
  PROVE  KeptIn(new, m)
<1>0. PICK k \in 1..Len(mdl) : \E n \in 1..Len(mdl[k].messages) : SameText(m, mdl[k].messages[n])
  BY DEF KeptIn
<1>1. PICK n \in 1..Len(mdl[k].messages) : SameText(m, mdl[k].messages[n]) BY <1>0
<1>2. Len(mdl) \in Nat BY Catalogs
<1>3. k \in 1..Len(new) /\ k # Len(mdl) + 1 BY <1>2 DEF Extended
<1>4. Untouched(new, mdl, d, k) \/ Longer(new, mdl, d, l, k) BY <1>3 DEF Extended, Created
<1>5. CASE Untouched(new, mdl, d, k) BY <1>1, <1>3, <1>5 DEF KeptIn, Untouched
<1>6. CASE Longer(new, mdl, d, l, k)
  <2>1. IsSeq(mdl[k].messages) /\ Len(mdl[k].messages) \in Nat /\ IsSeq(l) /\ Len(l) \in Nat
    BY Catalogs, ListFacts
  <2>2. new[k].messages = mdl[k].messages \o l BY <1>6 DEF Longer
  <2>3. n \in 1..Len(new[k].messages) /\ new[k].messages[n] = mdl[k].messages[n]
    BY <2>1, <2>2, Joined
  <2>. QED BY <1>1, <1>3, <2>3 DEF KeptIn
<1>. QED BY <1>4, <1>5, <1>6

LEMMA AddedKept ==
  ASSUME NEW mdl, IsCatalog(mdl), NEW d, NEW l, ListRead(l), NEW new, Extended(new, mdl, d, l),
         NEW n \in 1..Len(l), NEW m, SameText(m, l[n])
  PROVE  KeptIn(new, m)
<1>1. Len(mdl) \in Nat /\ IsSeq(l) /\ Len(l) \in Nat BY Catalogs, ListFacts
<1>2. PICK k \in 1..Len(new) : Longer(new, mdl, d, l, k) \/ Created(new, mdl, d, l, k)
  BY DEF Extended
<1>3. CASE Created(new, mdl, d, l, k) BY <1>2, <1>3 DEF KeptIn, Created
<1>4. CASE Longer(new, mdl, d, l, k)
  <2>1. IsSeq(mdl[k].messages) /\ Len(mdl[k].messages) \in Nat
    BY <1>4, Catalogs, ListFacts DEF Longer
  <2>2. new[k].messages = mdl[k].messages \o l BY <1>4 DEF Longer
  <2>3. /\ Len(new[k].messages) = Len(mdl[k].messages) + Len(l)
        /\ new[k].messages[Len(mdl[k].messages) + n] = l[n]
    BY <1>1, <2>1, <2>2, Joined
  <2>4. Len(mdl[k].messages) + n \in 1..Len(new[k].messages) BY <1>1, <2>1, <2>3
  <2>. QED BY <1>2, <2>3, <2>4 DEF KeptIn
<1>. QED BY <1>2, <1>3, <1>4

(* The parallel loop.                                                       *)
LEMMA PassesKept ==
  ASSUME UNCHANGED <<args, def>>
  PROVE  /\ Passes' = Passes
         /\ \A p : DefList(p)' = DefList(p) /\ RefList(p)' = RefList(p)
<1>1. Passes' = Passes BY DEF Passes
<1>. QED BY <1>1 DEF DefList, RefList

LEMMA LoopKept ==
  ASSUME MergeInv, PassInv, phase = "search", UNCHANGED <<args, def, phase, pass, lists, refmlp>>,
         NEW t \in MergeThreads,
         \A u \in MergeThreads \ {t} : mergepc'[u] = mergepc[u] /\ jj'[u] = jj[u],
         next' \in {next, next + 1},
         \A j \in 1..Len(refmlp) :
           search_results'[j] = search_results[j] \/ search_results'[j] = SearchAlone(j),
         mergepc[t] # "idle" => \/ mergepc'[t] # "idle" /\ jj'[t] = jj[t]
                                \/ search_results'[jj[t]] = SearchAlone(jj[t]),
         next' = next + 1 => \/ mergepc'[t] # "idle" /\ jj'[t] = next
                             \/ search_results'[next] = SearchAlone(next)
  PROVE  PassInv'
<1>1. \A j : SearchAlone(j)' = SearchAlone(j) BY SoundKept
<1>2. Passes' = Passes /\ \A p : DefList(p)' = DefList(p) /\ RefList(p)' = RefList(p)
  BY PassesKept
<1>3. next \in 1..(Len(refmlp) + 1) /\ Len(refmlp) \in Nat BY DEF MergeInv, ListsInv
<1>4. ASSUME NEW j \in 1..(next' - 1)
      PROVE  \/ search_results'[j] = SearchAlone(j)
             \/ \E u \in MergeThreads : mergepc'[u] # "idle" /\ jj'[u] = j
  <2>1. CASE j \in 1..(next - 1)
    <3>1. j \in 1..Len(refmlp) BY <1>3, <2>1
    <3>2. CASE search_results[j] = SearchAlone(j) BY <3>1, <3>2
    <3>3. CASE \E u \in MergeThreads : mergepc[u] # "idle" /\ jj[u] = j
      <4>1. PICK u \in MergeThreads : mergepc[u] # "idle" /\ jj[u] = j BY <3>3
      <4>2. CASE u = t BY <4>1, <4>2
      <4>3. CASE u # t BY <4>1, <4>3
      <4>. QED BY <4>2, <4>3
    <3>. QED BY <2>1, <3>2, <3>3 DEF PassInv
  <2>2. CASE j \notin 1..(next - 1)
    <3>1. next' # next BY <2>2
    <3>2. next' = next + 1 BY <3>1
    <3>3. j \in 1..next BY <1>3, <3>2
    <3>4. j = next BY <1>3, <2>2, <3>3
    <3>. QED BY <3>2, <3>4
  <2>. QED BY <2>1, <2>2
<1>. QED BY <1>1, <1>2, <1>4 DEF PassInv

LEMMA SearchedKept ==
  ASSUME MergeInv, PassInv, NEW t \in MergeThreads, Thread(t)
  PROVE  PassInv'
<1>. DEFINE Frame == UNCHANGED <<args, def, phase, pass, lists, refmlp>>
            m == refmlp[jj[t]]
<1>1. CASE Iterate(t)
  <2>1. /\ phase = "search" /\ mergepc[t] = "idle" /\ next <= Len(search_results)
        /\ jj' = [jj EXCEPT ![t] = next] /\ next' = next + 1 /\ Frame
    BY <1>1 DEF Iterate, data
  <2>2. DOMAIN search_results = 1..Len(refmlp) /\ next \in 1..Len(refmlp)
        /\ Len(search_results) = Len(refmlp)
    BY <2>1 DEF MergeInv, ListsInv
  <2>3. mergepc \in [MergeThreads -> MergePoints] /\ jj \in [MergeThreads -> Nat] BY DEF MergeInv
  <2>4. jj'[t] = next /\ \A u \in MergeThreads \ {t} : jj'[u] = jj[u] BY <2>1, <2>3
  <2>5. \/ mergepc' = [mergepc EXCEPT ![t] = "check_curr"] /\ search_results' = search_results
        \/ Finish(t, next, SearchAlone(next))
    BY <1>1 DEF Iterate, SearchAlone
  <2>6. CASE mergepc' = [mergepc EXCEPT ![t] = "check_curr"] /\ search_results' = search_results
    <3>1. mergepc'[t] # "idle" /\ \A u \in MergeThreads \ {t} : mergepc'[u] = mergepc[u]
      BY <2>3, <2>6
    <3>. QED BY <2>1, <2>4, <2>6, <3>1, LoopKept
  <2>7. CASE Finish(t, next, SearchAlone(next))
    <3>1. /\ \A u \in MergeThreads \ {t} : mergepc'[u] = mergepc[u]
          /\ search_results'[next] = SearchAlone(next)
          /\ \A j \in 1..Len(refmlp) :
               search_results'[j] = search_results[j] \/ search_results'[j] = SearchAlone(j)
      BY <2>2, <2>3, <2>7 DEF Finish
    <3>. QED BY <2>1, <2>4, <3>1, LoopKept
  <2>. QED BY <2>5, <2>6, <2>7
<1>2. ASSUME mergepc[t] # "idle", LoopFrame, UNCHANGED jj,
             NEW pc, pc # "idle", mergepc' = [mergepc EXCEPT ![t] = pc], UNCHANGED search_results
      PROVE  PassInv'
  <2>1. phase = "search" /\ Frame /\ next' = next BY <1>2 DEF LoopFrame, data, MergeInv, ThreadInv
  <2>2. mergepc \in [MergeThreads -> MergePoints] BY DEF MergeInv
  <2>3. mergepc'[t] # "idle" /\ \A u \in MergeThreads \ {t} : mergepc'[u] = mergepc[u]
    BY <1>2, <2>2
  <2>4. next # next + 1
    <3>1. next \in Nat BY <2>1 DEF MergeInv, ListsInv
    <3>. QED BY <3>1
  <2>. QED BY <1>2, <2>1, <2>3, <2>4, LoopKept
<1>3. ASSUME mergepc[t] # "idle", LoopFrame, UNCHANGED jj, Finish(t, jj[t], SearchAlone(jj[t]))
      PROVE  PassInv'
  <2>1. phase = "search" /\ Frame /\ next' = next BY <1>3 DEF LoopFrame, data, MergeInv, ThreadInv
  <2>2. /\ mergepc \in [MergeThreads -> MergePoints]
        /\ DOMAIN search_results = 1..Len(refmlp) /\ jj[t] \in 1..Len(refmlp) /\ next \in Nat
    BY <1>3, <2>1 DEF MergeInv, ListsInv, ThreadInv
  <2>3. /\ \A u \in MergeThreads \ {t} : mergepc'[u] = mergepc[u]
        /\ search_results'[jj[t]] = SearchAlone(jj[t])
        /\ \A j \in 1..Len(refmlp) :
             search_results'[j] = search_results[j] \/ search_results'[j] = SearchAlone(j)
    BY <1>3, <2>2 DEF Finish
  <2>4. next # next + 1 BY <2>2
  <2>. QED BY <1>3, <2>1, <2>3, <2>4, LoopKept
<1>4. CASE \/ Check(t, "check_curr", curr_findex, "lock_curr", "search_curr")
           \/ Check(t, "check_comp", comp_findex, "lock_comp", "search_comp")
  <2>1. /\ LoopFrame /\ UNCHANGED jj /\ UNCHANGED search_results
        /\ mergepc[t] # "idle"
        /\ \E pc : pc # "idle" /\ mergepc' = [mergepc EXCEPT ![t] = pc]
    BY <1>4 DEF Check
  <2>. QED BY <1>2, <2>1
<1>5. CASE Lock(t, Curr, "lock_curr", "build_curr") \/ Lock(t, Comp, "lock_comp", "build_comp")
  <2>1. /\ LoopFrame /\ UNCHANGED jj /\ UNCHANGED search_results
        /\ mergepc[t] # "idle"
        /\ \E pc : pc # "idle" /\ mergepc' = [mergepc EXCEPT ![t] = pc]
    BY <1>5 DEF Lock
  <2>. QED BY <1>2, <2>1
<1>6. CASE BuildCurr(t) \/ BuildComp(t)
  <2>1. /\ LoopFrame /\ UNCHANGED jj /\ UNCHANGED search_results
        /\ mergepc[t] # "idle"
        /\ \E pc : pc # "idle" /\ mergepc' = [mergepc EXCEPT ![t] = pc]
    BY <1>6 DEF BuildCurr, BuildComp
  <2>. QED BY <1>2, <2>1
<1>7. CASE SearchCurr(t)
  <2>. DEFINE best == FuzzySearch(curr_findex, m.id, Threshold)
  <2>1. LoopFrame /\ UNCHANGED jj /\ mergepc[t] = "search_curr" BY <1>7 DEF SearchCurr
  <2>2. CASE args.compendiums = <<>>
    <3>1. Finish(t, jj[t], Answer(best)) BY <1>7, <2>2 DEF SearchCurr
    <3>2. SearchAlone(jj[t]) = Answer(best) BY <1>7, <2>2, CurrAlone
    <3>. QED BY <1>3, <2>1, <3>1, <3>2
  <2>3. CASE args.compendiums # <<>>
    <3>1. mergepc' = [mergepc EXCEPT ![t] = "check_comp"] /\ UNCHANGED search_results
      BY <1>7, <2>3 DEF SearchCurr
    <3>2. "check_comp" # "idle" OBVIOUS
    <3>. QED BY <1>2, <2>1, <3>1, <3>2
  <2>. QED BY <2>2, <2>3
<1>8. CASE SearchComp(t)
  <2>1. LoopFrame /\ UNCHANGED jj /\ mergepc[t] = "search_comp" BY <1>8 DEF SearchComp
  <2>2. Finish(t, jj[t], SearchAlone(jj[t])) BY <1>8, CompAlone
  <2>. QED BY <1>3, <2>1, <2>2
<1>. QED BY <1>1, <1>4, <1>5, <1>6, <1>7, <1>8 DEF Thread

(* The merging loop and the postprocessing.                                 *)
LEMMA SearchDone ==
  ASSUME MergeInv, KeepInv, phase = "search", next > Len(search_results),
         \A t \in MergeThreads : mergepc[t] = "idle"
  PROVE  /\ Len(refmlp) \in Nat /\ Len(search_results) = Len(refmlp)
         /\ \A j \in 1..Len(refmlp) : search_results[j] = SearchAlone(j)
<1>1. /\ Len(refmlp) \in Nat /\ Len(search_results) = Len(refmlp)
      /\ next \in 1..(Len(refmlp) + 1)
  BY DEF MergeInv, ListsInv
<1>2. next = Len(refmlp) + 1 BY <1>1
<1>3. \A j \in 1..Len(refmlp) : j \in 1..(next - 1) BY <1>1, <1>2
<1>. QED BY <1>1, <1>3 DEF KeepInv, PassInv

LEMMA ListsOfPass ==
  ASSUME MergeInv, KeepInv, phase = "search"
  PROVE  /\ Len(lists) \in Nat /\ Len(lists) >= 1 /\ lists[1] = DefList(pass)
         /\ \A l \in 1..Len(lists) : ListRead(lists[l]) /\ Len(lists[l]) \in Nat
         /\ ListRead(refmlp) /\ pass \in 1..Len(Passes) /\ refmlp = RefList(pass)
<1>1. /\ pass \in 1..Len(Passes) /\ refmlp = RefList(pass)
      /\ lists = <<DefList(pass)>> \o args.compendiums
      /\ args \in Inputs /\ IsCatalog(def) /\ def # <<>>
  BY DEF MergeInv, KeepInv, PassInv, FilesInv
<1>2. PICK p \in 1..Len(Passes) : p = pass BY <1>1
<1>3. PICK ll : ll = <<DefList(p)>> \o args.compendiums OBVIOUS
<1>4. /\ ListRead(RefList(p)) /\ Len(ll) \in Nat /\ Len(ll) >= 1 /\ ll[1] = DefList(p)
      /\ \A l \in 1..Len(ll) : ListRead(ll[l])
  BY <1>1, <1>3, ListsRead
<1>5. \A l \in 1..Len(ll) : Len(ll[l]) \in Nat BY <1>4, ListFacts
<1>6. lists = ll BY <1>1, <1>2, <1>3
<1>. QED BY <1>1, <1>2, <1>4, <1>5, <1>6

(* What the loop makes of message j of the reference, of which d is what    *)
(* was found.                                                               *)
Definition(j) == lists[search_results[j].found[1]][search_results[j].found[2]]

LEMMA MergedOne ==
  ASSUME MergeInv, KeepInv, phase = "search", NEW j \in 1..Len(refmlp),
         search_results[j] = SearchAlone(j),
         search_results[j].found # None \/ ~is_header(refmlp[j])
  PROVE  /\ IsRead(Merged(j).msg) /\ Merged(j).msg.id = refmlp[j].id
         /\ is_header(Merged(j).msg) => Merged(j).problem = 0
         /\ search_results[j].found # None =>
              /\ At(lists, search_results[j].found)
              /\ Translated(Definition(j)) => SameText(Definition(j), Merged(j).msg)
<1>. DEFINE r == refmlp[j]
            res == search_results[j]
            d == lists[res.found[1]][res.found[2]]
<1>1. /\ Len(lists) \in Nat /\ Len(lists) >= 1
      /\ \A l \in 1..Len(lists) : ListRead(lists[l]) /\ Len(lists[l]) \in Nat
      /\ ListRead(refmlp)
  BY ListsOfPass
<1>2. args \in Inputs BY DEF MergeInv
<1>3. IsRead(r) BY <1>1, ListFacts
<1>4. CASE res.found # None
  <2>1. /\ At(lists, res.found)
        /\ d.id = r.id \/ ~is_header(r)
    BY <1>1, <1>4, AloneFound
  <2>2. IsRead(d)
    <3>1. res.found[1] \in 1..Len(lists) /\ res.found[2] \in 1..Len(lists[res.found[1]])
      BY <2>1 DEF At
    <3>. QED BY <1>1, <3>1, ListFacts
  <2>3. is_header(r) => is_header(d) BY <2>1 DEF is_header
  <2>4. PICK m : m = message_merge(d, r, res.fuzzy) OBVIOUS
  <2>5. IsRead(m) /\ m.id = r.id /\ m.pos = d.pos /\ (Translated(d) => m.str[1] = d.str[1])
    BY <1>2, <1>3, <2>2, <2>3, <2>4, MergedRead
  <2>6. Merged(j) = [msg |-> m, problem |-> Problem(d, r)] BY <1>4, <2>4 DEF Merged
  <2>7. Merged(j).msg = m /\ Merged(j).problem = Problem(d, r) BY <2>6
  <2>8. is_header(m) => Problem(d, r) = 0
    <3>. SUFFICES ASSUME is_header(m) PROVE Problem(d, r) = 0
      OBVIOUS
    <3>1. is_header(r) /\ is_header(d) BY <2>3, <2>5 DEF is_header
    <3>2. r.plural = NoPlural /\ d.plural = NoPlural BY <1>3, <2>2, <3>1 DEF IsRead
    <3>. QED BY <3>2 DEF Problem
  <2>9. Translated(d) => SameText(d, m) BY <2>5 DEF SameText
  <2>10. d = Definition(j) BY DEF Definition
  <2>. HIDE DEF d, res, r
  <2>11. IsRead(Merged(j).msg) /\ Merged(j).msg.id = r.id BY <2>5, <2>7
  <2>12. is_header(Merged(j).msg) => Merged(j).problem = 0 BY <2>7, <2>8
  <2>13. Translated(Definition(j)) => SameText(Definition(j), Merged(j).msg)
    BY <2>7, <2>9, <2>10
  <2>. QED BY <2>1, <2>11, <2>12, <2>13 DEF res, r
<1>5. CASE res.found = None
  <2>1. ~is_header(r) BY <1>5
  <2>2. PICK n : n = get_plural_count(lists[1]) OBVIOUS
  <2>3. n \in Nat \ {0}
    <3>1. ListRead(lists[1]) BY <1>1
    <3>. QED BY <2>2, <3>1, PluralCount
  <2>4. PICK m : m = Missing(r, n) OBVIOUS
  <2>5. IsRead(m) /\ m.id = r.id BY <1>3, <2>1, <2>3, <2>4, MissingRead
  <2>6. Merged(j) = [msg |-> m, problem |-> 0] BY <1>5, <2>2, <2>4 DEF Merged
  <2>7. Merged(j).msg = m /\ Merged(j).problem = 0 BY <2>6
  <2>. QED BY <1>5, <2>5, <2>7
<1>. QED BY <1>4, <1>5

LEMMA PostRead ==
  ASSUME NEW l, IsSeq(l),
         \A i \in 1..Len(l) : IsRead(l[i].msg) /\ (is_header(l[i].msg) => l[i].problem = 0)
  PROVE  /\ ListRead(Postprocessed(l)) /\ Len(Postprocessed(l)) = Len(l)
         /\ \A i \in 1..Len(l) : /\ SameText(l[i].msg, Postprocessed(l)[i])
                                 /\ Postprocessed(l)[i].id = l[i].msg.id
<1>1. Len(l) \in Nat BY SeqFacts
<1>2. PICK n : n = get_plural_count([i \in 1..Len(l) |-> l[i].msg]) OBVIOUS
<1>3. n \in Nat \ {0}
  <2>1. PICK t : t = [i \in 1..Len(l) |-> l[i].msg] OBVIOUS
  <2>2. t = [i \in 1..Len(l) |-> t[i]] /\ \A i \in 1..Len(l) : IsRead(t[i]) BY <2>1
  <2>3. ListRead(t) BY <1>1, <2>2, ListMade
  <2>. QED BY <1>2, <2>1, <2>3, PluralCount
<1>4. PICK new : new = Postprocessed(l) OBVIOUS
<1>5. new = [i \in 1..Len(l) |-> DropPrev(Repaired(l[i], n))] BY <1>2, <1>4 DEF Postprocessed
<1>6. ASSUME NEW i \in 1..Len(l)
      PROVE  IsRead(new[i]) /\ SameText(l[i].msg, new[i]) /\ new[i].id = l[i].msg.id
  <2>1. PICK x : x = l[i] OBVIOUS
  <2>2. IsRead(x.msg) /\ (is_header(x.msg) => x.problem = 0) BY <2>1
  <2>3. PICK o : o = Repaired(x, n) OBVIOUS
  <2>4. IsRead(o) /\ o.id = x.msg.id /\ SameText(x.msg, o) BY <1>3, <2>2, <2>3, RepairedRead
  <2>5. IsRead(DropPrev(o)) /\ DropPrev(o).id = o.id /\ SameText(o, DropPrev(o))
    BY <2>4, PrevDropped
  <2>6. new[i] = DropPrev(o) BY <1>5, <2>1, <2>3
  <2>. QED BY <2>1, <2>4, <2>5, <2>6 DEF SameText
<1>7. new = [i \in 1..Len(l) |-> new[i]] BY <1>5
<1>8. ListRead(new) /\ Len(new) = Len(l) BY <1>1, <1>6, <1>7, ListMade
<1>. QED BY <1>4, <1>6, <1>8

LEMMA ResultExtends ==
  ASSUME FilesInv, NEW d, NEW l, ListRead(l), result' = AppendTo(result, d, l),
         UNCHANGED <<file, def>>
  PROVE  /\ FilesInv'
         /\ Extended(result', result, d, l)
         /\ \A m : KeptIn(result, m) => KeptIn(result', m)
<1>1. IsCatalog(result) BY DEF FilesInv
<1>2. PICK new : new = AppendTo(result, d, l) OBVIOUS
<1>3. Extended(new, result, d, l) BY <1>1, <1>2, AppendedTo
<1>4. \A m : KeptIn(result, m) => KeptIn(new, m) BY <1>1, <1>3, StillKept
<1>5. result' = new BY <1>2
<1>6. IsCatalog(new) BY <1>3 DEF Extended
<1>7. FilesInv' BY <1>5, <1>6 DEF FilesInv
<1>. QED BY <1>3, <1>4, <1>5, <1>7

LEMMA UsedKept ==
  ASSUME UsedInv, UNCHANGED <<def, used>>, \A m : KeptIn(result, m) => KeptIn(result', m)
  PROVE  UsedInv'
BY DEF UsedInv

LEMMA SetCurrentListKeeps ==
  ASSUME MergeInv, KeepInv, SetCurrentList
  PROVE  KeepInv'
<1>1. FilesInv /\ UsedInv BY DEF KeepInv
<1>2. /\ phase' = "search" /\ pass' = pass + 1 /\ next' = 1 /\ pass < Len(Passes)
      /\ result' = AppendTo(result, Passes[pass + 1].domain, <<>>)
      /\ refmlp' = RefList(pass + 1)
      /\ lists' = <<DefList(pass + 1)>> \o args.compendiums
      /\ UNCHANGED <<args, file, def, used>>
  BY DEF SetCurrentList, data
<1>3. ListRead(<<>>)
  <2>1. IsSeq(<<>>) /\ Len(<<>>) = 0 BY Empty
  <2>. QED BY <2>1, Listed, SeqFacts DEF ListRead
<1>4. FilesInv' /\ \A m : KeptIn(result, m) => KeptIn(result', m)
  BY <1>1, <1>2, <1>3, ResultExtends
<1>5. UsedInv' BY <1>1, <1>2, <1>4, UsedKept
<1>6. PassInv'
  <2>1. Passes' = Passes /\ \A p : DefList(p)' = DefList(p) /\ RefList(p)' = RefList(p)
    BY <1>2, PassesKept
  <2>2. pass \in Nat /\ Len(Passes) \in Nat
    BY <1>1, PassFacts DEF MergeInv, FilesInv
  <2>3. pass + 1 \in 1..Len(Passes) BY <1>2, <2>2
  <2>. QED BY <1>2, <2>1, <2>3 DEF PassInv
<1>7. ObsoleteInv' BY <1>2 DEF ObsoleteInv
<1>. QED BY <1>4, <1>5, <1>6, <1>7 DEF KeepInv

(* What a pass adds to the result.                                          *)
MadeBy(f, e, l) ==
  /\ IsSeq(e) /\ f \in [1..Len(e) -> 1..Len(refmlp)]
  /\ \A k \in 1..Len(e) : /\ e[k] = Merged(f[k])
                          /\ search_results[f[k]].found # None \/ ~is_header(refmlp[f[k]])
  /\ \A k, n \in 1..Len(e) : f[k] = f[n] => k = n
  /\ \A j \in 1..Len(refmlp) :
       search_results[j].found # None => \E k \in 1..Len(e) : f[k] = j
  /\ l = Postprocessed(e) /\ ListRead(l) /\ Len(l) = Len(e)
  /\ \A k \in 1..Len(e) : l[k].id = e[k].msg.id /\ SameText(e[k].msg, l[k])
  /\ result' = AppendTo(result, Passes[pass].domain, l)

LEMMA PassMade ==
  ASSUME MergeInv, KeepInv, MergePass
  PROVE  \E f, e, l : MadeBy(f, e, l)
<1>1. /\ phase = "search" /\ next > Len(search_results)
      /\ \A t \in MergeThreads : mergepc[t] = "idle"
      /\ result' = AppendTo(result, Passes[pass].domain,
                     Postprocessed(ElementsAt([j \in 1..Len(search_results) |-> Merged(j)], Appended)))
  BY DEF MergePass
<1>2. /\ Len(refmlp) \in Nat /\ Len(search_results) = Len(refmlp)
      /\ \A j \in 1..Len(refmlp) : search_results[j] = SearchAlone(j)
  BY <1>1, SearchDone
<1>3. PICK s : s = [j \in 1..Len(search_results) |-> Merged(j)] OBVIOUS
<1>4. IsSeq(s) /\ Len(s) = Len(refmlp) /\ \A j \in 1..Len(refmlp) : s[j] = Merged(j)
  <2>1. s = [j \in 1..Len(refmlp) |-> s[j]] /\ \A j \in 1..Len(refmlp) : s[j] = Merged(j)
    BY <1>2, <1>3
  <2>. QED BY <1>2, <2>1, SeqMade
<1>5. PICK I : I = Appended OBVIOUS
<1>6. /\ I \in SUBSET (1..Len(s))
      /\ \A j \in I : search_results[j].found # None \/ ~is_header(refmlp[j])
      /\ \A j \in 1..Len(s) : search_results[j].found # None => j \in I
  BY <1>2, <1>4, <1>5 DEF Appended
<1>7. PICK e : e = ElementsAt(s, I) OBVIOUS
<1>8. PICK f : Chooses(f, e, s, I) BY <1>4, <1>6, <1>7, Chosen
<1>9. /\ IsSeq(e) /\ f \in [1..Len(e) -> I] /\ \A k \in 1..Len(e) : e[k] = s[f[k]]
      /\ \A k, n \in 1..Len(e) : f[k] = f[n] => k = n
      /\ \A i \in I : \E k \in 1..Len(e) : f[k] = i
  BY <1>8 DEF Chooses
<1>10. ASSUME NEW k \in 1..Len(e)
       PROVE  /\ f[k] \in 1..Len(refmlp) /\ e[k] = Merged(f[k])
              /\ search_results[f[k]].found # None \/ ~is_header(refmlp[f[k]])
              /\ IsRead(e[k].msg) /\ (is_header(e[k].msg) => e[k].problem = 0)
  <2>1. PICK j \in I : j = f[k] BY <1>9
  <2>2. j \in 1..Len(refmlp) /\ e[k] = Merged(j) BY <1>4, <1>6, <1>9, <2>1
  <2>3. search_results[j].found # None \/ ~is_header(refmlp[j]) BY <1>6
  <2>4. IsRead(Merged(j).msg) /\ (is_header(Merged(j).msg) => Merged(j).problem = 0)
    BY <1>1, <1>2, <2>2, <2>3, MergedOne
  <2>. QED BY <2>1, <2>2, <2>3, <2>4
<1>11. PICK l : l = Postprocessed(e) OBVIOUS
<1>12. /\ ListRead(l) /\ Len(l) = Len(e)
       /\ \A k \in 1..Len(e) : l[k].id = e[k].msg.id /\ SameText(e[k].msg, l[k])
  BY <1>9, <1>10, <1>11, PostRead
<1>13. result' = AppendTo(result, Passes[pass].domain, l)
  BY <1>1, <1>3, <1>5, <1>7, <1>11
<1>14. f \in [1..Len(e) -> 1..Len(refmlp)] BY <1>9, <1>10
<1>15. MadeBy(f, e, l)
  BY <1>4, <1>6, <1>9, <1>10, <1>11, <1>12, <1>13, <1>14 DEF MadeBy
<1>. QED BY <1>15

LEMMA MergePassKeeps ==
  ASSUME MergeInv, KeepInv, MergePass
  PROVE  KeepInv'
<1>1. /\ phase = "search" /\ next > Len(search_results)
      /\ \A t \in MergeThreads : mergepc[t] = "idle"
      /\ used' = used \cup { <<Passes[pass].def, search_results[j].found[2]>> :
                               j \in { j \in 1..Len(search_results) : search_results[j].found[1] = 1 } }
      /\ phase' = "set" /\ UNCHANGED <<args, file, def>>
  BY DEF MergePass, data
<1>2. /\ Len(search_results) = Len(refmlp)
      /\ \A j \in 1..Len(refmlp) : search_results[j] = SearchAlone(j)
  BY <1>1, SearchDone
<1>3. PICK f, e, l : MadeBy(f, e, l) BY PassMade
<1>4. PICK d : d = Passes[pass].domain OBVIOUS
<1>5. /\ result' = AppendTo(result, d, l) /\ ListRead(l) /\ Len(l) = Len(e)
      /\ \A k \in 1..Len(e) : e[k] = Merged(f[k]) /\ SameText(e[k].msg, l[k])
      /\ \A j \in 1..Len(refmlp) :
           search_results[j].found # None => \E k \in 1..Len(e) : f[k] = j
  BY <1>3, <1>4 DEF MadeBy
<1>6. FilesInv /\ UsedInv BY DEF KeepInv
<1>7. /\ FilesInv' /\ Extended(result', result, d, l)
      /\ \A m : KeptIn(result, m) => KeptIn(result', m)
  BY <1>1, <1>5, <1>6, ResultExtends
<1>8. ASSUME NEW j \in 1..Len(refmlp), search_results[j].found # None,
             Translated(Definition(j))
      PROVE  KeptIn(result', Definition(j))
  <2>1. SameText(Definition(j), Merged(j).msg) BY <1>1, <1>2, <1>8, MergedOne
  <2>2. PICK k \in 1..Len(e) : f[k] = j BY <1>5, <1>8
  <2>3. e[k] = Merged(j) /\ SameText(e[k].msg, l[k]) /\ k \in 1..Len(l) BY <1>5, <2>2
  <2>4. PICK m : m = Definition(j) OBVIOUS
  <2>5. SameText(m, l[k]) BY <2>1, <2>3, <2>4 DEF SameText
  <2>6. PICK new : new = result' OBVIOUS
  <2>7. KeptIn(new, m)
    <3>1. IsCatalog(result) /\ Extended(new, result, d, l) BY <1>6, <1>7, <2>6 DEF FilesInv
    <3>. QED BY <1>5, <2>3, <2>5, <3>1, AddedKept
  <2>. QED BY <2>4, <2>6, <2>7
<1>9. UsedInv'
  <2>1. ASSUME NEW n \in 1..Len(def), NEW i \in 1..Len(def[n].messages), <<n, i>> \in used',
               Translated(def[n].messages[i])
        PROVE  KeptIn(result', def[n].messages[i])
    <3>1. CASE <<n, i>> \in used BY <1>6, <1>7, <2>1, <3>1 DEF UsedInv
    <3>2. CASE <<n, i>> \notin used
      <4>1. PICK j \in { j \in 1..Len(search_results) : search_results[j].found[1] = 1 } :
              <<n, i>> = <<Passes[pass].def, search_results[j].found[2]>>
        BY <1>1, <2>1, <3>2
      <4>2. j \in 1..Len(refmlp) /\ search_results[j].found[1] = 1 BY <1>2
      <4>3. n = Passes[pass].def /\ i = search_results[j].found[2] BY <4>1
      <4>4. search_results[j].found # None BY <4>2 DEF None
      <4>5. lists[1] = DefList(pass) BY <1>1, ListsOfPass
      <4>6. DefList(pass) = def[n].messages
        <5>1. n # 0 OBVIOUS
        <5>. QED BY <4>3, <5>1 DEF DefList
      <4>7. Definition(j) = def[n].messages[i] BY <4>2, <4>3, <4>5, <4>6 DEF Definition
      <4>. QED BY <1>8, <2>1, <4>2, <4>4, <4>7
    <3>. QED BY <3>1, <3>2
  <2>2. def' = def BY <1>1
  <2>. QED BY <2>1, <2>2 DEF UsedInv
<1>10. PassInv' /\ ObsoleteInv' BY <1>1 DEF PassInv, ObsoleteInv
<1>. QED BY <1>7, <1>9, <1>10 DEF KeepInv

(* The obsolete messages come last.                                         *)
LEMMA Sorted ==
  ASSUME NEW l, IsSeq(l)
  PROVE  \E g : Chooses(g, SortedByObsolete(l), l, 1..Len(l))
<1>1. Len(l) \in Nat BY SeqFacts
<1>. DEFINE J == (1..Len(l)) \ Obsolete(l)
<1>2. PICK O : O = Obsolete(l) OBVIOUS
<1>3. O \in SUBSET (1..Len(l)) /\ J \in SUBSET (1..Len(l)) /\ J = (1..Len(l)) \ O
  BY <1>2 DEF Obsolete
<1>4. PICK a : a = ElementsAt(l, J) OBVIOUS
<1>5. PICK b : b = ElementsAt(l, O) OBVIOUS
<1>6. PICK s : s = a \o b OBVIOUS
<1>7. s = SortedByObsolete(l) BY <1>2, <1>4, <1>5, <1>6 DEF SortedByObsolete
<1>. HIDE DEF J
<1>8. PICK fa : Chooses(fa, a, l, J) BY <1>3, <1>4, Chosen
<1>9. PICK fb : Chooses(fb, b, l, O) BY <1>3, <1>5, Chosen
<1>10. /\ IsSeq(a) /\ Len(a) \in Nat /\ fa \in [1..Len(a) -> J]
       /\ \A k \in 1..Len(a) : a[k] = l[fa[k]]
       /\ \A k, n \in 1..Len(a) : fa[k] = fa[n] => k = n
       /\ \A i \in J : \E k \in 1..Len(a) : fa[k] = i
  BY <1>8, SeqFacts DEF Chooses
<1>11. /\ IsSeq(b) /\ Len(b) \in Nat /\ fb \in [1..Len(b) -> O]
       /\ \A k \in 1..Len(b) : b[k] = l[fb[k]]
       /\ \A k, n \in 1..Len(b) : fb[k] = fb[n] => k = n
       /\ \A i \in O : \E k \in 1..Len(b) : fb[k] = i
  BY <1>9, SeqFacts DEF Chooses
<1>12. /\ IsSeq(s) /\ Len(s) = Len(a) + Len(b)
       /\ \A i \in 1..Len(a) : s[i] = a[i]
       /\ \A i \in 1..Len(b) : s[Len(a) + i] = b[i]
  BY <1>6, <1>10, <1>11, Joined
<1>. DEFINE g == [k \in 1..Len(s) |-> IF k <= Len(a) THEN fa[k] ELSE fb[k - Len(a)]]
<1>13. \A k \in 1..Len(a) : k \in 1..Len(s) /\ g[k] = fa[k] BY <1>10, <1>11, <1>12
<1>14. ASSUME NEW k \in 1..Len(b) PROVE Len(a) + k \in 1..Len(s) /\ g[Len(a) + k] = fb[k]
  <2>1. Len(a) + k \in 1..Len(s) /\ ~(Len(a) + k <= Len(a)) /\ (Len(a) + k) - Len(a) = k
    BY <1>10, <1>11, <1>12
  <2>. QED BY <2>1
<1>15. ASSUME NEW k \in 1..Len(s), k \notin 1..Len(a)
       PROVE  \E n \in 1..Len(b) : k = Len(a) + n
  <2>1. k - Len(a) \in 1..Len(b) /\ k = Len(a) + (k - Len(a)) BY <1>10, <1>11, <1>12, <1>15
  <2>. QED BY <2>1
<1>16. DOMAIN g = 1..Len(s) /\ g = [k \in 1..Len(s) |-> g[k]] OBVIOUS
<1>. HIDE DEF g
<1>17. \A k \in 1..Len(s) : g[k] \in 1..Len(l) /\ s[k] = l[g[k]]
  <2>1. ASSUME NEW k \in 1..Len(a) PROVE g[k] \in 1..Len(l) /\ s[k] = l[g[k]]
    BY <1>3, <1>10, <1>12, <1>13
  <2>2. ASSUME NEW k \in 1..Len(s), k \notin 1..Len(a) PROVE g[k] \in 1..Len(l) /\ s[k] = l[g[k]]
    <3>1. PICK n \in 1..Len(b) : k = Len(a) + n BY <1>15, <2>2
    <3>2. g[k] = fb[n] /\ s[k] = b[n] BY <1>12, <1>14, <3>1
    <3>. QED BY <1>3, <1>11, <3>2
  <2>. QED BY <2>1, <2>2
<1>18. ASSUME NEW k \in 1..Len(s), NEW m \in 1..Len(s), g[k] = g[m] PROVE k = m
  <2>1. ASSUME NEW x \in 1..Len(s), x \notin 1..Len(a) PROVE \E n \in 1..Len(b) : x = Len(a) + n /\ g[x] = fb[n]
    BY <1>14, <1>15, <2>1
  <2>2. CASE k \in 1..Len(a)
    <3>1. g[k] \in J BY <1>10, <1>13, <2>2
    <3>2. CASE m \in 1..Len(a) BY <1>10, <1>13, <1>18, <2>2, <3>2
    <3>3. CASE m \notin 1..Len(a)
      <4>1. g[m] \in O BY <1>11, <2>1, <3>3
      <4>. QED BY <1>3, <1>18, <3>1, <4>1
    <3>. QED BY <3>2, <3>3
  <2>3. CASE k \notin 1..Len(a)
    <3>1. PICK n \in 1..Len(b) : k = Len(a) + n /\ g[k] = fb[n] BY <2>1, <2>3
    <3>2. CASE m \in 1..Len(a)
      <4>1. g[m] \in J /\ g[k] \in O BY <1>10, <1>11, <1>13, <3>1, <3>2
      <4>. QED BY <1>3, <1>18, <4>1
    <3>3. CASE m \notin 1..Len(a)
      <4>1. PICK p \in 1..Len(b) : m = Len(a) + p /\ g[m] = fb[p] BY <2>1, <3>3
      <4>. QED BY <1>11, <1>18, <3>1, <4>1
    <3>. QED BY <3>2, <3>3
  <2>. QED BY <2>2, <2>3
<1>19. ASSUME NEW i \in 1..Len(l) PROVE \E k \in 1..Len(s) : g[k] = i
  <2>1. CASE i \in O
    <3>1. PICK k \in 1..Len(b) : fb[k] = i BY <1>11, <2>1
    <3>. QED BY <1>14, <3>1
  <2>2. CASE i \notin O
    <3>1. i \in J BY <1>3, <2>2
    <3>2. PICK k \in 1..Len(a) : fa[k] = i BY <1>10, <3>1
    <3>. QED BY <1>13, <3>2
  <2>. QED BY <2>1, <2>2
<1>20. g \in [1..Len(s) -> 1..Len(l)] BY <1>16, <1>17
<1>21. Chooses(g, s, l, 1..Len(l)) BY <1>12, <1>17, <1>18, <1>19, <1>20 DEF Chooses
<1>. QED BY <1>7, <1>21

(* What is printed: the live messages, and the obsolete ones with a msgstr. *)
Printable(l) == { i \in 1..Len(l) : l[i].obsolete => Translated(l[i]) }
PrintedAs(m) == IF m.obsolete THEN message_print_obsolete(m) ELSE message_print(m)

Prints(h, p, l) ==
  /\ IsSeq(p)
  /\ h \in [1..Len(p) -> Printable(l)]
  /\ \A k \in 1..Len(p) : p[k] = PrintedAs(l[h[k]])
  /\ \A k, n \in 1..Len(p) : h[k] = h[n] => k = n
  /\ \A i \in Printable(l) : \E k \in 1..Len(p) : h[k] = i

LEMMA PrintedMessages ==
  ASSUME NEW l, IsSeq(l)
  PROVE  \E h : Prints(h, Printed(l), l)
<1>1. Len(l) \in Nat BY SeqFacts
<1>2. PICK s : s = SortedByObsolete(l) OBVIOUS
<1>3. PICK g : Chooses(g, s, l, 1..Len(l)) BY <1>2, Sorted
<1>4. /\ IsSeq(s) /\ Len(s) \in Nat /\ g \in [1..Len(s) -> 1..Len(l)]
      /\ \A k \in 1..Len(s) : s[k] = l[g[k]]
      /\ \A k, n \in 1..Len(s) : g[k] = g[n] => k = n
      /\ \A i \in 1..Len(l) : \E k \in 1..Len(s) : g[k] = i
  BY <1>3, SeqFacts DEF Chooses
<1>5. PICK J : J = Printable(s) OBVIOUS
<1>6. J \in SUBSET (1..Len(s)) BY <1>5 DEF Printable
<1>7. PICK w : w = ElementsAt(s, J) OBVIOUS
<1>8. PICK f : Chooses(f, w, s, J) BY <1>4, <1>6, <1>7, Chosen
<1>9. /\ IsSeq(w) /\ Len(w) \in Nat /\ f \in [1..Len(w) -> J]
      /\ \A k \in 1..Len(w) : w[k] = s[f[k]]
      /\ \A k, n \in 1..Len(w) : f[k] = f[n] => k = n
      /\ \A i \in J : \E k \in 1..Len(w) : f[k] = i
  BY <1>8, SeqFacts DEF Chooses
<1>10. PICK p : p = Printed(l) OBVIOUS
<1>11. p = [i \in 1..Len(w) |-> PrintedAs(w[i])]
  BY <1>2, <1>5, <1>7, <1>10 DEF Printed, Printable, PrintedAs
<1>12. /\ p = [i \in 1..Len(w) |-> p[i]] /\ \A i \in 1..Len(w) : p[i] = PrintedAs(w[i])
  BY <1>11
<1>13. IsSeq(p) /\ Len(p) = Len(w) BY <1>9, <1>12, SeqMade
<1>. DEFINE h == [k \in 1..Len(p) |-> g[f[k]]]
<1>14. \A k \in 1..Len(p) : h[k] = g[f[k]] /\ f[k] \in 1..Len(s) BY <1>6, <1>9, <1>13
<1>15. DOMAIN h = 1..Len(p) /\ h = [k \in 1..Len(p) |-> h[k]] OBVIOUS
<1>. HIDE DEF h
<1>16. ASSUME NEW k \in 1..Len(p)
       PROVE  h[k] \in Printable(l) /\ p[k] = PrintedAs(l[h[k]])
  <2>1. w[k] = s[f[k]] /\ f[k] \in J /\ p[k] = PrintedAs(w[k]) BY <1>9, <1>12, <1>13
  <2>2. s[f[k]] = l[h[k]] /\ h[k] \in 1..Len(l) BY <1>4, <1>14
  <2>3. s[f[k]].obsolete => Translated(s[f[k]]) BY <1>5, <2>1 DEF Printable
  <2>. QED BY <2>1, <2>2, <2>3 DEF Printable
<1>17. \A k, n \in 1..Len(p) : h[k] = h[n] => k = n BY <1>4, <1>9, <1>13, <1>14
<1>18. ASSUME NEW i \in Printable(l) PROVE \E k \in 1..Len(p) : h[k] = i
  <2>1. i \in 1..Len(l) /\ (l[i].obsolete => Translated(l[i])) BY DEF Printable
  <2>2. PICK n \in 1..Len(s) : g[n] = i BY <1>4, <2>1
  <2>3. n \in J
    <3>1. s[n] = l[i] BY <1>4, <2>2
    <3>. QED BY <1>5, <2>1, <3>1 DEF Printable
  <2>4. PICK k \in 1..Len(w) : f[k] = n BY <1>9, <2>3
  <2>. QED BY <1>13, <1>14, <2>2, <2>4
<1>19. h \in [1..Len(p) -> Printable(l)] BY <1>15, <1>16
<1>20. Prints(h, p, l) BY <1>13, <1>16, <1>17, <1>18, <1>19 DEF Prints
<1>. QED BY <1>10, <1>20

LEMMA MessagePrinted ==
  ASSUME NEW m, IsRead(m)
  PROVE  /\ IsRead(PrintedAs(m)) /\ SameText(m, PrintedAs(m))
         /\ PrintedAs(m).id = m.id /\ PrintedAs(m).str = m.str
         /\ PrintedAs(m).plural = m.plural /\ PrintedAs(m).hdr = m.hdr
         /\ PrintedAs(m).obsolete = m.obsolete
         /\ ~m.obsolete => /\ PrintedAs(m).fuzzy = (m.fuzzy /\ Translated(m))
                           /\ PrintedAs(m).format = m.format
                           /\ PrintedAs(m).range = m.range
<1>1. DOMAIN m = MessageFields BY DEF IsRead
<1>2. PICK o : o = PrintedAs(m) OBVIOUS
<1>3. CASE m.obsolete
  <2>1. o = [m EXCEPT !.format = FALSE, !.range = NoRange]
    BY <1>2, <1>3 DEF PrintedAs, message_print_obsolete
  <2>2. /\ DOMAIN o = MessageFields /\ o.str = m.str /\ o.id = m.id /\ o.hdr = m.hdr
        /\ o.range = NoRange /\ o.pos = m.pos /\ o.plural = m.plural /\ o.obsolete = m.obsolete
    BY <1>1, <2>1 DEF MessageFields
  <2>3. IsRead(o) BY <2>2, FieldChanged
  <2>. QED BY <1>2, <1>3, <2>2, <2>3 DEF SameText
<1>4. CASE ~m.obsolete
  <2>0. PICK b : b = (m.fuzzy /\ Translated(m)) OBVIOUS
  <2>1. o = [m EXCEPT !.fuzzy = b]
    BY <1>2, <1>4, <2>0, Zenon DEF PrintedAs, message_print
  <2>2. /\ DOMAIN o = MessageFields /\ o.str = m.str /\ o.id = m.id /\ o.hdr = m.hdr
        /\ o.range = m.range /\ o.pos = m.pos /\ o.plural = m.plural /\ o.obsolete = m.obsolete
        /\ o.fuzzy = b /\ o.format = m.format
    BY <1>1, <2>1 DEF MessageFields
  <2>3. IsRead(o) BY <2>2, FieldChanged
  <2>. QED BY <1>2, <1>4, <2>0, <2>2, <2>3 DEF SameText
<1>. QED BY <1>3, <1>4

LEMMA PrintedRead ==
  ASSUME NEW l, ListRead(l)
  PROVE  /\ ListRead(Printed(l)) /\ Len(Printed(l)) \in Nat
         /\ \A n \in 1..Len(l) : Translated(l[n]) =>
              \E k \in 1..Len(Printed(l)) : SameText(l[n], Printed(l)[k])
<1>1. IsSeq(l) /\ \A i \in 1..Len(l) : IsRead(l[i]) BY ListFacts
<1>2. PICK p : p = Printed(l) OBVIOUS
<1>3. PICK h : Prints(h, p, l) BY <1>1, <1>2, PrintedMessages
<1>4. /\ IsSeq(p) /\ h \in [1..Len(p) -> Printable(l)]
      /\ \A k \in 1..Len(p) : p[k] = PrintedAs(l[h[k]])
      /\ \A i \in Printable(l) : \E k \in 1..Len(p) : h[k] = i
  BY <1>3 DEF Prints
<1>5. Printable(l) \subseteq 1..Len(l) BY DEF Printable
<1>6. \A k \in 1..Len(p) : IsRead(p[k]) /\ SameText(l[h[k]], p[k])
  BY <1>1, <1>4, <1>5, MessagePrinted
<1>7. Len(p) \in Nat /\ DOMAIN p = 1..Len(p) BY <1>4, SeqFacts
<1>8. ListRead(p) BY <1>4, <1>6, <1>7, Listed DEF ListRead
<1>9. ASSUME NEW n \in 1..Len(l), Translated(l[n])
      PROVE  \E k \in 1..Len(p) : SameText(l[n], p[k])
  <2>1. n \in Printable(l) BY <1>9 DEF Printable
  <2>2. PICK k \in 1..Len(p) : h[k] = n BY <1>4, <2>1
  <2>. QED BY <1>6, <2>2
<1>. QED BY <1>2, <1>7, <1>8, <1>9

LEMMA NoMessages == ListRead(<<>>)
<1>1. IsSeq(<<>>) /\ Len(<<>>) = 0 BY Empty
<1>. QED BY <1>1, Listed, SeqFacts DEF ListRead

(* What the reader makes of a file.                                         *)
Positioned(l, d) == [i \in 1..Len(l) |-> [l[i] EXCEPT !.pos = <<"def", d, i>>]]

LEMMA PositionedRead ==
  ASSUME NEW l, ListRead(l), NEW d
  PROVE  ListRead(Positioned(l, d))
<1>1. Len(l) \in Nat /\ \A i \in 1..Len(l) : IsRead(l[i]) BY ListFacts
<1>2. PICK p : p = Positioned(l, d) OBVIOUS
<1>3. /\ p = [i \in 1..Len(l) |-> p[i]]
      /\ \A i \in 1..Len(l) : p[i] = [l[i] EXCEPT !.pos = <<"def", d, i>>]
  BY <1>2 DEF Positioned
<1>4. ASSUME NEW i \in 1..Len(l) PROVE IsRead(p[i])
  <2>1. PICK m : m = l[i] OBVIOUS
  <2>2. PICK x : x = <<"def", d, i>> OBVIOUS
  <2>3. PICK o : o = [m EXCEPT !.pos = x] OBVIOUS
  <2>4. IsRead(m) /\ DOMAIN m = MessageFields BY <1>1, <2>1 DEF IsRead
  <2>5. /\ DOMAIN o = MessageFields /\ o.str = m.str /\ o.id = m.id /\ o.hdr = m.hdr
        /\ o.range = m.range /\ o.plural = m.plural
    BY <2>3, <2>4 DEF MessageFields
  <2>6. IsRead(o) BY <2>4, <2>5, FieldChanged
  <2>. QED BY <1>3, <2>1, <2>2, <2>3, <2>6
<1>. QED BY <1>1, <1>2, <1>3, <1>4, ListMade

LEMMA CatalogRead ==
  ASSUME NEW f, IsCatalog(f)
  PROVE  IsCatalog(ReadCatalog(f)) /\ ReadCatalog(f) # <<>>
<1>. DEFINE k == DomainIndex(f, DefaultDomain)
            default == [domain |-> DefaultDomain,
                        messages |-> IF k = 0 THEN <<>> ELSE f[k].messages]
            I == { n \in 1..Len(f) : f[n].domain # DefaultDomain /\ f[n].messages # <<>> }
            mdl == <<default>> \o ElementsAt(f, I)
<1>1. /\ IsSeq(f) /\ Len(f) \in Nat
      /\ \A d \in 1..Len(f) : DOMAIN f[d] = {"domain", "messages"} /\ ListRead(f[d].messages)
      /\ \A d, e \in 1..Len(f) : f[d].domain = f[e].domain => d = e
  BY Catalogs
<1>2. ReadCatalog(f) = [d \in 1..Len(mdl) |->
                          [mdl[d] EXCEPT !.messages = Positioned(@, d)]]
  BY Zenon DEF ReadCatalog, Positioned
<1>3. Found(k, Len(f), { i \in 1..Len(f) : f[i].domain = DefaultDomain }) BY <1>1, DomainFound
<1>4. PICK a : a = default OBVIOUS
<1>5. DOMAIN a = {"domain", "messages"} /\ a.domain = DefaultDomain /\ ListRead(a.messages)
  <2>1. a.messages = IF k = 0 THEN <<>> ELSE f[k].messages BY <1>4
  <2>2. k # 0 => k \in 1..Len(f) BY <1>1, <1>3 DEF Found
  <2>3. DOMAIN a = {"domain", "messages"} /\ a.domain = DefaultDomain BY <1>4
  <2>. HIDE DEF k
  <2>. QED BY <1>1, <2>1, <2>2, <2>3, NoMessages
<1>6. I \in SUBSET (1..Len(f)) /\ \A n \in I : f[n].domain # DefaultDomain OBVIOUS
<1>. HIDE DEF I
<1>7. PICK e : e = ElementsAt(f, I) OBVIOUS
<1>8. PICK g : Chooses(g, e, f, I) BY <1>1, <1>6, <1>7, Chosen
<1>9. /\ IsSeq(e) /\ Len(e) \in Nat /\ g \in [1..Len(e) -> I]
      /\ \A n \in 1..Len(e) : e[n] = f[g[n]]
      /\ \A n, m \in 1..Len(e) : g[n] = g[m] => n = m
  BY <1>8, SeqFacts DEF Chooses
<1>10. PICK c : c = <<a>> \o e OBVIOUS
<1>11. c = mdl BY <1>4, <1>7, <1>10
<1>12. IsSeq(<<a>>) /\ Len(<<a>>) = 1 /\ <<a>>[1] = a BY Singleton
<1>13. /\ IsSeq(c) /\ Len(c) = 1 + Len(e)
       /\ \A i \in 1..1 : c[i] = <<a>>[i]
       /\ \A i \in 1..Len(e) : c[1 + i] = e[i]
  BY <1>9, <1>10, <1>12, Joined
<1>14. c[1] = a BY <1>12, <1>13
<1>. HIDE DEF mdl
<1>15. ASSUME NEW n \in 1..Len(c), n # 1
       PROVE  n - 1 \in 1..Len(e) /\ g[n - 1] \in 1..Len(f) /\ c[n] = f[g[n - 1]]
              /\ c[n].domain # DefaultDomain
  <2>1. n - 1 \in 1..Len(e) /\ 1 + (n - 1) = n BY <1>9, <1>13, <1>15
  <2>2. PICK m : m = n - 1 OBVIOUS
  <2>3. m \in 1..Len(e) /\ 1 + m = n BY <2>1, <2>2
  <2>4. c[n] = e[m] BY <1>13, <2>3
  <2>5. g[m] \in I /\ e[m] = f[g[m]] BY <1>9, <2>3
  <2>6. g[m] \in 1..Len(f) /\ f[g[m]].domain # DefaultDomain BY <1>6, <2>5
  <2>. QED BY <2>2, <2>3, <2>4, <2>5, <2>6
<1>16. ASSUME NEW n \in 1..Len(c)
       PROVE  DOMAIN c[n] = {"domain", "messages"} /\ ListRead(c[n].messages)
  <2>1. CASE n = 1 BY <1>5, <1>14, <2>1
  <2>2. CASE n # 1 BY <1>1, <1>15, <2>2
  <2>. QED BY <2>1, <2>2
<1>17. ASSUME NEW n \in 1..Len(c), NEW m \in 1..Len(c), c[n].domain = c[m].domain PROVE n = m
  <2>1. CASE n = 1 /\ m # 1 BY <1>5, <1>14, <1>15, <1>17, <2>1
  <2>2. CASE n # 1 /\ m = 1 BY <1>5, <1>14, <1>15, <1>17, <2>2
  <2>3. CASE n # 1 /\ m # 1
    <3>0. /\ n - 1 \in 1..Len(e) /\ g[n - 1] \in 1..Len(f) /\ c[n] = f[g[n - 1]]
          /\ m - 1 \in 1..Len(e) /\ g[m - 1] \in 1..Len(f) /\ c[m] = f[g[m - 1]]
      BY <1>15, <2>3
    <3>1. g[n - 1] = g[m - 1] BY <1>1, <1>17, <3>0
    <3>2. n - 1 = m - 1 BY <1>9, <3>0, <3>1
    <3>. QED BY <3>2
  <2>. QED BY <2>1, <2>2, <2>3
<1>18. PICK r : r = ReadCatalog(f) OBVIOUS
<1>19. r = [d \in 1..Len(c) |-> [c[d] EXCEPT !.messages = Positioned(@, d)]]
  BY <1>2, <1>11, <1>18
<1>20. Len(c) \in Nat \ {0} BY <1>9, <1>13
<1>21. ASSUME NEW d \in 1..Len(c)
       PROVE  DOMAIN r[d] = {"domain", "messages"} /\ ListRead(r[d].messages)
              /\ r[d].domain = c[d].domain
  <2>1. PICK l : l = Positioned(c[d].messages, d) OBVIOUS
  <2>2. ListRead(l) BY <1>16, <2>1, PositionedRead
  <2>3. r[d] = [c[d] EXCEPT !.messages = l] BY <1>19, <2>1
  <2>. QED BY <1>16, <2>2, <2>3
<1>22. r = [d \in 1..Len(c) |-> r[d]] BY <1>19
<1>23. \A n, m \in 1..Len(c) : r[n].domain = r[m].domain => n = m BY <1>17, <1>21
<1>24. IsCatalog(r) /\ Len(r) = Len(c) BY <1>20, <1>21, <1>22, <1>23, CatalogMade
<1>25. r # <<>> BY <1>20, <1>24
<1>. QED BY <1>18, <1>24, <1>25

(* The new list of domains.                                                 *)
LEMMA NewResult ==
  ASSUME NEW d
  PROVE  IsCatalog(<<[domain |-> d, messages |-> <<>>]>>)
<1>1. PICK a : a = [domain |-> d, messages |-> <<>>] OBVIOUS
<1>2. DOMAIN a = {"domain", "messages"} /\ a.messages = <<>> BY <1>1
<1>3. PICK c : c = <<a>> OBVIOUS
<1>4. c = [i \in 1..1 |-> c[i]] /\ c[1] = a BY <1>3
<1>5. \A i \in 1..1 : DOMAIN c[i] = {"domain", "messages"} /\ ListRead(c[i].messages)
  BY <1>2, <1>4, NoMessages
<1>6. \A n, m \in 1..1 : c[n].domain = c[m].domain => n = m OBVIOUS
<1>7. 1 \in Nat OBVIOUS
<1>8. IsCatalog(c) BY <1>4, <1>5, <1>6, <1>7, CatalogMade
<1>. QED BY <1>1, <1>3, <1>8

LEMMA KeepInitially == MergeInit => KeepInv
<1>. SUFFICES ASSUME MergeInit PROVE KeepInv
  OBVIOUS
<1>1. /\ args \in Inputs /\ file = args.def /\ def = ReadCatalog(file) /\ phase = "set"
      /\ result = <<[domain |-> DefaultDomain, messages |-> <<>>]>> /\ used = {}
  BY DEF MergeInit, MergeStart
<1>2. IsCatalog(file) BY <1>1, InputsAssumption DEF IsFile
<1>3. IsCatalog(def) /\ def # <<>> BY <1>1, <1>2, CatalogRead
<1>4. IsCatalog(result) BY <1>1, NewResult
<1>5. UsedInv BY <1>1 DEF UsedInv
<1>6. PassInv /\ ObsoleteInv BY <1>1 DEF PassInv, ObsoleteInv
<1>. QED BY <1>2, <1>3, <1>4, <1>5, <1>6 DEF KeepInv, FilesInv

LEMMA AgainKeeps ==
  ASSUME KeepInv, Again
  PROVE  KeepInv'
<1>1. /\ def' = ReadCatalog(file) /\ phase' = "set" /\ file' = file
      /\ result' = <<[domain |-> DefaultDomain, messages |-> <<>>]>> /\ used' = {}
  BY DEF Again
<1>2. IsCatalog(file) BY DEF KeepInv, FilesInv
<1>3. IsCatalog(def') /\ def' # <<>>
  <2>1. PICK f : f = file OBVIOUS
  <2>2. PICK c : c = ReadCatalog(f) OBVIOUS
  <2>3. IsCatalog(c) /\ c # <<>> BY <1>2, <2>1, <2>2, CatalogRead
  <2>4. def' = c BY <1>1, <2>1, <2>2
  <2>. QED BY <2>3, <2>4
<1>4. IsCatalog(result')
  <2>1. PICK c : c = <<[domain |-> DefaultDomain, messages |-> <<>>]>> OBVIOUS
  <2>2. IsCatalog(c) BY <2>1, NewResult
  <2>. QED BY <1>1, <2>1, <2>2
<1>5. UsedInv' BY <1>1 DEF UsedInv
<1>6. PassInv' /\ ObsoleteInv' BY <1>1 DEF PassInv, ObsoleteInv
<1>7. FilesInv' BY <1>1, <1>2, <1>3, <1>4 DEF FilesInv
<1>. QED BY <1>5, <1>6, <1>7 DEF KeepInv

(* The steps that leave the result alone.                                   *)
LEMMA DestroyKeeps ==
  ASSUME KeepInv, DestroyDefinitions
  PROVE  KeepInv'
<1>1. /\ phase' = "obsolete" /\ next' = 1
      /\ UNCHANGED <<args, file, def, result, used>>
  BY DEF DestroyDefinitions, data
<1>2. FilesInv' BY <1>1 DEF KeepInv, FilesInv
<1>3. UsedInv'
  <2>1. UsedInv BY DEF KeepInv
  <2>2. \A m : KeptIn(result, m) => KeptIn(result', m) BY <1>1
  <2>. QED BY <1>1, <2>1, <2>2, UsedKept
<1>4. PassInv' BY <1>1 DEF PassInv
<1>5. ObsoleteInv'
  <2>1. Len(def) \in Nat BY Catalogs DEF KeepInv, FilesInv
  <2>2. 1 \in 1..(Len(def) + 1) /\ 1..(1 - 1) = {} BY <2>1
  <2>. QED BY <1>1, <2>2 DEF ObsoleteInv
<1>. QED BY <1>2, <1>3, <1>4, <1>5 DEF KeepInv

LEMMA EndMergeKeeps ==
  ASSUME KeepInv, EndMerge
  PROVE  KeepInv'
<1>1. /\ phase = "obsolete" /\ next > Len(def) /\ phase' = "write"
      /\ UNCHANGED <<args, file, def, result, used>>
  BY DEF EndMerge, data
<1>2. FilesInv' BY <1>1 DEF KeepInv, FilesInv
<1>3. UsedInv'
  <2>1. UsedInv BY DEF KeepInv
  <2>2. \A m : KeptIn(result, m) => KeptIn(result', m) BY <1>1
  <2>. QED BY <1>1, <2>1, <2>2, UsedKept
<1>4. PassInv' BY <1>1 DEF PassInv
<1>5. ObsoleteInv'
  <2>1. Len(def) \in Nat BY Catalogs DEF KeepInv, FilesInv
  <2>2. next \in 1..(Len(def) + 1) /\ \A d \in 1..(next - 1) : DomainKept(d)
    BY <1>1 DEF KeepInv, ObsoleteInv
  <2>3. \A d \in 1..Len(def) : d \in 1..(next - 1) BY <1>1, <2>1, <2>2
  <2>4. \A d \in 1..Len(def) : DomainKept(d) BY <2>2, <2>3
  <2>5. \A d : DomainKept(d)' <=> DomainKept(d) BY <1>1 DEF DomainKept
  <2>. QED BY <1>1, <2>4, <2>5 DEF ObsoleteInv
<1>. QED BY <1>2, <1>3, <1>4, <1>5 DEF KeepInv

LEMMA KeepObsoleteKeeps ==
  ASSUME KeepInv, KeepObsolete
  PROVE  KeepInv'
<1>1. /\ phase = "obsolete" /\ next <= Len(def) /\ next' = next + 1 /\ phase' = phase
      /\ UNCHANGED <<args, file, def, used>>
      /\ result' = IF Unused(next) = <<>> THEN result
                   ELSE AppendTo(result, def[next].domain, Unused(next))
  BY DEF KeepObsolete, data
<1>2. Len(def) \in Nat /\ next \in 1..(Len(def) + 1) /\ IsCatalog(def)
  BY <1>1, Catalogs DEF KeepInv, FilesInv, ObsoleteInv
<1>3. PICK d : d = next OBVIOUS
<1>4. d \in 1..Len(def) BY <1>1, <1>2, <1>3
<1>. DEFINE ms == def[d].messages
            copies == [i \in 1..Len(ms) |-> [message_copy(ms[i]) EXCEPT !.obsolete = TRUE]]
            I == { i \in 1..Len(ms) : <<d, i>> \notin used }
<1>5. PICK u : u = Unused(d) OBVIOUS
<1>6. PICK s : s = copies OBVIOUS
<1>7. u = ElementsAt(s, I) BY <1>5, <1>6 DEF Unused
<1>8. ListRead(ms) /\ Len(ms) \in Nat /\ \A i \in 1..Len(ms) : IsRead(ms[i])
  BY <1>2, <1>4, Catalogs, ListFacts
<1>9. ASSUME NEW i \in 1..Len(ms) PROVE IsRead(s[i]) /\ SameText(ms[i], s[i])
  <2>1. PICK m : m = ms[i] OBVIOUS
  <2>2. PICK c : c = message_copy(m) OBVIOUS
  <2>3. PICK o : o = [c EXCEPT !.obsolete = TRUE] OBVIOUS
  <2>4. s[i] = o BY <1>6, <2>1, <2>2, <2>3
  <2>5. IsRead(m) /\ DOMAIN m = MessageFields BY <1>8, <2>1 DEF IsRead
  <2>6. /\ DOMAIN c = MessageFields /\ c.str = m.str /\ c.id = m.id /\ c.hdr = m.hdr
        /\ c.range = m.range /\ c.plural = m.plural /\ c.pos = m.pos
    BY <2>2, <2>5 DEF message_copy, MessageFields
  <2>7. /\ DOMAIN o = MessageFields /\ o.str = c.str /\ o.id = c.id /\ o.hdr = c.hdr
        /\ o.range = c.range /\ o.plural = c.plural /\ o.pos = c.pos
    BY <2>3, <2>6 DEF MessageFields
  <2>8. IsRead(o)
    <3>1. IsRead(c) BY <2>5, <2>6, FieldChanged
    <3>. QED BY <2>7, <3>1, FieldChanged
  <2>. QED BY <2>1, <2>4, <2>6, <2>7, <2>8 DEF SameText
<1>10. s = [i \in 1..Len(ms) |-> s[i]] BY <1>6
<1>11. ListRead(s) /\ Len(s) = Len(ms) BY <1>8, <1>9, <1>10, ListMade
<1>12. I \in SUBSET (1..Len(s)) BY <1>11
<1>13. ListRead(u) BY <1>7, <1>11, <1>12, ListChosen
<1>14. FilesInv BY DEF KeepInv
<1>15. /\ FilesInv'
       /\ \A m : KeptIn(result, m) => KeptIn(result', m)
       /\ u # <<>> => Extended(result', result, def[d].domain, u)
  <2>1. CASE u = <<>>
    <3>1. result' = result BY <1>1, <1>3, <1>5, <2>1
    <3>2. FilesInv' BY <1>1, <1>14, <3>1 DEF FilesInv
    <3>. QED BY <2>1, <3>1, <3>2
  <2>2. CASE u # <<>>
    <3>1. PICK n : n = def[d].domain OBVIOUS
    <3>2. result' = AppendTo(result, n, u) BY <1>1, <1>3, <1>5, <2>2, <3>1
    <3>3. /\ FilesInv' /\ Extended(result', result, n, u)
          /\ \A m : KeptIn(result, m) => KeptIn(result', m)
      BY <1>1, <1>13, <1>14, <3>2, ResultExtends
    <3>. QED BY <3>1, <3>3
  <2>. QED BY <2>1, <2>2
<1>16. UsedInv'
  <2>1. UsedInv BY DEF KeepInv
  <2>. QED BY <1>1, <1>15, <2>1, UsedKept
<1>17. PassInv' BY <1>1 DEF PassInv
<1>18. ASSUME NEW i \in 1..Len(ms), Translated(ms[i]) PROVE KeptIn(result', ms[i])
  <2>1. CASE i \notin I
    <3>1. <<d, i>> \in used BY <2>1
    <3>2. KeptIn(result, ms[i]) BY <1>4, <1>18, <3>1 DEF KeepInv, UsedInv
    <3>. QED BY <1>15, <3>2
  <2>2. CASE i \in I
    <3>1. IsSeq(s) BY <1>11, ListFacts
    <3>. HIDE DEF I
    <3>2. PICK f : Chooses(f, u, s, I) BY <1>7, <1>12, <3>1, Chosen
    <3>3. PICK k \in 1..Len(u) : f[k] = i BY <2>2, <3>2 DEF Chooses
    <3>4. u[k] = s[i] BY <3>2, <3>3 DEF Chooses
    <3>5. SameText(ms[i], u[k]) BY <1>9, <3>4
    <3>6. u # <<>> BY <3>3
    <3>7. PICK new : new = result' OBVIOUS
    <3>8. PICK m : m = ms[i] OBVIOUS
    <3>9. PICK n : n = def[d].domain OBVIOUS
    <3>10. IsCatalog(result) /\ Extended(new, result, n, u) BY <1>14, <1>15, <3>6, <3>7, <3>9 DEF FilesInv
    <3>11. KeptIn(new, m) BY <1>13, <3>5, <3>8, <3>10, AddedKept
    <3>. QED BY <3>7, <3>8, <3>11
  <2>. QED BY <2>1, <2>2
<1>19. DomainKept(d)' BY <1>1, <1>18 DEF DomainKept
<1>20. ASSUME NEW e \in 1..(next - 1) PROVE DomainKept(e)'
  <2>1. DomainKept(e) BY <1>1 DEF KeepInv, ObsoleteInv
  <2>. QED BY <1>1, <1>15, <2>1 DEF DomainKept
<1>21. ObsoleteInv'
  <2>1. next' \in 1..(Len(def) + 1) BY <1>1, <1>2
  <2>2. \A e \in 1..(next' - 1) : e \in 1..(next - 1) \/ e = d BY <1>1, <1>2, <1>3
  <2>3. \A e \in 1..(next' - 1) : DomainKept(e)' BY <1>19, <1>20, <2>2
  <2>. QED BY <1>1, <2>1, <2>3 DEF ObsoleteInv
<1>. QED BY <1>15, <1>16, <1>17, <1>21 DEF KeepInv

LEMMA WriteKeeps ==
  ASSUME KeepInv, Write
  PROVE  KeepInv'
<1>1. /\ phase = "write" /\ phase' = "done" /\ UNCHANGED <<args, def, result, used>>
      /\ \/ file' = file
         \/ file' = [d \in 1..Len(result) |-> [result[d] EXCEPT !.messages = Printed(@)]]
  BY DEF Write
<1>2. IsCatalog(file')
  <2>1. CASE file' = file BY <2>1 DEF KeepInv, FilesInv
  <2>2. CASE file' = [d \in 1..Len(result) |-> [result[d] EXCEPT !.messages = Printed(@)]]
    <3>1. /\ Len(result) \in Nat
          /\ \A d \in 1..Len(result) : DOMAIN result[d] = {"domain", "messages"}
                                       /\ ListRead(result[d].messages)
          /\ \A d, e \in 1..Len(result) : result[d].domain = result[e].domain => d = e
      BY Catalogs DEF KeepInv, FilesInv
    <3>2. PICK c : c = [d \in 1..Len(result) |-> [result[d] EXCEPT !.messages = Printed(@)]]
      OBVIOUS
    <3>3. ASSUME NEW d \in 1..Len(result)
          PROVE  DOMAIN c[d] = {"domain", "messages"} /\ ListRead(c[d].messages)
                 /\ c[d].domain = result[d].domain
      <4>1. PICK l : l = Printed(result[d].messages) OBVIOUS
      <4>2. ListRead(l) BY <3>1, <4>1, PrintedRead
      <4>3. c[d] = [result[d] EXCEPT !.messages = l] BY <3>2, <4>1
      <4>. QED BY <3>1, <4>2, <4>3
    <3>4. c = [d \in 1..Len(result) |-> c[d]] BY <3>2
    <3>5. \A d, e \in 1..Len(result) : c[d].domain = c[e].domain => d = e BY <3>1, <3>3
    <3>6. IsCatalog(c) BY <3>1, <3>3, <3>4, <3>5, CatalogMade
    <3>. QED BY <2>2, <3>2, <3>6
  <2>. QED BY <1>1, <2>1, <2>2
<1>3. FilesInv' BY <1>1, <1>2 DEF KeepInv, FilesInv
<1>4. UsedInv'
  <2>1. UsedInv BY DEF KeepInv
  <2>2. \A m : KeptIn(result, m) => KeptIn(result', m) BY <1>1
  <2>. QED BY <1>1, <2>1, <2>2, UsedKept
<1>5. PassInv' BY <1>1 DEF PassInv
<1>6. ObsoleteInv'
  <2>1. \A d \in 1..Len(def) : DomainKept(d) BY <1>1 DEF KeepInv, ObsoleteInv
  <2>2. \A d : DomainKept(d)' <=> DomainKept(d) BY <1>1 DEF DomainKept
  <2>. QED BY <1>1, <2>1, <2>2 DEF ObsoleteInv
<1>. QED BY <1>3, <1>4, <1>5, <1>6 DEF KeepInv

LEMMA ThreadKeeps ==
  ASSUME MergeInv, KeepInv, NEW t \in MergeThreads, Thread(t)
  PROVE  KeepInv'
<1>1. /\ phase = "search" /\ phase' = phase /\ UNCHANGED <<args, file, def, result, used>>
  BY DEF Thread, Iterate, Check, Lock, BuildCurr, BuildComp, SearchCurr, SearchComp, LoopFrame,
         data, MergeInv, ThreadInv
<1>2. PassInv' BY SearchedKept DEF KeepInv
<1>3. FilesInv' BY <1>1 DEF KeepInv, FilesInv
<1>4. UsedInv'
  <2>1. UsedInv BY DEF KeepInv
  <2>2. \A m : KeptIn(result, m) => KeptIn(result', m) BY <1>1
  <2>. QED BY <1>1, <2>1, <2>2, UsedKept
<1>5. ObsoleteInv' BY <1>1 DEF ObsoleteInv
<1>. QED BY <1>2, <1>3, <1>4, <1>5 DEF KeepInv

LEMMA KeepStutters == KeepInv /\ UNCHANGED mergevars => KeepInv'
<1>. SUFFICES ASSUME KeepInv, UNCHANGED mergevars PROVE KeepInv'
  OBVIOUS
<1>1. UNCHANGED <<args, file, def, phase, pass, next, refmlp, lists, mergepc, jj, search_results,
                  result, used>>
  BY DEF mergevars, data, search
<1>2. \A j : SearchAlone(j)' = SearchAlone(j) BY <1>1, SoundKept
<1>3. Passes' = Passes /\ \A p : DefList(p)' = DefList(p) /\ RefList(p)' = RefList(p)
  BY <1>1, PassesKept
<1>4. PassInv' BY <1>1, <1>2, <1>3 DEF KeepInv, PassInv
<1>5. \A d : DomainKept(d)' <=> DomainKept(d) BY <1>1 DEF DomainKept
<1>6. ObsoleteInv' BY <1>1, <1>5 DEF KeepInv, ObsoleteInv
<1>7. FilesInv' /\ UsedInv' BY <1>1 DEF KeepInv, FilesInv, UsedInv
<1>. QED BY <1>4, <1>6, <1>7 DEF KeepInv

LEMMA MainKeeps ==
  ASSUME MergeInv, KeepInv, Main
  PROVE  KeepInv'
BY SetCurrentListKeeps, MergePassKeeps, DestroyKeeps, KeepObsoleteKeeps, EndMergeKeeps,
   WriteKeeps, AgainKeeps DEF Main

(* The catalogs are catalogs, an iteration of the loop that was taken is    *)
(* done or some thread is in it, and what was merged, or belongs to a       *)
(* domain the last loop has visited, is in the result.                      *)
THEOREM KeepInvariant == MergeSpec => []KeepInv
<1>1. MergeInv /\ KeepInv /\ [MergeNext]_mergevars => KeepInv'
  BY MainKeeps, ThreadKeeps, KeepStutters DEF MergeNext, Done
<1>. QED BY <1>1, KeepInitially, MergeInvariant, PTL DEF MergeSpec

(* NothingLost: every translation of def.po is in the file msgmerge writes, *)
(* whatever the reference, the compendiums, the options and the schedule of *)
(* the threads.                                                             *)
THEOREM TranslationsKept == MergeSpec => []NothingLost
<1>1. KeepInv => NothingLost
  <2>. SUFFICES ASSUME KeepInv, phase = "done", NEW d \in 1..Len(def),
                       NEW i \in 1..Len(def[d].messages), Translated(def[d].messages[i])
                PROVE  \E r \in 1..Len(result) : \E n \in 1..Len(Output(r)) :
                         /\ Output(r)[n].pos = def[d].messages[i].pos
                         /\ Output(r)[n].str[1] = def[d].messages[i].str[1]
    BY DEF NothingLost
  <2>1. PICK m : m = def[d].messages[i] OBVIOUS
  <2>2. KeptIn(result, m) BY <2>1 DEF KeepInv, ObsoleteInv, DomainKept
  <2>3. PICK r \in 1..Len(result) :
          \E n \in 1..Len(result[r].messages) : SameText(m, result[r].messages[n])
    BY <2>2 DEF KeptIn
  <2>4. PICK n \in 1..Len(result[r].messages) : SameText(m, result[r].messages[n]) BY <2>3
  <2>5. PICK l : l = result[r].messages OBVIOUS
  <2>6. ListRead(l) BY <2>5, Catalogs DEF KeepInv, FilesInv
  <2>7. Translated(l[n]) BY <2>1, <2>4, <2>5 DEF SameText, Translated
  <2>8. PICK k \in 1..Len(Printed(l)) : SameText(l[n], Printed(l)[k]) BY <2>4, <2>5, <2>6, <2>7, PrintedRead
  <2>9. SameText(m, Printed(l)[k]) BY <2>4, <2>5, <2>8 DEF SameText
  <2>10. Output(r) = Printed(l) BY <2>5 DEF Output
  <2>. QED BY <2>1, <2>8, <2>9, <2>10 DEF SameText
<1>. QED BY <1>1, KeepInvariant, PTL

-----------------------------------------------------------------------------
(* msgmerge: what msgfmt -c says of the result.                             *)

(* Lists whose messages differ, and lists that msgfmt -c accepts.           *)
DistinctIds(l) == \A i, j \in 1..Len(l) : l[i].id = l[j].id => i = j
OnceEach(l) == \A i, j \in Printable(l) : l[i].id = l[j].id => i = j

Declares(l, h, n) == h \in Checked(l) /\ is_header(l[h]) /\ l[h].hdr.nplurals = n

Unfailing(l, m) ==
  /\ m.format => ~FormatErrors(m.plural, m.str, m.range)
  /\ m.plural # NoPlural => \E h : Declares(l, h, Len(m.str))

Correct(l) == \A i \in Checked(l) : Unfailing(l, l[i])

LEMMA PassesFacts ==
  ASSUME NEW l
  PROVE  /\ HasDuplicates(l) <=> ~DistinctIds(l)
         /\ PassesCheck(l) <=> DistinctIds(l) /\ Correct(l)
<1>1. HasDuplicates(l) <=> ~DistinctIds(l) BY DEF HasDuplicates, DistinctIds
<1>. DEFINE H == { i \in Checked(l) : is_header(l[i]) }
<1>2. PluralErrors(l) <=> \E i \in Checked(l) :
        l[i].plural # NoPlural /\ \A n \in H : Len(l[i].str) # l[n].hdr.nplurals
  BY DEF PluralErrors
<1>3. \A h, n : Declares(l, h, n) <=> h \in H /\ l[h].hdr.nplurals = n BY DEF Declares
<1>. HIDE DEF H
<1>4. ~PluralErrors(l) <=> \A i \in Checked(l) :
        l[i].plural # NoPlural => \E h : Declares(l, h, Len(l[i].str))
  BY <1>2, <1>3
<1>. QED BY <1>1, <1>4 DEF PassesCheck, Correct, Unfailing

LEMMA HistogramOfSubrange ==
  ASSUME NEW r \in Nat \X Nat, NEW d \in Nat \X Nat, r[1] >= d[1], r[2] <= d[2], NEW j
  PROVE  /\ Histogram(r, j) \in Nat /\ Histogram(d, j) \in Nat
         /\ Histogram(r, j) <= Histogram(d, j)
<1>. DEFINE R == { n \in r[1]..r[2] : PluralForm[n] = j }
            D == { n \in d[1]..d[2] : PluralForm[n] = j }
<1>1. r[1] \in Int /\ r[2] \in Int /\ d[1] \in Int /\ d[2] \in Int OBVIOUS
<1>2. \A n \in r[1]..r[2] : n \in d[1]..d[2] BY <1>1
<1>3. R \subseteq D BY <1>2
<1>4. IsFiniteSet(d[1]..d[2]) BY <1>1, FS_Interval
<1>5. D \subseteq d[1]..d[2] OBVIOUS
<1>6. Histogram(r, j) = Cardinality(R) /\ Histogram(d, j) = Cardinality(D) BY DEF Histogram
<1>. HIDE DEF R, D
<1>7. IsFiniteSet(D) BY <1>4, <1>5, FS_Subset
<1>8. IsFiniteSet(R) /\ Cardinality(R) <= Cardinality(D) BY <1>3, <1>7, FS_Subset
<1>. QED BY <1>6, <1>7, <1>8, FS_CardinalityType

(* A translation that is correct for a range is so for a part of it.        *)
LEMMA FormatOfSubrange ==
  ASSUME NEW p, NEW str, NEW r, r = NoRange \/ r \in Nat \X Nat,
         NEW d, d = NoRange \/ d \in Nat \X Nat, d = NoRange \/ Subrange(r, d),
         ~FormatErrors(p, str, d)
  PROVE  ~FormatErrors(p, str, r)
<1>1. ASSUME NEW j \in 1..Len(str), StrictChecking(p, str, r, j)
      PROVE  StrictChecking(p, str, d, j)
  <2>1. CASE p = NoPlural \/ Len(str) = 1 BY <2>1 DEF StrictChecking
  <2>2. CASE ~(p = NoPlural \/ Len(str) = 1)
    <3>1. j <= Len(Often) /\ Often[j] /\ ~(r # NoRange /\ Histogram(r, j) <= 1)
      BY <1>1, <2>2 DEF StrictChecking
    <3>2. ~(d # NoRange /\ Histogram(d, j) <= 1)
      <4>1. CASE d = NoRange BY <4>1
      <4>2. CASE d # NoRange
        <5>1. r # NoRange /\ r[1] >= d[1] /\ r[2] <= d[2] BY <4>2 DEF Subrange
        <5>2. r \in Nat \X Nat /\ d \in Nat \X Nat BY <4>2, <5>1
        <5>3. /\ Histogram(r, j) \in Nat /\ Histogram(d, j) \in Nat
              /\ Histogram(r, j) <= Histogram(d, j)
          BY <5>1, <5>2, HistogramOfSubrange
        <5>. QED BY <3>1, <5>1, <5>3
      <4>. QED BY <4>1, <4>2
    <3>. QED BY <3>1, <3>2 DEF StrictChecking
  <2>. QED BY <2>1, <2>2
<1>. QED BY <1>1 DEF FormatErrors

(* The exact search takes a translated message of the current list.         *)
LEMMA ExactIsDefinition ==
  ASSUME NEW ll, Len(ll) \in Nat, Len(ll) >= 1,
         \A l \in 1..Len(ll) : Len(ll[l]) \in Nat,
         DistinctIds(ll[1]), NEW i \in 1..Len(ll[1]), Translated(ll[1][i])
  PROVE  message_list_list_search(ll, ll[1][i].id) = <<1, i>>
<1>. DEFINE id == ll[1][i].id
            place(l) == message_list_search(ll[l], id)
            W(l) == IF place(l) = 0 THEN 0 ELSE Weight(ll[l][place(l)])
            best == { l \in 1..Len(ll) :
                        /\ W(l) > 0
                        /\ \A o \in 1..Len(ll) : W(o) < W(l) \/ (W(o) = W(l) /\ l <= o) }
            l0 == CHOOSE l \in best : TRUE
<1>1. message_list_list_search(ll, id) = IF best = {} THEN <<0, 0>> ELSE <<l0, place(l0)>>
  BY Zenon DEF message_list_list_search
<1>2. 1 \in 1..Len(ll) OBVIOUS
<1>3. place(1) = i
  <2>1. Found(place(1), Len(ll[1]), { k \in 1..Len(ll[1]) : ll[1][k].id = id })
    BY <1>2, MessageFound
  <2>2. place(1) # 0 BY <2>1 DEF Found
  <2>3. place(1) \in 1..Len(ll[1]) /\ ll[1][place(1)].id = ll[1][i].id BY <2>1, <2>2 DEF Found
  <2>. HIDE DEF place, id
  <2>. QED BY <2>3 DEF DistinctIds
<1>4. \A l : W(l) \in 0..2 BY DEF Weight
<1>5. W(1) = 2
  <2>1. ll[1][i].str[1] # "" BY DEF Translated
  <2>2. ll[1][i].str # <<"">>
    <3>1. PICK x : x = <<"">> OBVIOUS
    <3>2. x[1] = "" BY <3>1
    <3>. QED BY <2>1, <3>1, <3>2
  <2>3. Weight(ll[1][i]) = 2 BY <2>2 DEF Weight
  <2>. HIDE DEF place
  <2>4. i # 0 OBVIOUS
  <2>. QED BY <1>3, <2>3, <2>4
<1>. HIDE DEF W, place
<1>6. 1 \in best
  <2>1. \A o \in 1..Len(ll) : W(o) < W(1) \/ (W(o) = W(1) /\ 1 <= o) BY <1>4, <1>5
  <2>. QED BY <1>2, <1>5, <2>1
<1>7. ASSUME NEW l \in best PROVE l = 1
  <2>1. l \in 1..Len(ll) /\ (W(1) < W(l) \/ (W(1) = W(l) /\ l <= 1)) BY <1>2
  <2>. QED BY <1>4, <1>5, <2>1
<1>8. l0 = 1
  <2>. HIDE DEF best
  <2>. QED BY <1>6, <1>7
<1>. HIDE DEF best, l0
<1>. QED BY <1>1, <1>3, <1>6, <1>8

(* What is printed of a correct list is correct.                            *)
LEMMA PrintedCorrect ==
  ASSUME NEW l, ListRead(l)
  PROVE  /\ OnceEach(l) => DistinctIds(Printed(l))
         /\ Correct(l) => Correct(Printed(l))
<1>1. IsSeq(l) /\ \A i \in 1..Len(l) : IsRead(l[i]) BY ListFacts
<1>2. PICK p : p = Printed(l) OBVIOUS
<1>3. PICK h : Prints(h, p, l) BY <1>1, <1>2, PrintedMessages
<1>4. /\ IsSeq(p) /\ h \in [1..Len(p) -> Printable(l)]
      /\ \A k \in 1..Len(p) : p[k] = PrintedAs(l[h[k]])
      /\ \A k, n \in 1..Len(p) : h[k] = h[n] => k = n
      /\ \A i \in Printable(l) : \E k \in 1..Len(p) : h[k] = i
  BY <1>3 DEF Prints
<1>5. Printable(l) \subseteq 1..Len(l) BY DEF Printable
<1>6. ASSUME NEW k \in 1..Len(p)
      PROVE  /\ h[k] \in Printable(l) /\ h[k] \in 1..Len(l)
             /\ p[k].id = l[h[k]].id /\ p[k].str = l[h[k]].str /\ p[k].plural = l[h[k]].plural
             /\ p[k].hdr = l[h[k]].hdr /\ p[k].obsolete = l[h[k]].obsolete
             /\ ~l[h[k]].obsolete =>
                  /\ p[k].fuzzy = (l[h[k]].fuzzy /\ Translated(l[h[k]]))
                  /\ p[k].format = l[h[k]].format /\ p[k].range = l[h[k]].range
  <2>1. h[k] \in Printable(l) /\ h[k] \in 1..Len(l) BY <1>4, <1>5
  <2>. QED BY <1>1, <1>4, <2>1, MessagePrinted
<1>7. ASSUME OnceEach(l) PROVE DistinctIds(p)
  BY <1>4, <1>6, <1>7 DEF OnceEach, DistinctIds
<1>8. ASSUME NEW k \in 1..Len(p)
      PROVE  k \in Checked(p) <=> h[k] \in Checked(l)
  <2>1. is_header(p[k]) <=> is_header(l[h[k]]) BY <1>6 DEF is_header
  <2>2. Translated(p[k]) <=> Translated(l[h[k]]) BY <1>6 DEF Translated
  <2>. QED BY <1>6, <2>1, <2>2 DEF Checked
<1>9. ASSUME Correct(l), NEW k \in Checked(p) PROVE Unfailing(p, p[k])
  <2>1. k \in 1..Len(p) BY DEF Checked
  <2>2. h[k] \in Checked(l) /\ ~l[h[k]].obsolete BY <1>8, <2>1 DEF Checked
  <2>3. Unfailing(l, l[h[k]]) BY <1>9, <2>2 DEF Correct
  <2>4. ASSUME NEW i, NEW n, Declares(l, i, n) PROVE \E x : Declares(p, x, n)
    <3>1. i \in Checked(l) /\ is_header(l[i]) /\ l[i].hdr.nplurals = n BY <2>4 DEF Declares
    <3>2. i \in Printable(l) BY <3>1 DEF Checked, Printable
    <3>3. PICK x \in 1..Len(p) : h[x] = i BY <1>4, <3>2
    <3>4. x \in Checked(p) BY <1>8, <3>1, <3>3
    <3>5. Declares(p, x, n) BY <1>6, <3>1, <3>3, <3>4 DEF Declares, is_header
    <3>. QED BY <3>5
  <2>5. p[k].plural # NoPlural => \E x : Declares(p, x, Len(p[k].str))
    BY <1>6, <2>1, <2>3, <2>4 DEF Unfailing
  <2>6. p[k].format => ~FormatErrors(p[k].plural, p[k].str, p[k].range)
    BY <1>6, <2>1, <2>2, <2>3 DEF Unfailing
  <2>. QED BY <2>5, <2>6 DEF Unfailing
<1>. QED BY <1>2, <1>7, <1>9 DEF Correct

(* Obsolete messages at the end of a list.                                  *)
LEMMA ObsoleteAppended ==
  ASSUME NEW l, IsSeq(l), NEW u, IsSeq(u), \A k \in 1..Len(u) : u[k].obsolete
  PROVE  /\ Correct(l) => Correct(l \o u)
         /\ (/\ OnceEach(l) /\ OnceEach(u)
             /\ \A i \in 1..Len(l), k \in 1..Len(u) : Translated(u[k]) => l[i].id # u[k].id)
            => OnceEach(l \o u)
<1>1. PICK c : c = l \o u OBVIOUS
<1>2. Len(l) \in Nat /\ Len(u) \in Nat BY SeqFacts
<1>3. /\ IsSeq(c) /\ Len(c) = Len(l) + Len(u)
      /\ \A i \in 1..Len(l) : c[i] = l[i]
      /\ \A k \in 1..Len(u) : c[Len(l) + k] = u[k]
  BY <1>1, Joined
<1>4. ASSUME NEW i \in 1..Len(c), i \notin 1..Len(l)
      PROVE  \E k \in 1..Len(u) : i = Len(l) + k /\ c[i] = u[k]
  <2>1. i - Len(l) \in 1..Len(u) /\ i = Len(l) + (i - Len(l)) BY <1>2, <1>3, <1>4
  <2>2. PICK k \in 1..Len(u) : i = Len(l) + k BY <2>1
  <2>. QED BY <1>3, <2>2
<1>5. \A i \in 1..Len(l) : i \in 1..Len(c) BY <1>2, <1>3
<1>6. Checked(c) = Checked(l)
  <2>1. ASSUME NEW i \in Checked(c) PROVE i \in Checked(l)
    <3>1. i \in 1..Len(c) /\ ~c[i].obsolete BY DEF Checked
    <3>2. i \in 1..Len(l) BY <1>4, <3>1
    <3>. QED BY <1>3, <3>2 DEF Checked
  <2>2. ASSUME NEW i \in Checked(l) PROVE i \in Checked(c)
    <3>1. i \in 1..Len(l) BY DEF Checked
    <3>2. i \in 1..Len(c) /\ c[i] = l[i] BY <1>3, <1>5, <3>1
    <3>. QED BY <3>2 DEF Checked
  <2>. QED BY <2>1, <2>2
<1>7. ASSUME Correct(l) PROVE Correct(c)
  <2>1. \A i \in Checked(l) : i \in 1..Len(l) BY DEF Checked
  <2>2. \A h, n : Declares(l, h, n) => Declares(c, h, n) BY <1>3, <1>6, <2>1 DEF Declares
  <2>3. ASSUME NEW i \in Checked(c) PROVE Unfailing(c, c[i])
    <3>1. Unfailing(l, l[i]) /\ c[i] = l[i] BY <1>3, <1>6, <1>7, <2>1 DEF Correct
    <3>. QED BY <2>2, <3>1 DEF Unfailing
  <2>. QED BY <2>3 DEF Correct
<1>8. ASSUME OnceEach(l), OnceEach(u),
             \A i \in 1..Len(l), k \in 1..Len(u) : Translated(u[k]) => l[i].id # u[k].id
      PROVE  OnceEach(c)
  <2>0. /\ \A i \in Printable(c) : i \in 1..Len(c) /\ (c[i].obsolete => Translated(c[i]))
        /\ \A i \in Printable(c) : i \in 1..Len(l) => i \in Printable(l)
        /\ \A k \in 1..Len(u) : Translated(u[k]) => k \in Printable(u)
    BY <1>3 DEF Printable
  <2>1. ASSUME NEW i \in Printable(c), NEW j \in Printable(c), c[i].id = c[j].id PROVE i = j
    <3>1. CASE i \in 1..Len(l) /\ j \in 1..Len(l)
      BY <1>3, <1>8, <2>0, <2>1, <3>1 DEF OnceEach
    <3>2. ASSUME i \in 1..Len(l), j \notin 1..Len(l) PROVE FALSE
      <4>1. PICK k \in 1..Len(u) : c[j] = u[k] BY <1>4, <2>0, <3>2
      <4>2. Translated(u[k]) BY <2>0, <4>1
      <4>. QED BY <1>3, <1>8, <2>1, <3>2, <4>1, <4>2
    <3>3. ASSUME i \notin 1..Len(l), j \in 1..Len(l) PROVE FALSE
      <4>1. PICK k \in 1..Len(u) : c[i] = u[k] BY <1>4, <2>0, <3>3
      <4>2. Translated(u[k]) BY <2>0, <4>1
      <4>3. l[j].id # u[k].id BY <1>8, <3>3, <4>2
      <4>4. c[j] = l[j] BY <1>3, <3>3
      <4>. QED BY <2>1, <4>1, <4>3, <4>4
    <3>4. CASE i \notin 1..Len(l) /\ j \notin 1..Len(l)
      <4>1. PICK k \in 1..Len(u) : i = Len(l) + k /\ c[i] = u[k] BY <1>4, <2>0, <3>4
      <4>2. PICK n \in 1..Len(u) : j = Len(l) + n /\ c[j] = u[n] BY <1>4, <2>0, <3>4
      <4>3. k \in Printable(u) /\ n \in Printable(u) BY <2>0, <4>1, <4>2
      <4>4. k = n BY <1>8, <2>1, <4>1, <4>2, <4>3 DEF OnceEach
      <4>. QED BY <4>1, <4>2, <4>4
    <3>. QED BY <3>1, <3>2, <3>3, <3>4
  <2>. QED BY <2>1 DEF OnceEach
<1>. QED BY <1>1, <1>7, <1>8

(* What the postprocessing leaves alone, and what message_merge makes.      *)
AsMerged(o, m) ==
  /\ o.id = m.id /\ o.plural = m.plural /\ o.str = m.str /\ o.hdr = m.hdr
  /\ o.fuzzy = m.fuzzy /\ o.obsolete = m.obsolete /\ o.format = m.format /\ o.range = m.range

LEMMA Unrepaired ==
  ASSUME NEW x, IsRead(x.msg), NEW n, is_header(x.msg) => x.problem = 0,
         is_header(x.msg) \/ ~DropPrev(Repaired(x, n)).fuzzy
  PROVE  AsMerged(DropPrev(Repaired(x, n)), x.msg)
<1>. DEFINE m == x.msg
<1>1. DOMAIN m = MessageFields BY DEF IsRead
<1>2. PICK y : y = Repaired(x, n) OBVIOUS
<1>3. PICK o : o = DropPrev(y) OBVIOUS
<1>4. y # m => ~is_header(m) /\ y.fuzzy = TRUE /\ DOMAIN y = MessageFields
  <2>1. CASE x.problem = 1
    <3>. DEFINE str == [k \in 1..n * Len(m.str) |-> m.str[((k - 1) % Len(m.str)) + 1]]
    <3>1. y = [m EXCEPT !.fuzzy = TRUE, !.str = str] BY <1>2, <2>1 DEF Repaired
    <3>. HIDE DEF str
    <3>2. y.fuzzy = TRUE /\ DOMAIN y = MessageFields BY <1>1, <3>1 DEF MessageFields
    <3>. QED BY <2>1, <3>2
  <2>2. CASE x.problem = 2 /\ Len(m.str) > 1
    <3>1. PICK str : y = [m EXCEPT !.str = str, !.fuzzy = TRUE] BY <1>2, <2>2 DEF Repaired
    <3>2. y.fuzzy = TRUE /\ DOMAIN y = MessageFields BY <1>1, <3>1 DEF MessageFields
    <3>. QED BY <2>2, <3>2
  <2>3. CASE x.problem # 1 /\ ~(x.problem = 2 /\ Len(m.str) > 1)
    BY <1>2, <2>3 DEF Repaired
  <2>. QED BY <2>1, <2>2, <2>3
<1>5. o = y \/ o = [y EXCEPT !.prev = NoId] BY <1>3 DEF DropPrev
<1>. HIDE DEF m
<1>6. DOMAIN y = MessageFields BY <1>1, <1>4
<1>7. AsMerged(o, y)
  <2>1. CASE o = y BY <2>1 DEF AsMerged
  <2>2. CASE o = [y EXCEPT !.prev = NoId] BY <1>6, <2>2 DEF AsMerged, MessageFields
  <2>. QED BY <1>5, <2>1, <2>2
<1>8. y = m BY <1>2, <1>3, <1>4, <1>7 DEF AsMerged, m
<1>. QED BY <1>2, <1>3, <1>7, <1>8 DEF m

MergeOf(m, d, r, f) ==
  /\ m.id = r.id /\ m.plural = r.plural /\ m.obsolete = r.obsolete
  /\ m.format = r.format /\ m.range = r.range
  /\ is_header(r) => m.hdr.nplurals = d.hdr.nplurals
  /\ ~is_header(r) =>
       /\ m.str = d.str
       /\ ~m.fuzzy => ~d.fuzzy /\ ~f /\ ~Unfit(d, r, d.str)

LEMMA MergeMakes ==
  ASSUME args \in Inputs, NEW d, IsRead(d), NEW r, IsRead(r), NEW f
  PROVE  MergeOf(message_merge(d, r, f), d, r, f)
<1>. DEFINE hdr == IF is_header(r) THEN MergedFields(d, r) ELSE NoFields
            str == IF is_header(r)
                   THEN IF hdr = NoFields THEN <<"">> ELSE <<"full">>
                   ELSE d.str
            prev == IF ~args.previous \/ is_header(r) THEN NoId ELSE PrevId(d)
            fuzzy == d.fuzzy \/ f \/ Unfit(d, r, str)
<1>1. PICK m : m = message_merge(d, r, f) OBVIOUS
<1>2. m = [id |-> r.id, plural |-> r.plural, str |-> str, hdr |-> hdr, fuzzy |-> fuzzy,
           obsolete |-> r.obsolete, format |-> r.format, range |-> r.range,
           prev |-> prev, pos |-> d.pos]
  BY <1>1, Zenon DEF message_merge
<1>3. is_header(r) => hdr.nplurals = d.hdr.nplurals BY HeaderMerged
<1>4. ~is_header(r) => str = d.str OBVIOUS
<1>5. ~fuzzy => ~d.fuzzy /\ ~f /\ ~Unfit(d, r, str) OBVIOUS
<1>. HIDE DEF hdr, str, prev, fuzzy
<1>6. /\ m.id = r.id /\ m.plural = r.plural /\ m.str = str /\ m.hdr = hdr /\ m.fuzzy = fuzzy
      /\ m.range = r.range /\ m.obsolete = r.obsolete /\ m.format = r.format
  BY <1>2
<1>7. MergeOf(m, d, r, f) BY <1>3, <1>4, <1>5, <1>6 DEF MergeOf
<1>. QED BY <1>1, <1>7

LEMMA MissingUntranslated ==
  ASSUME NEW r, IsRead(r), ~Translated(r), NEW n \in Nat \ {0}
  PROVE  ~Translated(Missing(r, n))
<1>1. DOMAIN r = MessageFields BY DEF IsRead
<1>2. PICK m : m = message_copy(r) OBVIOUS
<1>3. DOMAIN m = MessageFields /\ m.str = r.str
  <2>1. m = [r EXCEPT !.obsolete = FALSE] BY <1>2 DEF message_copy
  <2>. QED BY <1>1, <2>1 DEF MessageFields
<1>. DEFINE str == [i \in 1..n |-> ""]
<1>4. str[1] = ""
  <2>1. 1 \in 1..n OBVIOUS
  <2>. QED BY <2>1
<1>. HIDE DEF str
<1>5. PICK o : o = [m EXCEPT !.str = str] OBVIOUS
<1>6. o.str = str BY <1>3, <1>5 DEF MessageFields
<1>7. Missing(r, n) \in {m, o} BY <1>2, <1>5 DEF Missing, str
<1>8. ~Translated(m) /\ ~Translated(o) BY <1>3, <1>4, <1>6 DEF Translated
<1>. QED BY <1>7, <1>8

(* The list of the reference in a pass, and the domains of the passes.      *)
TemplateMessage(m) == IF is_header(m) THEN ~m.obsolete /\ ~m.format ELSE ~Translated(m)

LEMMA ReferenceList ==
  ASSUME args \in Inputs, NEW p, args.multi_domain \/ p \in 1..Len(args.ref)
  PROVE  /\ DistinctIds(RefList(p))
         /\ \E i \in 1..Len(RefList(p)) : is_header(RefList(p)[i])
         /\ IsTemplate => \A i \in 1..Len(RefList(p)) : TemplateMessage(RefList(p)[i])
<1>1. IsFile(args.ref) /\ IsCatalog(args.ref) /\ args.ref # <<>>
  BY InputsAssumption DEF IsFile
<1>2. DOMAIN args.ref = 1..Len(args.ref) /\ Len(args.ref) \in Nat \ {0}
  <2>1. IsSeq(args.ref) /\ DOMAIN args.ref = 1..Len(args.ref) BY <1>1, Catalogs
  <2>. QED BY <1>1, <2>1 DEF IsSeq
<1>3. PICK n : n = IF args.multi_domain THEN 1 ELSE p OBVIOUS
<1>4. n \in 1..Len(args.ref) BY <1>2, <1>3
<1>5. PICK l : l = args.ref[n].messages OBVIOUS
<1>6. IsSeq(l) /\ Len(l) \in Nat
  <2>1. ListRead(l) BY <1>1, <1>4, <1>5, Catalogs
  <2>. QED BY <2>1, ListFacts
<1>7. DistinctIds(l) BY <1>1, <1>2, <1>4, <1>5, PassesFacts DEF IsFile
<1>8. IsTemplate => \A i \in 1..Len(l) : TemplateMessage(l[i])
  BY <1>4, <1>5 DEF IsTemplate, TemplateMessage
<1>9. PICK r : r = RefList(p) OBVIOUS
<1>10. r = IF message_list_search(l, Header) = 0 THEN <<DummyHeader>> \o l ELSE l
  BY <1>3, <1>5, <1>9 DEF RefList, WithHeader
<1>11. Found(message_list_search(l, Header), Len(l), { i \in 1..Len(l) : l[i].id = Header })
  BY <1>6, MessageFound
<1>12. CASE message_list_search(l, Header) # 0
  <2>1. r = l BY <1>10, <1>12
  <2>2. \E i \in 1..Len(l) : is_header(l[i]) BY <1>11, <1>12 DEF Found, is_header
  <2>. QED BY <1>7, <1>8, <1>9, <2>1, <2>2
<1>13. CASE message_list_search(l, Header) = 0
  <2>1. \A i \in 1..Len(l) : l[i].id # Header BY <1>11, <1>13 DEF Found
  <2>2. PICK d : d = DummyHeader OBVIOUS
  <2>3. d.id = Header /\ ~d.obsolete /\ ~d.format BY <2>2 DEF DummyHeader
  <2>4. IsSeq(<<d>>) /\ Len(<<d>>) = 1 /\ <<d>>[1] = d BY Singleton
  <2>5. r = <<d>> \o l BY <1>10, <1>13, <2>2
  <2>6. /\ Len(r) = 1 + Len(l)
        /\ \A i \in 1..1 : r[i] = <<d>>[i]
        /\ \A i \in 1..Len(l) : r[1 + i] = l[i]
    BY <1>6, <2>4, <2>5, Joined
  <2>7. r[1] = d BY <2>4, <2>6
  <2>8. ASSUME NEW i \in 1..Len(r), i # 1 PROVE \E k \in 1..Len(l) : i = 1 + k /\ r[i] = l[k]
    <3>1. i - 1 \in 1..Len(l) /\ i = 1 + (i - 1) BY <1>6, <2>6, <2>8
    <3>2. PICK k \in 1..Len(l) : i = 1 + k BY <3>1
    <3>. QED BY <2>6, <3>2
  <2>9. DistinctIds(r)
    <3>1. ASSUME NEW i \in 1..Len(r), NEW j \in 1..Len(r), r[i].id = r[j].id PROVE i = j
      <4>1. CASE i = 1 BY <2>1, <2>3, <2>7, <2>8, <3>1, <4>1
      <4>2. CASE j = 1 BY <2>1, <2>3, <2>7, <2>8, <3>1, <4>2
      <4>3. CASE i # 1 /\ j # 1
        <5>1. PICK k \in 1..Len(l) : i = 1 + k /\ r[i] = l[k] BY <2>8, <4>3
        <5>2. PICK m \in 1..Len(l) : j = 1 + m /\ r[j] = l[m] BY <2>8, <4>3
        <5>3. k = m BY <1>7, <3>1, <5>1, <5>2 DEF DistinctIds
        <5>. QED BY <5>1, <5>2, <5>3
      <4>. QED BY <4>1, <4>2, <4>3
    <3>. QED BY <3>1 DEF DistinctIds
  <2>10. 1 \in 1..Len(r) /\ is_header(r[1])
    BY <1>6, <2>3, <2>6, <2>7 DEF is_header
  <2>11. ASSUME IsTemplate, NEW i \in 1..Len(r) PROVE TemplateMessage(r[i])
    <3>1. CASE i = 1 BY <2>3, <2>7, <3>1 DEF TemplateMessage, is_header
    <3>2. CASE i # 1 BY <1>8, <2>8, <2>11, <3>2
    <3>. QED BY <3>1, <3>2
  <2>. QED BY <1>9, <2>9, <2>10, <2>11
<1>. QED BY <1>12, <1>13

LEMMA PassDomains ==
  ASSUME args \in Inputs, IsCatalog(def), def # <<>>
  PROVE  \A p, q \in 1..Len(Passes) : Passes[p].domain = Passes[q].domain => p = q
<1>1. /\ IsSeq(def) /\ Len(def) \in Nat
      /\ \A d, e \in 1..Len(def) : def[d].domain = def[e].domain => d = e
  BY Catalogs
<1>2. CASE args.multi_domain
  <2>. DEFINE pair(d) == [domain |-> def[d].domain, def |-> d]
              all == [d \in 1..Len(def) |-> pair(d)]
  <2>1. Passes = IF def[1].messages = <<>> THEN Tail(all) ELSE all BY <1>2 DEF Passes
  <2>2. IsSeq(all) /\ Len(all) = Len(def) /\ \A d \in 1..Len(def) : all[d].domain = def[d].domain
    <3>1. all = [d \in 1..Len(def) |-> all[d]] OBVIOUS
    <3>2. \A d \in 1..Len(def) : all[d].domain = def[d].domain OBVIOUS
    <3>. HIDE DEF all
    <3>. QED BY <1>1, <3>1, <3>2, SeqMade
  <2>3. Len(def) # 0 BY <1>1 DEF IsSeq
  <2>. HIDE DEF all, pair
  <2>4. CASE def[1].messages = <<>>
    <3>1. PICK t : t = Tail(all) OBVIOUS
    <3>2. all # <<>> BY <2>2, <2>3 DEF IsSeq
    <3>3. Len(t) = Len(def) - 1 /\ \A p \in 1..(Len(def) - 1) : t[p] = all[p + 1]
      BY <1>1, <2>2, <3>1, <3>2 DEF IsSeq
    <3>4. ASSUME NEW p \in 1..Len(t)
          PROVE  p + 1 \in 1..Len(def) /\ t[p].domain = def[p + 1].domain
      <4>1. p + 1 \in 1..Len(def) /\ p \in 1..(Len(def) - 1) BY <1>1, <2>3, <3>3
      <4>. QED BY <2>2, <3>3, <4>1
    <3>5. ASSUME NEW p \in 1..Len(t), NEW q \in 1..Len(t), t[p].domain = t[q].domain PROVE p = q
      <4>1. p + 1 = q + 1 BY <1>1, <3>4, <3>5
      <4>2. Len(t) \in Nat BY <1>1, <2>3, <3>3
      <4>. QED BY <4>1, <4>2
    <3>. QED BY <2>1, <2>4, <3>1, <3>5
  <2>5. CASE def[1].messages # <<>>
    BY <1>1, <2>1, <2>2, <2>5
  <2>. QED BY <2>4, <2>5
<1>3. CASE ~args.multi_domain
  <2>1. /\ Len(args.ref) \in Nat
        /\ \A d, e \in 1..Len(args.ref) : args.ref[d].domain = args.ref[e].domain => d = e
    BY InputsAssumption, Catalogs DEF IsFile
  <2>. DEFINE pair(r) == [domain |-> args.ref[r].domain, def |-> DomainIndex(def, args.ref[r].domain)]
  <2>2. Passes = [r \in 1..Len(args.ref) |-> pair(r)] BY <1>3 DEF Passes
  <2>3. \A r : pair(r).domain = args.ref[r].domain OBVIOUS
  <2>. HIDE DEF pair
  <2>4. Len(Passes) = Len(args.ref) BY <2>1, <2>2
  <2>5. \A p \in 1..Len(Passes) : Passes[p].domain = args.ref[p].domain BY <2>2, <2>3, <2>4
  <2>. QED BY <2>1, <2>4, <2>5
<1>. QED BY <1>2, <1>3

Unique(mdl) == \A d \in 1..Len(mdl) : DistinctIds(mdl[d].messages)
WellFormed == Suitable /\ \A d \in 1..Len(def) : PassesCheck(def[d].messages)

(* The header entry that msgmerge finds in this pass.                       *)
HeaderPlace == message_list_list_search(lists, Header)
HeaderDeclares(n) ==
  /\ HeaderPlace # None
  /\ Translated(lists[HeaderPlace[1]][HeaderPlace[2]])
  /\ lists[HeaderPlace[1]][HeaderPlace[2]].hdr.nplurals = n

Accepted(m) ==
  /\ m.format => ~FormatErrors(m.plural, m.str, m.range)
  /\ m.plural # NoPlural => HeaderDeclares(Len(m.str))

(* A translation that is taken as it is, is one that msgfmt -c accepts with *)
(* the header entry that is taken.                                          *)
LEMMA DefinitionAccepted ==
  ASSUME MergeInv, KeepInv, WellFormed, phase = "search", NEW j \in 1..Len(refmlp),
         NEW f, f = message_list_list_search(lists, refmlp[j].id), f # None,
         NEW d, d = lists[f[1]][f[2]], Translated(d), ~d.fuzzy, d.plural = refmlp[j].plural
  PROVE  Accepted(d)
<1>1. /\ Len(lists) \in Nat /\ Len(lists) >= 1 /\ lists[1] = DefList(pass)
      /\ \A l \in 1..Len(lists) : ListRead(lists[l]) /\ Len(lists[l]) \in Nat
      /\ pass \in 1..Len(Passes) /\ refmlp = RefList(pass)
  BY ListsOfPass
<1>2. lists = <<DefList(pass)>> \o args.compendiums BY DEF KeepInv, PassInv
<1>3. At(lists, f) /\ d.id = refmlp[j].id BY <1>1, ExactPlace
<1>4. CASE f[1] = 1 /\ ~d.obsolete
  <2>1. PICK l : l = lists[1] OBVIOUS
  <2>2. PICK i : i = f[2] OBVIOUS
  <2>3. i \in 1..Len(l) /\ d = l[i] BY <1>3, <1>4, <2>1, <2>2 DEF At
  <2>4. Passes[pass].def \in 1..Len(def) /\ l = def[Passes[pass].def].messages
    <3>1. Passes[pass].def \in 0..Len(def)
      BY <1>1, PassFacts DEF MergeInv, KeepInv, FilesInv
    <3>2. Passes[pass].def # 0
      <4>1. Len(<<>>) = 0 BY Empty
      <4>2. l # <<>> BY <2>3, <4>1
      <4>. QED BY <1>1, <2>1, <4>2 DEF DefList
    <3>3. Len(def) \in Nat BY Catalogs DEF KeepInv, FilesInv
    <3>. QED BY <1>1, <2>1, <3>1, <3>2, <3>3 DEF DefList
  <2>5. PassesCheck(l) BY <2>4 DEF WellFormed
  <2>6. DistinctIds(l) /\ Correct(l) BY <2>5, PassesFacts
  <2>7. i \in Checked(l) BY <1>4, <2>3 DEF Checked
  <2>8. Unfailing(l, d) BY <2>3, <2>6, <2>7 DEF Correct
  <2>9. ASSUME NEW h, NEW n, Declares(l, h, n) PROVE HeaderDeclares(n)
    <3>1. h \in 1..Len(l) /\ Translated(l[h]) /\ l[h].id = Header /\ l[h].hdr.nplurals = n
      BY <2>9 DEF Declares, Checked, is_header
    <3>2. message_list_list_search(lists, lists[1][h].id) = <<1, h>>
      BY <1>1, <2>1, <2>6, <3>1, ExactIsDefinition
    <3>3. HeaderPlace = <<1, h>> BY <2>1, <3>1, <3>2 DEF HeaderPlace
    <3>4. PICK p : p = <<1, h>> OBVIOUS
    <3>5. p[1] = 1 /\ p[2] = h /\ p # None BY <3>4 DEF None
    <3>. QED BY <2>1, <3>1, <3>3, <3>4, <3>5 DEF HeaderDeclares
  <2>. QED BY <2>8, <2>9 DEF Unfailing, Accepted
<1>5. CASE ~(f[1] = 1 /\ ~d.obsolete)
  <2>1. Reliable(pass) BY <1>1 DEF WellFormed, Suitable
  <2>2. /\ f[1] = 1 => d.obsolete
        /\ d.plural = RefList(pass)[j].plural /\ j \in 1..Len(RefList(pass))
    BY <1>1, <1>5
  <2>3. /\ d.format => ~FormatErrors(d.plural, d.str, d.range)
        /\ d.plural # NoPlural =>
             /\ HeaderPlace # None
             /\ Translated(lists[HeaderPlace[1]][HeaderPlace[2]])
             /\ Len(d.str) = lists[HeaderPlace[1]][HeaderPlace[2]].hdr.nplurals
    BY <1>1, <1>2, <2>1, <2>2 DEF Reliable, HeaderPlace
  <2>. QED BY <2>3 DEF Accepted, HeaderDeclares
<1>. QED BY <1>4, <1>5

(* So is what the merging loop makes of it.                                 *)
LEMMA MergedAccepted ==
  ASSUME MergeInv, KeepInv, WellFormed, phase = "search", NEW j \in 1..Len(refmlp),
         search_results[j] = SearchAlone(j),
         search_results[j].found # None \/ ~is_header(refmlp[j]),
         NEW m, m = Merged(j).msg, Translated(m), ~is_header(m), ~m.fuzzy
  PROVE  Accepted(m)
<1>1. /\ Len(lists) \in Nat /\ Len(lists) >= 1 /\ lists[1] = DefList(pass)
      /\ \A l \in 1..Len(lists) : ListRead(lists[l]) /\ Len(lists[l]) \in Nat
      /\ ListRead(refmlp) /\ pass \in 1..Len(Passes) /\ refmlp = RefList(pass)
  BY ListsOfPass
<1>2. args \in Inputs BY DEF MergeInv
<1>3. PICK r : r = refmlp[j] OBVIOUS
<1>4. IsRead(r) BY <1>1, <1>3, ListFacts
<1>5. m.id = r.id BY <1>3, MergedOne
<1>6. ~is_header(r) BY <1>5 DEF is_header
<1>7. ~Translated(r)
  <2>1. IsTemplate BY DEF WellFormed, Suitable
  <2>2. args.multi_domain \/ pass \in 1..Len(args.ref)
    BY <1>1, PassFacts DEF MergeInv, KeepInv, FilesInv
  <2>3. TemplateMessage(RefList(pass)[j]) BY <1>1, <1>2, <2>1, <2>2, ReferenceList
  <2>. QED BY <1>1, <1>3, <1>6, <2>3 DEF TemplateMessage
<1>8. PICK res : res = search_results[j] OBVIOUS
<1>9. res.found # None
  <2>. SUFFICES ASSUME res.found = None PROVE FALSE
    OBVIOUS
  <2>1. PICK n : n = get_plural_count(lists[1]) OBVIOUS
  <2>2. n \in Nat \ {0}
    <3>1. ListRead(lists[1]) BY <1>1
    <3>. QED BY <2>1, <3>1, PluralCount
  <2>3. m = Missing(r, n)
    <3>1. Merged(j) = [msg |-> Missing(r, n), problem |-> 0] BY <1>3, <1>8, <2>1 DEF Merged
    <3>. QED BY <3>1
  <2>. QED BY <1>4, <1>7, <2>2, <2>3, MissingUntranslated
<1>10. PICK f : f = res.found OBVIOUS
<1>11. PICK d : d = lists[f[1]][f[2]] OBVIOUS
<1>12. m = message_merge(d, r, res.fuzzy)
  <2>1. Merged(j) = [msg |-> message_merge(d, r, res.fuzzy), problem |-> Problem(d, r)]
    BY <1>3, <1>8, <1>9, <1>10, <1>11 DEF Merged
  <2>. QED BY <2>1
<1>13. At(lists, f) BY <1>8, <1>9, <1>10, MergedOne
<1>14. IsRead(d) BY <1>1, <1>11, <1>13, ListFacts DEF At
<1>15. MergeOf(m, d, r, res.fuzzy) BY <1>2, <1>4, <1>12, <1>14, MergeMakes
<1>16. /\ m.str = d.str /\ m.plural = r.plural /\ m.format = r.format /\ m.range = r.range
       /\ ~d.fuzzy /\ ~res.fuzzy /\ ~Unfit(d, r, d.str)
  BY <1>6, <1>15 DEF MergeOf
<1>17. Translated(d) BY <1>16 DEF Translated
<1>18. f = message_list_list_search(lists, refmlp[j].id)
  BY <1>1, <1>8, <1>9, <1>10, <1>16, AloneFound
<1>19. /\ r.plural = d.plural
       /\ r.format /\ ~d.format => ~FormatErrors(r.plural, d.str, r.range)
       /\ d.range = NoRange \/ Subrange(r.range, d.range)
  BY <1>16 DEF Unfit
<1>20. Accepted(d)
  BY <1>3, <1>9, <1>10, <1>11, <1>16, <1>17, <1>18, <1>19, DefinitionAccepted
<1>21. m.format => ~FormatErrors(m.plural, m.str, m.range)
  <2>1. CASE d.format
    <3>1. ~FormatErrors(d.plural, d.str, d.range) BY <1>20, <2>1 DEF Accepted
    <3>2. /\ r.range = NoRange \/ r.range \in Nat \X Nat
          /\ d.range = NoRange \/ d.range \in Nat \X Nat
      BY <1>4, <1>14 DEF IsRead
    <3>3. ~FormatErrors(d.plural, d.str, r.range) BY <1>19, <3>1, <3>2, FormatOfSubrange
    <3>. QED BY <1>16, <1>19, <3>3
  <2>2. CASE ~d.format BY <1>16, <1>19, <2>2
  <2>. QED BY <2>1, <2>2
<1>22. m.plural # NoPlural => HeaderDeclares(Len(m.str)) BY <1>16, <1>19, <1>20 DEF Accepted
<1>. QED BY <1>21, <1>22 DEF Accepted

(* The list of a pass: its messages differ, and are accepted if those of    *)
(* def.po are.                                                              *)
Compiled(l) ==
  /\ ListRead(l) /\ DistinctIds(l)
  /\ WellFormed => Correct(l)
  /\ \A k \in 1..Len(l) : \E j \in 1..Len(refmlp) : l[k].id = refmlp[j].id
  /\ result' = AppendTo(result, Passes[pass].domain, l)

LEMMA PassCompiled ==
  ASSUME MergeInv, KeepInv, MergePass
  PROVE  \E l : Compiled(l)
<1>1. /\ phase = "search" /\ next > Len(search_results)
      /\ \A t \in MergeThreads : mergepc[t] = "idle"
  BY DEF MergePass
<1>2. \A j \in 1..Len(refmlp) : search_results[j] = SearchAlone(j) BY <1>1, SearchDone
<1>3. /\ Len(lists) \in Nat /\ Len(lists) >= 1
      /\ \A l \in 1..Len(lists) : ListRead(lists[l]) /\ Len(lists[l]) \in Nat
      /\ ListRead(refmlp) /\ pass \in 1..Len(Passes) /\ refmlp = RefList(pass)
  BY <1>1, ListsOfPass
<1>4. args \in Inputs BY DEF MergeInv
<1>5. /\ DistinctIds(refmlp)
      /\ \E i \in 1..Len(refmlp) : is_header(refmlp[i])
      /\ WellFormed => \A i \in 1..Len(refmlp) : TemplateMessage(refmlp[i])
  <2>1. args.multi_domain \/ pass \in 1..Len(args.ref)
    BY <1>3, PassFacts DEF MergeInv, KeepInv, FilesInv
  <2>. QED BY <1>3, <1>4, <2>1, ReferenceList DEF WellFormed, Suitable
<1>6. PICK f, e, l : MadeBy(f, e, l) BY PassMade
<1>7. /\ IsSeq(e) /\ f \in [1..Len(e) -> 1..Len(refmlp)]
      /\ \A k \in 1..Len(e) : /\ e[k] = Merged(f[k])
                              /\ search_results[f[k]].found # None \/ ~is_header(refmlp[f[k]])
      /\ \A k, n \in 1..Len(e) : f[k] = f[n] => k = n
      /\ \A j \in 1..Len(refmlp) :
           search_results[j].found # None => \E k \in 1..Len(e) : f[k] = j
      /\ l = Postprocessed(e) /\ ListRead(l) /\ Len(l) = Len(e)
      /\ \A k \in 1..Len(e) : l[k].id = e[k].msg.id
      /\ result' = AppendTo(result, Passes[pass].domain, l)
  BY <1>6 DEF MadeBy
<1>8. PICK n : n = get_plural_count([i \in 1..Len(e) |-> e[i].msg]) OBVIOUS
<1>9. \A k \in 1..Len(e) : l[k] = DropPrev(Repaired(e[k], n)) BY <1>7, <1>8 DEF Postprocessed
<1>10. ASSUME NEW k \in 1..Len(e)
       PROVE  /\ f[k] \in 1..Len(refmlp) /\ l[k].id = refmlp[f[k]].id
              /\ is_header(l[k]) <=> is_header(refmlp[f[k]])
              /\ is_header(e[k].msg) <=> is_header(refmlp[f[k]])
              /\ is_header(l[k]) \/ ~l[k].fuzzy => AsMerged(l[k], Merged(f[k]).msg)
  <2>1. PICK j \in 1..Len(refmlp) : j = f[k] BY <1>7
  <2>2. search_results[j].found # None \/ ~is_header(refmlp[j]) BY <1>7, <2>1
  <2>3. IsRead(Merged(j).msg) /\ Merged(j).msg.id = refmlp[j].id
        /\ (is_header(Merged(j).msg) => Merged(j).problem = 0)
    BY <1>1, <1>2, <2>2, MergedOne
  <2>4. PICK x : x = e[k] OBVIOUS
  <2>5. IsRead(x.msg) /\ x.msg.id = refmlp[j].id /\ (is_header(x.msg) => x.problem = 0)
        /\ x = Merged(j)
    BY <1>7, <2>1, <2>3, <2>4
  <2>6. l[k].id = x.msg.id BY <1>7, <2>4
  <2>7. (is_header(l[k]) <=> is_header(x.msg)) /\ (is_header(l[k]) <=> is_header(refmlp[j]))
    BY <2>5, <2>6 DEF is_header
  <2>8. is_header(l[k]) \/ ~l[k].fuzzy => AsMerged(l[k], x.msg)
    BY <1>9, <2>4, <2>5, <2>7, Unrepaired
  <2>. QED BY <2>1, <2>4, <2>5, <2>6, <2>7, <2>8
<1>11. DistinctIds(l)
  <2>1. ASSUME NEW k \in 1..Len(l), NEW m \in 1..Len(l), l[k].id = l[m].id PROVE k = m
    <3>1. k \in 1..Len(e) /\ m \in 1..Len(e) BY <1>7
    <3>2. PICK i \in 1..Len(refmlp) : i = f[k] /\ l[k].id = refmlp[i].id BY <1>10, <3>1
    <3>3. PICK j \in 1..Len(refmlp) : j = f[m] /\ l[m].id = refmlp[j].id BY <1>10, <3>1
    <3>4. i = j BY <1>5, <2>1, <3>2, <3>3 DEF DistinctIds
    <3>5. \A a, b \in 1..Len(e) : f[a] = f[b] => a = b BY <1>7
    <3>. QED BY <3>1, <3>2, <3>3, <3>4, <3>5
  <2>. QED BY <2>1 DEF DistinctIds
<1>12. ASSUME NEW k \in 1..Len(e), is_header(l[k])
       PROVE  \E h : /\ h = HeaderPlace /\ h # None
                     /\ l[k].format = refmlp[f[k]].format
                     /\ l[k].obsolete = refmlp[f[k]].obsolete
                     /\ l[k].hdr.nplurals = lists[h[1]][h[2]].hdr.nplurals
                     /\ Translated(lists[h[1]][h[2]]) => Translated(l[k])
  <2>1. PICK j \in 1..Len(refmlp) : j = f[k] BY <1>7
  <2>2. PICK r : r = refmlp[j] OBVIOUS
  <2>3. is_header(r) BY <1>10, <1>12, <2>1, <2>2
  <2>4. search_results[j].found # None BY <1>7, <2>1, <2>2, <2>3
  <2>5. search_results[j].found = HeaderPlace
    <3>1. /\ search_results[j].found = message_list_list_search(lists, refmlp[j].id)
          \/ ~is_header(refmlp[j])
      BY <1>2, <1>3, <2>4, AloneFound
    <3>. QED BY <2>2, <2>3, <3>1 DEF HeaderPlace, is_header
  <2>6. PICK h : h = HeaderPlace OBVIOUS
  <2>7. PICK d : d = lists[h[1]][h[2]] OBVIOUS
  <2>8. PICK m : m = Merged(j).msg OBVIOUS
  <2>9. d = Definition(j) BY <2>5, <2>6, <2>7 DEF Definition
  <2>10. At(lists, h) /\ (Translated(d) => SameText(d, m))
    BY <1>1, <1>2, <2>4, <2>5, <2>6, <2>8, <2>9, MergedOne
  <2>11. IsRead(d) /\ IsRead(r) BY <1>3, <2>2, <2>7, <2>10, ListFacts DEF At
  <2>12. PICK z : z = search_results[j].fuzzy OBVIOUS
  <2>13. m = message_merge(d, r, z)
    <3>1. Merged(j) = [msg |-> message_merge(d, r, z), problem |-> Problem(d, r)]
      BY <2>2, <2>4, <2>5, <2>6, <2>7, <2>12 DEF Merged
    <3>. QED BY <2>8, <3>1
  <2>14. MergeOf(m, d, r, z) BY <1>4, <2>11, <2>13, MergeMakes
  <2>15. AsMerged(l[k], m) BY <1>10, <1>12, <2>1, <2>8
  <2>16. l[k].format = r.format /\ l[k].obsolete = r.obsolete
    BY <2>14, <2>15 DEF MergeOf, AsMerged
  <2>17. l[k].hdr.nplurals = d.hdr.nplurals BY <2>3, <2>14, <2>15 DEF MergeOf, AsMerged
  <2>18. Translated(d) => Translated(l[k]) BY <2>10, <2>15 DEF SameText, AsMerged, Translated
  <2>. QED BY <2>1, <2>2, <2>4, <2>5, <2>6, <2>7, <2>16, <2>17, <2>18
<1>13. ASSUME WellFormed, NEW c, HeaderDeclares(c) PROVE \E h : Declares(l, h, c)
  <2>1. PICK j \in 1..Len(refmlp) : is_header(refmlp[j]) BY <1>5
  <2>2. HeaderPlace # None /\ refmlp[j].id = Header BY <1>13, <2>1 DEF HeaderDeclares, is_header
  <2>3. search_results[j].found # None
    <3>1. message_list_list_search(lists, refmlp[j].id) # None BY <2>2 DEF HeaderPlace
    <3>2. PICK x : x = message_list_list_search(lists, refmlp[j].id) OBVIOUS
    <3>3. SearchAlone(j) = [found |-> x, fuzzy |-> FALSE] BY <3>1, <3>2 DEF SearchAlone
    <3>4. SearchAlone(j).found = x BY <3>3
    <3>. QED BY <1>2, <3>1, <3>2, <3>4
  <2>4. PICK k \in 1..Len(e) : f[k] = j BY <1>7, <2>3
  <2>5. is_header(l[k]) BY <1>10, <2>1, <2>4
  <2>6. /\ l[k].obsolete = refmlp[j].obsolete
        /\ l[k].hdr.nplurals = c /\ Translated(l[k])
    BY <1>12, <1>13, <2>4, <2>5 DEF HeaderDeclares
  <2>7. ~refmlp[j].obsolete BY <1>5, <1>13, <2>1 DEF TemplateMessage
  <2>8. k \in Checked(l) BY <1>7, <2>5, <2>6, <2>7 DEF Checked
  <2>. QED BY <2>5, <2>6, <2>8 DEF Declares
<1>14. ASSUME WellFormed, NEW k \in Checked(l) PROVE Unfailing(l, l[k])
  <2>1. /\ k \in 1..Len(e) /\ Translated(l[k])
        /\ l[k].fuzzy => is_header(l[k])
    BY <1>7 DEF Checked
  <2>2. PICK m : m = l[k] OBVIOUS
  <2>3. CASE is_header(m)
    <3>1. ~m.format
      <4>1. m.format = refmlp[f[k]].format BY <1>12, <2>1, <2>2, <2>3
      <4>2. f[k] \in 1..Len(refmlp) /\ is_header(refmlp[f[k]]) BY <1>10, <2>1, <2>2, <2>3
      <4>3. ~refmlp[f[k]].format BY <1>5, <1>14, <4>2 DEF TemplateMessage
      <4>. QED BY <4>1, <4>3
    <3>2. m.plural = NoPlural
      <4>1. IsRead(m) BY <1>7, <2>1, <2>2, ListFacts
      <4>. QED BY <2>3, <4>1 DEF IsRead
    <3>. QED BY <2>2, <3>1, <3>2 DEF Unfailing
  <2>4. CASE ~is_header(m)
    <3>1. PICK j \in 1..Len(refmlp) : j = f[k] BY <1>7, <2>1
    <3>2. PICK o : o = Merged(j).msg OBVIOUS
    <3>3. AsMerged(m, o) BY <1>10, <2>1, <2>2, <2>4, <3>1, <3>2
    <3>4. search_results[j].found # None \/ ~is_header(refmlp[j]) BY <1>7, <2>1, <3>1
    <3>5. Translated(o) /\ ~is_header(o) /\ ~o.fuzzy
      BY <2>1, <2>2, <2>4, <3>3 DEF AsMerged, Translated, is_header
    <3>6. Accepted(o) BY <1>1, <1>2, <1>14, <3>2, <3>4, <3>5, MergedAccepted
    <3>7. m.plural = o.plural /\ m.str = o.str /\ m.format = o.format /\ m.range = o.range
      BY <3>3 DEF AsMerged
    <3>8. m.plural # NoPlural => \E h : Declares(l, h, Len(m.str))
      BY <1>13, <1>14, <3>6, <3>7 DEF Accepted
    <3>9. m.format => ~FormatErrors(m.plural, m.str, m.range) BY <3>6, <3>7 DEF Accepted
    <3>. QED BY <2>2, <3>8, <3>9 DEF Unfailing
  <2>. QED BY <2>3, <2>4
<1>15. Compiled(l)
  <2>1. \A k \in 1..Len(l) : \E j \in 1..Len(refmlp) : l[k].id = refmlp[j].id BY <1>7, <1>10
  <2>. QED BY <1>7, <1>11, <1>14, <2>1 DEF Compiled, Correct
<1>. QED BY <1>15

(* Every list of the result has a printable message once, and is accepted   *)
(* if def.po and the reference are as they should be.                       *)
SoundInv ==
  \A r \in 1..Len(result) :
    /\ OnceEach(result[r].messages)
    /\ WellFormed => Correct(result[r].messages)

(* The lists of the domains of later passes are still empty.                *)
IsAhead(p) ==
  \A r \in 1..Len(result) :
    result[r].domain = Passes[p].domain => result[r].messages = <<>>

AheadInv ==
  /\ phase = "set" => \A p \in 1..Len(Passes) : p > pass => IsAhead(p)
  /\ phase = "search" => \A p \in 1..Len(Passes) : p >= pass => IsAhead(p)

(* A translated definition whose message is in the list of its domain was   *)
(* used.                                                                    *)
TakenIn(d) ==
  \A r \in 1..Len(result) :
    result[r].domain = def[d].domain =>
      \A n \in 1..Len(result[r].messages), i \in 1..Len(def[d].messages) :
        Translated(def[d].messages[i]) /\ result[r].messages[n].id = def[d].messages[i].id
        => <<d, i>> \in used

TakenInv ==
  /\ phase \in {"set", "search"} => \A d \in 1..Len(def) : TakenIn(d)
  /\ phase = "obsolete" => \A d \in 1..Len(def) : d >= next => TakenIn(d)

CheckInv == Unique(file) /\ Unique(def) /\ SoundInv /\ AheadInv /\ TakenInv

LEMMA WellFormedKept ==
  ASSUME UNCHANGED <<args, def>>
  PROVE  WellFormed' <=> WellFormed
<1>1. Passes' = Passes /\ \A p : DefList(p)' = DefList(p) /\ RefList(p)' = RefList(p)
  BY PassesKept
<1>2. ASSUME NEW p PROVE Reliable(p)' <=> Reliable(p)
  <2>1. DefList(p)' = DefList(p) /\ RefList(p)' = RefList(p) /\ args' = args BY <1>1
  <2>. QED BY <2>1, Zenon DEF Reliable
<1>3. IsTemplate' <=> IsTemplate BY DEF IsTemplate
<1>4. Suitable' <=> Suitable BY <1>1, <1>2, <1>3 DEF Suitable
<1>. QED BY <1>4 DEF WellFormed

LEMMA EmptyAccepted == DistinctIds(<<>>) /\ OnceEach(<<>>) /\ Correct(<<>>)
<1>1. Len(<<>>) = 0 BY Empty
<1>. QED BY <1>1 DEF DistinctIds, OnceEach, Correct, Checked, Printable

LEMMA DistinctOnce ==
  ASSUME NEW l, DistinctIds(l)
  PROVE  OnceEach(l)
BY DEF DistinctIds, OnceEach, Printable

LEMMA CheckedStays ==
  ASSUME CheckInv, UNCHANGED <<args, file, def, result, used, phase, pass>>,
         phase = "obsolete" => next' = next
  PROVE  CheckInv'
<1>1. WellFormed' <=> WellFormed BY WellFormedKept
<1>2. Passes' = Passes BY PassesKept
<1>3. \A p : IsAhead(p)' <=> IsAhead(p) BY <1>2 DEF IsAhead
<1>4. \A d : TakenIn(d)' <=> TakenIn(d) BY DEF TakenIn
<1>5. SoundInv' BY <1>1 DEF CheckInv, SoundInv
<1>6. AheadInv' BY <1>2, <1>3 DEF CheckInv, AheadInv
<1>7. TakenInv' BY <1>4 DEF CheckInv, TakenInv
<1>8. Unique(file)' /\ Unique(def)' BY DEF CheckInv, Unique
<1>. QED BY <1>5, <1>6, <1>7, <1>8 DEF CheckInv

(* The begin of a pass.                                                     *)
LEMMA SetCurrentListChecks ==
  ASSUME MergeInv, KeepInv, CheckInv, SetCurrentList
  PROVE  CheckInv'
<1>1. /\ phase = "set" /\ phase' = "search" /\ pass' = pass + 1
      /\ result' = AppendTo(result, Passes[pass + 1].domain, <<>>)
      /\ UNCHANGED <<args, file, def, used>>
  BY DEF SetCurrentList, data
<1>2. PICK d : d = Passes[pass + 1].domain OBVIOUS
<1>3. Extended(result', result, d, <<>>)
  BY <1>1, <1>2, NoMessages, ResultExtends DEF KeepInv
<1>4. IsCatalog(result) /\ Len(result) \in Nat BY Catalogs DEF KeepInv, FilesInv
<1>5. ASSUME NEW k \in 1..Len(result'), result'[k].messages # <<>>
      PROVE  /\ k \in 1..Len(result) /\ result'[k].domain = result[k].domain
             /\ result'[k].messages = result[k].messages
  <2>1. \/ Untouched(result', result, d, k) \/ Longer(result', result, d, <<>>, k)
        \/ Created(result', result, d, <<>>, k)
    BY <1>3 DEF Extended
  <2>2. CASE Untouched(result', result, d, k) BY <2>2 DEF Untouched
  <2>3. CASE Longer(result', result, d, <<>>, k)
    <3>1. PICK l : l = result[k].messages OBVIOUS
    <3>2. k \in 1..Len(result) /\ result[k].domain = d /\ result'[k].domain = d
          /\ result'[k].messages = l \o <<>>
      BY <2>3, <3>1 DEF Longer
    <3>3. IsSeq(l)
      <4>1. ListRead(l) BY <1>4, <3>1, <3>2, Catalogs
      <4>. QED BY <4>1, ListFacts
    <3>4. l \o <<>> = l BY <3>3 DEF IsSeq
    <3>. QED BY <3>1, <3>2, <3>4
  <2>4. CASE Created(result', result, d, <<>>, k) BY <1>5, <2>4 DEF Created
  <2>. QED BY <2>1, <2>2, <2>3, <2>4
<1>6. WellFormed' <=> WellFormed BY <1>1, WellFormedKept
<1>7. Passes' = Passes BY <1>1, PassesKept
<1>8. SoundInv'
  <2>1. ASSUME NEW k \in 1..Len(result')
        PROVE  /\ OnceEach(result'[k].messages)
               /\ WellFormed => Correct(result'[k].messages)
    <3>1. CASE result'[k].messages = <<>> BY <3>1, EmptyAccepted
    <3>2. CASE result'[k].messages # <<>> BY <1>5, <3>2 DEF CheckInv, SoundInv
    <3>. QED BY <3>1, <3>2
  <2>. QED BY <1>6, <2>1 DEF SoundInv
<1>9. AheadInv'
  <2>1. ASSUME NEW p \in 1..Len(Passes), p >= pass + 1 PROVE IsAhead(p)'
    <3>1. p > pass BY <2>1 DEF MergeInv
    <3>2. IsAhead(p) BY <1>1, <3>1 DEF CheckInv, AheadInv
    <3>3. ASSUME NEW k \in 1..Len(result'), result'[k].domain = Passes[p].domain
          PROVE  result'[k].messages = <<>>
      BY <1>5, <3>2, <3>3 DEF IsAhead
    <3>. QED BY <1>7, <3>3 DEF IsAhead
  <2>. QED BY <1>1, <1>7, <2>1 DEF AheadInv
<1>10. TakenInv'
  <2>1. ASSUME NEW x \in 1..Len(def) PROVE TakenIn(x)'
    <3>1. TakenIn(x) BY <1>1 DEF CheckInv, TakenInv
    <3>2. ASSUME NEW k \in 1..Len(result'), result'[k].domain = def[x].domain,
                 NEW n \in 1..Len(result'[k].messages), NEW i \in 1..Len(def[x].messages),
                 Translated(def[x].messages[i]),
                 result'[k].messages[n].id = def[x].messages[i].id
          PROVE  <<x, i>> \in used
      <4>1. result'[k].messages # <<>>
        <5>1. Len(<<>>) = 0 BY Empty
        <5>. QED BY <3>2, <5>1
      <4>. QED BY <1>5, <3>1, <3>2, <4>1 DEF TakenIn
    <3>. QED BY <1>1, <3>2 DEF TakenIn
  <2>. QED BY <1>1, <2>1 DEF TakenInv
<1>11. Unique(file)' /\ Unique(def)' BY <1>1 DEF CheckInv, Unique
<1>. QED BY <1>8, <1>9, <1>10, <1>11 DEF CheckInv

(* Its end.                                                                 *)
LEMMA MergePassChecks ==
  ASSUME MergeInv, KeepInv, CheckInv, MergePass
  PROVE  CheckInv'
<1>1. /\ phase = "search" /\ next > Len(search_results)
      /\ \A t \in MergeThreads : mergepc[t] = "idle"
      /\ phase' = "set" /\ pass' = pass
      /\ UNCHANGED <<args, file, def>>
      /\ used' = used \cup { <<Passes[pass].def, search_results[j].found[2]>> :
                               j \in { j \in 1..Len(search_results) : search_results[j].found[1] = 1 } }
  BY DEF MergePass, data
<1>2. /\ Len(search_results) = Len(refmlp)
      /\ \A j \in 1..Len(refmlp) : search_results[j] = SearchAlone(j)
  BY <1>1, SearchDone
<1>3. /\ Len(lists) \in Nat /\ Len(lists) >= 1 /\ lists[1] = DefList(pass)
      /\ \A l \in 1..Len(lists) : Len(lists[l]) \in Nat
      /\ pass \in 1..Len(Passes)
  BY <1>1, ListsOfPass
<1>4. args \in Inputs /\ IsCatalog(def) /\ def # <<>> /\ IsCatalog(result)
  BY DEF MergeInv, KeepInv, FilesInv
<1>5. PICK l : Compiled(l) BY PassCompiled
<1>6. PICK D : D = Passes[pass].domain OBVIOUS
<1>7. /\ ListRead(l) /\ DistinctIds(l) /\ (WellFormed => Correct(l))
      /\ \A k \in 1..Len(l) : \E j \in 1..Len(refmlp) : l[k].id = refmlp[j].id
      /\ result' = AppendTo(result, D, l)
  BY <1>5, <1>6 DEF Compiled
<1>8. Extended(result', result, D, l) BY <1>1, <1>7, ResultExtends DEF KeepInv
<1>9. IsAhead(pass) BY <1>1, <1>3 DEF CheckInv, AheadInv
<1>10. ASSUME NEW k \in 1..Len(result')
       PROVE  \/ k \in 1..Len(result) /\ result[k].domain # D /\ result'[k] = result[k]
              \/ result'[k].domain = D /\ result'[k].messages = l
  <2>1. \/ Untouched(result', result, D, k) \/ Longer(result', result, D, l, k)
        \/ Created(result', result, D, l, k)
    BY <1>8 DEF Extended
  <2>2. CASE Untouched(result', result, D, k) BY <2>2 DEF Untouched
  <2>3. CASE Longer(result', result, D, l, k)
    <3>1. /\ result[k].messages = <<>> /\ result'[k].domain = D
          /\ result'[k].messages = result[k].messages \o l
      BY <1>6, <1>9, <2>3 DEF Longer, IsAhead
    <3>2. <<>> \o l = l
      <4>1. IsSeq(l) BY <1>7, ListFacts
      <4>. QED BY <4>1 DEF IsSeq
    <3>. QED BY <3>1, <3>2
  <2>4. CASE Created(result', result, D, l, k) BY <2>4 DEF Created
  <2>. QED BY <2>1, <2>2, <2>3, <2>4
<1>11. WellFormed' <=> WellFormed BY <1>1, WellFormedKept
<1>12. Passes' = Passes BY <1>1, PassesKept
<1>13. SoundInv'
  <2>1. ASSUME NEW k \in 1..Len(result')
        PROVE  /\ OnceEach(result'[k].messages)
               /\ WellFormed => Correct(result'[k].messages)
    <3>1. CASE k \in 1..Len(result) /\ result'[k] = result[k] BY <3>1 DEF CheckInv, SoundInv
    <3>2. CASE result'[k].messages = l BY <1>7, <3>2, DistinctOnce
    <3>. QED BY <1>10, <3>1, <3>2
  <2>. QED BY <1>11, <2>1 DEF SoundInv
<1>14. AheadInv'
  <2>1. ASSUME NEW p \in 1..Len(Passes), p > pass PROVE IsAhead(p)'
    <3>1. pass \in Nat BY DEF MergeInv
    <3>2. Passes[p].domain # D
      <4>1. p # pass BY <2>1, <3>1
      <4>. QED BY <1>3, <1>4, <1>6, <4>1, PassDomains
    <3>3. IsAhead(p)
      <4>1. p >= pass
        <5>1. Len(Passes) \in Nat BY <1>4, PassFacts
        <5>. QED BY <2>1, <3>1, <5>1
      <4>. QED BY <1>1, <4>1 DEF CheckInv, AheadInv
    <3>4. ASSUME NEW k \in 1..Len(result'), result'[k].domain = Passes[p].domain
          PROVE  result'[k].messages = <<>>
      BY <1>10, <3>2, <3>3, <3>4 DEF IsAhead
    <3>. QED BY <1>12, <3>4 DEF IsAhead
  <2>. QED BY <1>1, <1>12, <2>1 DEF AheadInv
<1>15. ASSUME NEW d \in 1..Len(def), D = def[d].domain, NEW j \in 1..Len(refmlp),
              NEW i \in 1..Len(def[d].messages), Translated(def[d].messages[i]),
              refmlp[j].id = def[d].messages[i].id
       PROVE  <<d, i>> \in used'
  <2>1. Passes[pass].def = d BY <1>3, <1>4, <1>6, <1>15, PassFacts
  <2>2. lists[1] = def[d].messages
    <3>1. Len(def) \in Nat BY <1>4, Catalogs
    <3>2. d # 0 BY <3>1
    <3>. QED BY <1>3, <2>1, <3>2 DEF DefList
  <2>3. DistinctIds(lists[1]) BY <2>2 DEF CheckInv, Unique
  <2>4. message_list_list_search(lists, lists[1][i].id) = <<1, i>>
    BY <1>3, <1>15, <2>2, <2>3, ExactIsDefinition
  <2>5. PICK x : x = <<1, i>> OBVIOUS
  <2>6. x[1] = 1 /\ x[2] = i /\ x # None BY <2>5 DEF None
  <2>7. message_list_list_search(lists, refmlp[j].id) = x BY <1>15, <2>2, <2>4, <2>5
  <2>8. SearchAlone(j) = [found |-> x, fuzzy |-> FALSE] BY <2>6, <2>7 DEF SearchAlone
  <2>9. search_results[j].found = x BY <1>2, <2>8
  <2>10. search_results[j].found[1] = 1 /\ search_results[j].found[2] = i BY <2>6, <2>9
  <2>. QED BY <1>1, <1>2, <2>1, <2>10
<1>16. TakenInv'
  <2>1. ASSUME NEW d \in 1..Len(def) PROVE TakenIn(d)'
    <3>1. TakenIn(d) BY <1>1 DEF CheckInv, TakenInv
    <3>2. ASSUME NEW k \in 1..Len(result'), result'[k].domain = def[d].domain,
                 NEW n \in 1..Len(result'[k].messages), NEW i \in 1..Len(def[d].messages),
                 Translated(def[d].messages[i]),
                 result'[k].messages[n].id = def[d].messages[i].id
          PROVE  <<d, i>> \in used'
      <4>1. CASE k \in 1..Len(result) /\ result'[k] = result[k]
        <5>1. <<d, i>> \in used BY <3>1, <3>2, <4>1 DEF TakenIn
        <5>. QED BY <1>1, <5>1
      <4>2. CASE result'[k].domain = D /\ result'[k].messages = l
        <5>1. PICK j \in 1..Len(refmlp) : l[n].id = refmlp[j].id BY <1>7, <3>2, <4>2
        <5>. QED BY <1>15, <3>2, <4>2, <5>1
      <4>. QED BY <1>10, <4>1, <4>2
    <3>. QED BY <1>1, <3>2 DEF TakenIn
  <2>. QED BY <1>1, <2>1 DEF TakenInv
<1>17. Unique(file)' /\ Unique(def)' BY <1>1 DEF CheckInv, Unique
<1>. QED BY <1>13, <1>14, <1>16, <1>17 DEF CheckInv

(* The unused definitions of a domain.                                      *)
Leftovers(u, d) ==
  /\ ListRead(u) /\ DistinctIds(u)
  /\ \A k \in 1..Len(u) :
       /\ u[k].obsolete
       /\ \E i \in 1..Len(def[d].messages) :
            /\ <<d, i>> \notin used
            /\ u[k].id = def[d].messages[i].id /\ u[k].str = def[d].messages[i].str

LEMMA UnusedFacts ==
  ASSUME IsCatalog(def), Unique(def), NEW d \in 1..Len(def)
  PROVE  Leftovers(Unused(d), d)
<1>1. PICK ms : ms = def[d].messages OBVIOUS
<1>2. Len(ms) \in Nat /\ \A i \in 1..Len(ms) : IsRead(ms[i])
  <2>1. ListRead(ms) BY <1>1, Catalogs
  <2>. QED BY <2>1, ListFacts
<1>3. DistinctIds(ms) BY <1>1 DEF Unique
<1>4. PICK s : s = [i \in 1..Len(ms) |-> [message_copy(ms[i]) EXCEPT !.obsolete = TRUE]] OBVIOUS
<1>. DEFINE I == { i \in 1..Len(ms) : <<d, i>> \notin used }
<1>5. PICK u : u = Unused(d) OBVIOUS
<1>6. u = ElementsAt(s, I) BY <1>1, <1>4, <1>5 DEF Unused
<1>7. ASSUME NEW i \in 1..Len(ms)
      PROVE  IsRead(s[i]) /\ s[i].obsolete /\ s[i].id = ms[i].id /\ s[i].str = ms[i].str
  <2>1. PICK m : m = ms[i] OBVIOUS
  <2>2. PICK c : c = message_copy(m) OBVIOUS
  <2>3. PICK o : o = [c EXCEPT !.obsolete = TRUE] OBVIOUS
  <2>4. s[i] = o BY <1>4, <2>1, <2>2, <2>3
  <2>5. IsRead(m) /\ DOMAIN m = MessageFields BY <1>2, <2>1 DEF IsRead
  <2>6. /\ DOMAIN c = MessageFields /\ c.str = m.str /\ c.id = m.id /\ c.hdr = m.hdr
        /\ c.range = m.range /\ c.plural = m.plural
    BY <2>2, <2>5 DEF message_copy, MessageFields
  <2>7. /\ DOMAIN o = MessageFields /\ o.str = c.str /\ o.id = c.id /\ o.hdr = c.hdr
        /\ o.range = c.range /\ o.plural = c.plural /\ o.obsolete = TRUE
    BY <2>3, <2>6 DEF MessageFields
  <2>8. IsRead(o)
    <3>1. IsRead(c) BY <2>5, <2>6, FieldChanged
    <3>. QED BY <2>7, <3>1, FieldChanged
  <2>. QED BY <2>1, <2>4, <2>6, <2>7, <2>8
<1>8. s = [i \in 1..Len(ms) |-> s[i]] BY <1>4
<1>9. ListRead(s) /\ Len(s) = Len(ms) /\ IsSeq(s) BY <1>2, <1>7, <1>8, ListMade, ListFacts
<1>10. I \in SUBSET (1..Len(s)) /\ \A i \in I : i \in 1..Len(ms) /\ <<d, i>> \notin used BY <1>9
<1>. HIDE DEF I
<1>11. ListRead(u) BY <1>6, <1>9, <1>10, ListChosen
<1>12. PICK f : Chooses(f, u, s, I) BY <1>6, <1>9, <1>10, Chosen
<1>13. ASSUME NEW k \in 1..Len(u)
       PROVE  /\ f[k] \in 1..Len(ms) /\ <<d, f[k]>> \notin used /\ u[k].obsolete
              /\ u[k].id = ms[f[k]].id /\ u[k].str = ms[f[k]].str
  <2>1. PICK i \in I : i = f[k] /\ u[k] = s[i] BY <1>12 DEF Chooses
  <2>2. i \in 1..Len(ms) /\ <<d, i>> \notin used BY <1>10
  <2>. QED BY <1>7, <2>1, <2>2
<1>14. DistinctIds(u)
  <2>1. ASSUME NEW k \in 1..Len(u), NEW n \in 1..Len(u), u[k].id = u[n].id PROVE k = n
    <3>1. PICK i \in 1..Len(ms) : i = f[k] /\ u[k].id = ms[i].id BY <1>13
    <3>2. PICK j \in 1..Len(ms) : j = f[n] /\ u[n].id = ms[j].id BY <1>13
    <3>3. i = j BY <1>3, <2>1, <3>1, <3>2 DEF DistinctIds
    <3>. QED BY <1>12, <3>1, <3>2, <3>3 DEF Chooses
  <2>. QED BY <2>1 DEF DistinctIds
<1>15. \A k \in 1..Len(u) :
         /\ u[k].obsolete
         /\ \E i \in 1..Len(ms) : <<d, i>> \notin used /\ u[k].id = ms[i].id /\ u[k].str = ms[i].str
  BY <1>13
<1>16. Leftovers(u, d) BY <1>1, <1>11, <1>14, <1>15 DEF Leftovers
<1>. QED BY <1>5, <1>16

LEMMA KeepObsoleteChecks ==
  ASSUME MergeInv, KeepInv, CheckInv, KeepObsolete
  PROVE  CheckInv'
<1>1. /\ phase = "obsolete" /\ next <= Len(def) /\ next' = next + 1 /\ phase' = phase
      /\ UNCHANGED <<args, file, def, used>>
      /\ result' = IF Unused(next) = <<>> THEN result
                   ELSE AppendTo(result, def[next].domain, Unused(next))
  BY DEF KeepObsolete, data
<1>2. /\ IsCatalog(def) /\ IsCatalog(result) /\ Len(def) \in Nat
      /\ next \in 1..(Len(def) + 1)
  BY <1>1, Catalogs DEF KeepInv, FilesInv, ObsoleteInv
<1>3. PICK d : d = next OBVIOUS
<1>4. d \in 1..Len(def) BY <1>1, <1>2, <1>3
<1>5. PICK u : u = Unused(d) OBVIOUS
<1>6. Leftovers(u, d) BY <1>2, <1>4, <1>5, UnusedFacts DEF CheckInv
<1>7. TakenIn(d)
  <2>1. d >= next BY <1>2, <1>3
  <2>. QED BY <1>1, <1>4, <2>1 DEF CheckInv, TakenInv
<1>8. IsSeq(u) /\ OnceEach(u) /\ Correct(u) /\ \A k \in 1..Len(u) : u[k].obsolete
  <2>1. ListRead(u) /\ DistinctIds(u) /\ \A k \in 1..Len(u) : u[k].obsolete
    BY <1>6 DEF Leftovers
  <2>2. Correct(u) BY <2>1 DEF Correct, Checked
  <2>. QED BY <2>1, <2>2, DistinctOnce, ListFacts
<1>9. ASSUME NEW r \in 1..Len(result), result[r].domain = def[d].domain
      PROVE  /\ OnceEach(result[r].messages \o u)
             /\ WellFormed => Correct(result[r].messages \o u)
  <2>1. PICK l : l = result[r].messages OBVIOUS
  <2>2. OnceEach(l) /\ (WellFormed => Correct(l)) BY <2>1 DEF CheckInv, SoundInv
  <2>3. IsSeq(l)
    <3>1. ListRead(l) BY <1>2, <2>1, Catalogs
    <3>. QED BY <3>1, ListFacts
  <2>4. ASSUME NEW i \in 1..Len(l), NEW k \in 1..Len(u), Translated(u[k]) PROVE l[i].id # u[k].id
    <3>1. PICK n \in 1..Len(def[d].messages) :
            /\ <<d, n>> \notin used
            /\ u[k].id = def[d].messages[n].id /\ u[k].str = def[d].messages[n].str
      BY <1>6 DEF Leftovers
    <3>2. Translated(def[d].messages[n]) BY <2>4, <3>1 DEF Translated
    <3>. QED BY <1>7, <1>9, <2>1, <3>1, <3>2 DEF TakenIn
  <2>5. /\ Correct(l) => Correct(l \o u)
        /\ OnceEach(l \o u)
    BY <1>8, <2>2, <2>3, <2>4, ObsoleteAppended
  <2>. QED BY <2>1, <2>2, <2>5
<1>10. ASSUME NEW k \in 1..Len(result')
       PROVE  \/ k \in 1..Len(result) /\ result'[k] = result[k]
              \/ /\ result'[k].domain = def[d].domain
                 /\ OnceEach(result'[k].messages)
                 /\ WellFormed => Correct(result'[k].messages)
  <2>1. CASE u = <<>>
    <3>1. result' = result BY <1>1, <1>3, <1>5, <2>1
    <3>. QED BY <3>1
  <2>2. CASE u # <<>>
    <3>1. PICK D : D = def[d].domain OBVIOUS
    <3>2. result' = AppendTo(result, D, u) BY <1>1, <1>3, <1>5, <2>2, <3>1
    <3>3. Extended(result', result, D, u)
      BY <1>1, <1>6, <3>2, ResultExtends DEF KeepInv, Leftovers
    <3>4. \/ Untouched(result', result, D, k) \/ Longer(result', result, D, u, k)
          \/ Created(result', result, D, u, k)
      BY <3>3 DEF Extended
    <3>5. CASE Untouched(result', result, D, k) BY <3>5 DEF Untouched
    <3>6. CASE Longer(result', result, D, u, k) BY <1>9, <3>1, <3>6 DEF Longer
    <3>7. CASE Created(result', result, D, u, k) BY <1>8, <3>1, <3>7 DEF Created
    <3>. QED BY <3>4, <3>5, <3>6, <3>7
  <2>. QED BY <2>1, <2>2
<1>11. WellFormed' <=> WellFormed BY <1>1, WellFormedKept
<1>12. SoundInv'
  <2>1. ASSUME NEW k \in 1..Len(result')
        PROVE  /\ OnceEach(result'[k].messages)
               /\ WellFormed => Correct(result'[k].messages)
    <3>1. CASE k \in 1..Len(result) /\ result'[k] = result[k] BY <3>1 DEF CheckInv, SoundInv
    <3>. QED BY <1>10, <3>1
  <2>. QED BY <1>11, <2>1 DEF SoundInv
<1>13. AheadInv' BY <1>1 DEF AheadInv
<1>14. TakenInv'
  <2>1. ASSUME NEW e \in 1..Len(def), e >= next + 1 PROVE TakenIn(e)'
    <3>1. e >= next /\ e # d BY <1>2, <1>3, <2>1
    <3>2. TakenIn(e) BY <1>1, <3>1 DEF CheckInv, TakenInv
    <3>3. def[e].domain # def[d].domain BY <1>2, <1>4, <3>1, Catalogs
    <3>4. ASSUME NEW k \in 1..Len(result'), result'[k].domain = def[e].domain
          PROVE  k \in 1..Len(result) /\ result'[k] = result[k]
      BY <1>10, <3>3, <3>4
    <3>. QED BY <1>1, <3>2, <3>4 DEF TakenIn
  <2>. QED BY <1>1, <2>1 DEF TakenInv
<1>15. Unique(file)' /\ Unique(def)' BY <1>1 DEF CheckInv, Unique
<1>. QED BY <1>12, <1>13, <1>14, <1>15 DEF CheckInv

LEMMA DestroyChecks ==
  ASSUME CheckInv, DestroyDefinitions
  PROVE  CheckInv'
<1>1. /\ phase = "set" /\ phase' = "obsolete" /\ next' = 1
      /\ UNCHANGED <<args, file, def, result, used>>
  BY DEF DestroyDefinitions, data
<1>2. WellFormed' <=> WellFormed BY <1>1, WellFormedKept
<1>3. SoundInv' BY <1>1, <1>2 DEF CheckInv, SoundInv
<1>4. AheadInv' BY <1>1 DEF AheadInv
<1>5. \A d : TakenIn(d)' <=> TakenIn(d) BY <1>1 DEF TakenIn
<1>6. TakenInv' BY <1>1, <1>5 DEF CheckInv, TakenInv
<1>7. Unique(file)' /\ Unique(def)' BY <1>1 DEF CheckInv, Unique
<1>. QED BY <1>3, <1>4, <1>6, <1>7 DEF CheckInv

LEMMA EndMergeChecks ==
  ASSUME CheckInv, EndMerge
  PROVE  CheckInv'
<1>1. phase' = "write" /\ UNCHANGED <<args, file, def, result, used>>
  BY DEF EndMerge, data
<1>2. WellFormed' <=> WellFormed BY <1>1, WellFormedKept
<1>3. SoundInv' BY <1>1, <1>2 DEF CheckInv, SoundInv
<1>4. AheadInv' /\ TakenInv' BY <1>1 DEF AheadInv, TakenInv
<1>5. Unique(file)' /\ Unique(def)' BY <1>1 DEF CheckInv, Unique
<1>. QED BY <1>3, <1>4, <1>5 DEF CheckInv

LEMMA WriteChecks ==
  ASSUME KeepInv, CheckInv, Write
  PROVE  CheckInv'
<1>1. /\ phase' = "done" /\ UNCHANGED <<args, def, result, used>>
      /\ \/ file' = file
         \/ file' = [d \in 1..Len(result) |-> [result[d] EXCEPT !.messages = Printed(@)]]
  BY DEF Write
<1>2. WellFormed' <=> WellFormed BY <1>1, WellFormedKept
<1>3. SoundInv' BY <1>1, <1>2 DEF CheckInv, SoundInv
<1>4. AheadInv' /\ TakenInv' BY <1>1 DEF AheadInv, TakenInv
<1>5. Unique(def)' BY <1>1 DEF CheckInv, Unique
<1>6. Unique(file')
  <2>1. CASE file' = file BY <2>1 DEF CheckInv, Unique
  <2>2. CASE file' = [d \in 1..Len(result) |-> [result[d] EXCEPT !.messages = Printed(@)]]
    <3>1. Len(result) \in Nat
          /\ \A d \in 1..Len(result) : DOMAIN result[d] = {"domain", "messages"}
                                       /\ ListRead(result[d].messages)
      BY Catalogs DEF KeepInv, FilesInv
    <3>2. PICK c : c = file' OBVIOUS
    <3>3. Len(c) = Len(result) BY <2>2, <3>1, <3>2
    <3>4. ASSUME NEW d \in 1..Len(c) PROVE DistinctIds(c[d].messages)
      <4>1. PICK l : l = result[d].messages OBVIOUS
      <4>2. PICK p : p = Printed(l) OBVIOUS
      <4>3. ListRead(l) /\ OnceEach(l) BY <3>1, <3>3, <4>1 DEF CheckInv, SoundInv
      <4>4. DistinctIds(p) BY <4>2, <4>3, PrintedCorrect
      <4>5. c[d] = [result[d] EXCEPT !.messages = p] BY <2>2, <3>2, <3>3, <4>1, <4>2
      <4>6. c[d].messages = p BY <3>1, <3>3, <4>5
      <4>. QED BY <4>4, <4>6
    <3>. QED BY <3>2, <3>4 DEF Unique
  <2>. QED BY <1>1, <2>1, <2>2
<1>7. Unique(file)' BY <1>6 DEF Unique
<1>. QED BY <1>3, <1>4, <1>5, <1>7 DEF CheckInv

(* The reader keeps the messages of each domain.                            *)
LEMMA PositionedDistinct ==
  ASSUME NEW l, ListRead(l), DistinctIds(l), NEW d
  PROVE  DistinctIds(Positioned(l, d))
<1>1. Len(l) \in Nat /\ \A i \in 1..Len(l) : IsRead(l[i]) BY ListFacts
<1>2. PICK p : p = Positioned(l, d) OBVIOUS
<1>3. Len(p) = Len(l) BY <1>1, <1>2 DEF Positioned
<1>4. ASSUME NEW i \in 1..Len(l) PROVE p[i].id = l[i].id
  <2>1. PICK x : x = <<"def", d, i>> OBVIOUS
  <2>2. p[i] = [l[i] EXCEPT !.pos = x] BY <1>2, <2>1 DEF Positioned
  <2>3. DOMAIN l[i] = MessageFields BY <1>1 DEF IsRead
  <2>. QED BY <2>2, <2>3 DEF MessageFields
<1>5. DistinctIds(p) BY <1>3, <1>4 DEF DistinctIds
<1>. QED BY <1>2, <1>5

LEMMA ReadDistinct ==
  ASSUME NEW f, IsCatalog(f), Unique(f)
  PROVE  Unique(ReadCatalog(f))
<1>. DEFINE k == DomainIndex(f, DefaultDomain)
            default == [domain |-> DefaultDomain,
                        messages |-> IF k = 0 THEN <<>> ELSE f[k].messages]
            I == { n \in 1..Len(f) : f[n].domain # DefaultDomain /\ f[n].messages # <<>> }
            mdl == <<default>> \o ElementsAt(f, I)
<1>1. /\ IsSeq(f) /\ Len(f) \in Nat
      /\ \A d \in 1..Len(f) : DOMAIN f[d] = {"domain", "messages"} /\ ListRead(f[d].messages)
  BY Catalogs
<1>2. ReadCatalog(f) = [d \in 1..Len(mdl) |->
                          [mdl[d] EXCEPT !.messages = Positioned(@, d)]]
  BY Zenon DEF ReadCatalog, Positioned
<1>3. Found(k, Len(f), { i \in 1..Len(f) : f[i].domain = DefaultDomain }) BY <1>1, DomainFound
<1>. DEFINE Plain(x) == /\ DOMAIN x = {"domain", "messages"}
                        /\ ListRead(x.messages) /\ DistinctIds(x.messages)
<1>4. \A n \in 1..Len(f) : Plain(f[n]) BY <1>1 DEF Unique
<1>5. PICK a : a = default OBVIOUS
<1>6. Plain(a)
  <2>1. a.messages = IF k = 0 THEN <<>> ELSE f[k].messages BY <1>5
  <2>2. k # 0 => k \in 1..Len(f) BY <1>1, <1>3 DEF Found
  <2>3. DOMAIN a = {"domain", "messages"} BY <1>5
  <2>. HIDE DEF k
  <2>. QED BY <1>4, <2>1, <2>2, <2>3, NoMessages, EmptyAccepted
<1>7. I \in SUBSET (1..Len(f)) OBVIOUS
<1>. HIDE DEF I, Plain
<1>8. PICK e : e = ElementsAt(f, I) OBVIOUS
<1>9. PICK g : Chooses(g, e, f, I) BY <1>1, <1>7, <1>8, Chosen
<1>10. IsSeq(e) /\ Len(e) \in Nat /\ \A n \in 1..Len(e) : Plain(e[n])
  BY <1>4, <1>7, <1>9, SeqFacts DEF Chooses
<1>11. PICK c : c = <<a>> \o e OBVIOUS
<1>12. c = mdl BY <1>5, <1>8, <1>11
<1>13. IsSeq(<<a>>) /\ Len(<<a>>) = 1 /\ <<a>>[1] = a BY Singleton
<1>14. /\ Len(c) = 1 + Len(e)
       /\ \A i \in 1..1 : c[i] = <<a>>[i]
       /\ \A i \in 1..Len(e) : c[1 + i] = e[i]
  BY <1>10, <1>11, <1>13, Joined
<1>. HIDE DEF mdl
<1>15. ASSUME NEW n \in 1..Len(c) PROVE Plain(c[n])
  <2>1. CASE n = 1 BY <1>6, <1>13, <1>14, <2>1
  <2>2. CASE n # 1
    <3>1. n - 1 \in 1..Len(e) /\ 1 + (n - 1) = n BY <1>10, <1>14, <2>2
    <3>2. PICK m \in 1..Len(e) : 1 + m = n BY <3>1
    <3>3. c[n] = e[m] BY <1>14, <3>2
    <3>. QED BY <1>10, <3>3
  <2>. QED BY <2>1, <2>2
<1>16. PICK r : r = ReadCatalog(f) OBVIOUS
<1>17. r = [d \in 1..Len(c) |-> [c[d] EXCEPT !.messages = Positioned(@, d)]]
  BY <1>2, <1>12, <1>16
<1>18. Len(r) = Len(c) BY <1>10, <1>14, <1>17
<1>19. ASSUME NEW d \in 1..Len(r) PROVE DistinctIds(r[d].messages)
  <2>1. PICK l : l = Positioned(c[d].messages, d) OBVIOUS
  <2>2. DistinctIds(l) BY <1>15, <1>18, <2>1, PositionedDistinct DEF Plain
  <2>3. r[d] = [c[d] EXCEPT !.messages = l] BY <1>17, <1>18, <2>1
  <2>. QED BY <1>15, <1>18, <2>2, <2>3 DEF Plain
<1>20. Unique(r) BY <1>19 DEF Unique
<1>. QED BY <1>16, <1>20

LEMMA NewChecks ==
  ASSUME result = <<[domain |-> DefaultDomain, messages |-> <<>>]>>
  PROVE  SoundInv /\ AheadInv /\ TakenInv
<1>1. PICK c : c = [domain |-> DefaultDomain, messages |-> <<>>] OBVIOUS
<1>2. c.messages = <<>> BY <1>1
<1>3. Len(result) = 1 /\ result[1] = c BY <1>1
<1>4. \A r \in 1..Len(result) : result[r].messages = <<>> BY <1>2, <1>3
<1>5. Len(<<>>) = 0 BY Empty
<1>6. SoundInv BY <1>4, EmptyAccepted DEF SoundInv
<1>7. \A p : IsAhead(p) BY <1>4 DEF IsAhead
<1>8. \A d : TakenIn(d) BY <1>4, <1>5 DEF TakenIn
<1>. QED BY <1>6, <1>7, <1>8 DEF AheadInv, TakenInv

LEMMA CheckInitially == MergeInit => CheckInv
<1>. SUFFICES ASSUME MergeInit PROVE CheckInv
  OBVIOUS
<1>1. /\ args \in Inputs /\ file = args.def /\ def = ReadCatalog(file)
      /\ result = <<[domain |-> DefaultDomain, messages |-> <<>>]>>
  BY DEF MergeInit, MergeStart
<1>2. IsCatalog(file) /\ Unique(file)
  <2>1. IsFile(file) BY <1>1, InputsAssumption
  <2>2. DOMAIN file = 1..Len(file) BY <2>1, Catalogs DEF IsFile
  <2>. QED BY <2>1, <2>2, PassesFacts DEF IsFile, Unique
<1>3. Unique(def) BY <1>1, <1>2, ReadDistinct
<1>. QED BY <1>1, <1>2, <1>3, NewChecks DEF CheckInv

LEMMA AgainChecks ==
  ASSUME KeepInv, CheckInv, Again
  PROVE  CheckInv'
<1>1. /\ def' = ReadCatalog(file) /\ file' = file
      /\ result' = <<[domain |-> DefaultDomain, messages |-> <<>>]>>
  BY DEF Again
<1>2. Unique(def')
  <2>1. Unique(ReadCatalog(file)) BY ReadDistinct DEF KeepInv, FilesInv, CheckInv
  <2>. QED BY <1>1, <2>1
<1>3. Unique(file') BY <1>1 DEF CheckInv, Unique
<1>4. SoundInv' /\ AheadInv' /\ TakenInv'
  <2>1. PICK c : c = [domain |-> DefaultDomain, messages |-> <<>>] OBVIOUS
  <2>2. c.messages = <<>> BY <2>1
  <2>3. Len(result') = 1 /\ result'[1] = c BY <1>1, <2>1
  <2>4. \A r \in 1..Len(result') : result'[r].messages = <<>> BY <2>2, <2>3
  <2>5. Len(<<>>) = 0 BY Empty
  <2>6. SoundInv' BY <2>4, EmptyAccepted DEF SoundInv
  <2>7. \A p : IsAhead(p)' BY <2>4 DEF IsAhead
  <2>8. \A d : TakenIn(d)' BY <2>4, <2>5 DEF TakenIn
  <2>. QED BY <2>6, <2>7, <2>8 DEF AheadInv, TakenInv
<1>. QED BY <1>2, <1>3, <1>4 DEF CheckInv, Unique

LEMMA MainChecks ==
  ASSUME MergeInv, KeepInv, CheckInv, Main
  PROVE  CheckInv'
BY SetCurrentListChecks, MergePassChecks, DestroyChecks, KeepObsoleteChecks, EndMergeChecks,
   WriteChecks, AgainChecks DEF Main

LEMMA ThreadChecks ==
  ASSUME MergeInv, KeepInv, CheckInv, NEW t \in MergeThreads, Thread(t)
  PROVE  CheckInv'
<1>1. /\ phase = "search" /\ UNCHANGED <<args, file, def, result, used, phase, pass>>
  BY DEF Thread, Iterate, Check, Lock, BuildCurr, BuildComp, SearchCurr, SearchComp, LoopFrame,
         data, MergeInv, ThreadInv
<1>. QED BY <1>1, CheckedStays

LEMMA CheckStutters == CheckInv /\ UNCHANGED mergevars => CheckInv'
<1>. SUFFICES ASSUME CheckInv, UNCHANGED mergevars PROVE CheckInv'
  OBVIOUS
<1>1. UNCHANGED <<args, file, def, result, used, phase, pass>> /\ next' = next
  BY DEF mergevars, data
<1>. QED BY <1>1, CheckedStays

(* What msgmerge reads and writes has every message once; and the lists it  *)
(* makes are what msgfmt -c accepts, if def.po and the reference are.       *)
THEOREM CheckInvariant == MergeSpec => []CheckInv
<1>1. MergeInv /\ KeepInv /\ CheckInv /\ [MergeNext]_mergevars => CheckInv'
  BY MainChecks, ThreadChecks, CheckStutters DEF MergeNext, Done
<1>. QED BY <1>1, CheckInitially, MergeInvariant, KeepInvariant, PTL DEF MergeSpec

LEMMA OutputFacts ==
  ASSUME KeepInv, CheckInv, NEW r \in 1..Len(result)
  PROVE  DistinctIds(Output(r)) /\ (WellFormed => Correct(Output(r)))
<1>1. PICK l : l = result[r].messages OBVIOUS
<1>2. ListRead(l) BY <1>1, Catalogs DEF KeepInv, FilesInv
<1>3. OnceEach(l) /\ (WellFormed => Correct(l)) BY <1>1 DEF CheckInv, SoundInv
<1>4. Output(r) = Printed(l) BY <1>1 DEF Output
<1>. QED BY <1>2, <1>3, <1>4, PrintedCorrect

(* No file that msgmerge writes has two messages with one msgid, which      *)
(* would make it unreadable: whatever the files and compendiums are.        *)
THEOREM WrittenOnce ==
  MergeSpec => [](phase = "done" => \A r \in 1..Len(result) : ~HasDuplicates(Output(r)))
<1>1. KeepInv /\ CheckInv => \A r \in 1..Len(result) : ~HasDuplicates(Output(r))
  BY OutputFacts, PassesFacts
<1>. QED BY <1>1, KeepInvariant, CheckInvariant, PTL

(* ResultPassesCheck, as message_merge's comment promises it: for templates *)
(* and the definitions that msgfmt -c looks at, or that are as if it did.   *)
THEOREM ResultChecked == MergeSpec => [](Suitable => ResultPassesCheck)
<1>1. KeepInv /\ CheckInv => (Suitable => ResultPassesCheck)
  <2>. SUFFICES ASSUME KeepInv, CheckInv, Suitable,
                       \A d \in 1..Len(def) : PassesCheck(def[d].messages),
                       NEW r \in 1..Len(result)
                PROVE  PassesCheck(Output(r))
    BY DEF ResultPassesCheck
  <2>1. WellFormed BY DEF WellFormed
  <2>. QED BY <2>1, OutputFacts, PassesFacts
<1>. QED BY <1>1, KeepInvariant, CheckInvariant, PTL

-----------------------------------------------------------------------------
(* Combined catalogs: what fits the encoding of the result.                 *)

\* The headers name their project so that it looks the same in the encodings
\* of the result.
NamesFit ==
  \A c \in CatInputs : \A k \in DOMAIN c.lists : \A m \in ToSet(c.lists[k].messages) :
    IsHeader(m) =>
      \/ m.str[1].chars \in Invariant
      \/ /\ is_ascii(m.str[1].chars) /\ Charset(c.lists[k]) \in AsciiCompatible
         /\ c.to_code # NoCode => c.to_code \in AsciiCompatible

TextFits(t, e) ==
  /\ t.code = e \/ (t.code = po_charset_ascii /\ Same(t.chars, e))
  /\ t.charset \in {NoCode, e}
KeyFits(chars, code, e) == code = e \/ is_ascii(chars)
LabelFits(label, e) == label # NoLabel => TextFits(label, e)

TextsFit(texts, e) == IsSeq(texts) /\ \A t \in ToSet(texts) : TextFits(t, e)
MessageFits(m, e) ==
  TextsFit(m.str, e) /\ TextsFit(m.comment, e) /\ KeyFits(m.id.chars, m.id.code, e)
ListFits(messages, e) == \A p \in 1..Len(messages) : MessageFits(messages[p], e)

PartsFit(parts, e) ==
  IsSeq(parts) /\ \A s \in ToSet(parts) : TextFits(s.text, e) /\ LabelFits(s.label, e)
FormsFit(str, e) == \A r \in DOMAIN str : PartsFit(str[r], e)
AlternativeFits(a, e) ==
  /\ a = [str |-> a.str, comment |-> a.comment, label |-> a.label]
  /\ TextsFit(a.str, e) /\ TextsFit(a.comment, e) /\ LabelFits(a.label, e)
ResultFits(tmp, e) ==
  /\ FormsFit(tmp.str, e) /\ PartsFit(tmp.comment, e)
  /\ IsSeq(tmp.alternatives)
  /\ \A a \in ToSet(tmp.alternatives) : AlternativeFits(a, e)

IsTmp(t) ==
  DOMAIN t = {"key", "used", "str", "fuzzy", "obsolete", "comment", "filepos", "alternatives"}

\* A list for which one charset was found.
Decided(list) == Charset(list) # NoCode /\ \A e, f \in Named(list) : e = f

LEMMA CharsetOfRead ==
  ASSUME NEW list, FromFile(list), Decided(list), NEW m \in ToSet(list.messages),
         NEW t \in Texts(m)
  PROVE  /\ t = Text(t.chars, Charset(list), t.charset)
         /\ t.charset \in {NoCode, Charset(list)}
         /\ t.charset # NoCode => ~m.obsolete
<1>1. t = Text(t.chars, Charset(list), t.charset) BY DEF FromFile, Decided
<1>2. t.charset # NoCode => IsHeader(m) /\ ~m.obsolete /\ t = m.str[1] BY DEF FromFile
<1>3. ASSUME t.charset # NoCode PROVE t.charset = Charset(list)
  <2>1. PICK j \in DOMAIN list.messages : m = list.messages[j] BY DEF ToSet
  <2>2. t.charset \in Named(list) BY <1>2, <1>3, <2>1 DEF Named
  <2>3. Charset(list) = CHOOSE e \in Named(list) : TRUE BY <2>2, Zenon DEF Charset
  <2>4. Charset(list) \in Named(list) BY <2>2, <2>3, Zenon
  <2>. QED BY <2>2, <2>4 DEF Decided
<1>. QED BY <1>1, <1>2, <1>3

LEMMA TextIs ==
  ASSUME NEW chars, NEW code, NEW charset
  PROVE  /\ Text(chars, code, charset).chars = chars
         /\ Text(chars, code, charset).charset = charset
         /\ Text(chars, code, charset).code = IF Same(chars, code) THEN po_charset_ascii ELSE code
BY DEF Text

LEMMA WrittenFits ==
  ASSUME NEW chars, NEW e, NEW charset \in {NoCode, e}
  PROVE  TextFits(Text(chars, e, charset), e)
BY TextIs DEF TextFits

LEMMA KeyWritten ==
  ASSUME NEW chars, NEW e, NEW charset, NEW t, t = Text(chars, e, charset)
  PROVE  KeyFits(t.chars, t.code, e)
<1>1. Same(chars, e) => is_ascii(chars) BY CatAssumption DEF Same, is_ascii
<1>2. t.chars = chars /\ (t.code = IF Same(chars, e) THEN po_charset_ascii ELSE e) BY TextIs
<1>. QED BY <1>1, <1>2 DEF KeyFits

\* What was not converted is in the encoding of its list.
LEMMA ReadFits ==
  ASSUME NEW list, FromFile(list), Decided(list), NEW m \in ToSet(list.messages)
  PROVE  MessageFits(m, Charset(list))
<1>1. ASSUME NEW t \in Texts(m) PROVE TextFits(t, Charset(list))
  BY CharsetOfRead, WrittenFits
<1>2. IsSeq(m.str) /\ IsSeq(m.comment) BY DEF FromFile
<1>3. m.id \in Texts(m) /\ ToSet(m.str) \subseteq Texts(m) /\ ToSet(m.comment) \subseteq Texts(m)
  BY DEF Texts
<1>4. m.id = Text(m.id.chars, Charset(list), m.id.charset) BY <1>3, CharsetOfRead
<1>5. KeyFits(m.id.chars, m.id.code, Charset(list)) BY <1>4, KeyWritten
<1>. QED BY <1>1, <1>2, <1>3, <1>5 DEF MessageFits, TextsFit

IsMessage(m) ==
  m = [id |-> m.id, str |-> m.str, fuzzy |-> m.fuzzy, obsolete |-> m.obsolete,
       comment |-> m.comment, filepos |-> m.filepos]

Written(m, e) ==
  LET Conv(t) == Text(t.chars, e, IF t.charset # NoCode /\ ~m.obsolete THEN e ELSE t.charset)
  IN [m EXCEPT !.str = [i \in DOMAIN @ |-> Conv(@[i])],
               !.comment = [i \in DOMAIN @ |-> Conv(@[i])]]

LEMMA WrittenMessageFits ==
  ASSUME NEW list, FromFile(list), Decided(list), NEW m \in ToSet(list.messages), NEW e,
         Charset(list) # e => is_ascii(m.id.chars)
  PROVE  /\ MessageFits(Written(m, e), e)
         /\ Written(m, e).id = m.id
<1>. DEFINE Conv(t) == Text(t.chars, e, IF t.charset # NoCode /\ ~m.obsolete THEN e ELSE t.charset)
            str == [i \in DOMAIN m.str |-> Conv(m.str[i])]
            comment == [i \in DOMAIN m.comment |-> Conv(m.comment[i])]
<1>1. IsSeq(m.str) /\ IsSeq(m.comment) /\ IsMessage(m) BY DEF FromFile, IsMessage
<1>2. /\ Written(m, e).str = str /\ Written(m, e).comment = comment
      /\ Written(m, e).id = m.id
  <2>1. PICK w : w = [id |-> m.id, str |-> str, fuzzy |-> m.fuzzy, obsolete |-> m.obsolete,
                      comment |-> comment, filepos |-> m.filepos] OBVIOUS
  <2>2. Written(m, e) = [m EXCEPT !.str = str, !.comment = comment] BY DEF Written
  <2>. HIDE DEF str, comment
  <2>3. [m EXCEPT !.str = str, !.comment = comment] = w
    <3>1. PICK a, b, c, d, f, g :
            m = [id |-> a, str |-> b, fuzzy |-> c, obsolete |-> d, comment |-> f, filepos |-> g]
      BY <1>1, Zenon DEF IsMessage
    <3>2. m.id = a /\ m.fuzzy = c /\ m.obsolete = d /\ m.filepos = g BY <3>1
    <3>3. w = [id |-> a, str |-> str, fuzzy |-> c, obsolete |-> d,
               comment |-> comment, filepos |-> g]
      BY <2>1, <3>2
    <3>4. PICK v : v = [m EXCEPT !.str = str] OBVIOUS
    <3>5. v = [id |-> a, str |-> str, fuzzy |-> c, obsolete |-> d, comment |-> f, filepos |-> g]
      BY <3>1, <3>4
    <3>6. [v EXCEPT !.comment = comment]
            = [id |-> a, str |-> str, fuzzy |-> c, obsolete |-> d,
               comment |-> comment, filepos |-> g]
      BY <3>5
    <3>7. [m EXCEPT !.str = str, !.comment = comment] = [v EXCEPT !.comment = comment]
      BY <3>4
    <3>. QED BY <3>3, <3>6, <3>7
  <2>. QED BY <2>1, <2>2, <2>3
<1>3. ASSUME NEW t \in Texts(m) PROVE TextFits(Conv(t), e)
  <2>1. t.charset # NoCode => ~m.obsolete BY CharsetOfRead
  <2>2. (IF t.charset # NoCode /\ ~m.obsolete THEN e ELSE t.charset) \in {NoCode, e} BY <2>1
  <2>. QED BY <2>2, WrittenFits
<1>4. ASSUME NEW ts, IsSeq(ts), ToSet(ts) \subseteq Texts(m)
      PROVE  TextsFit([i \in DOMAIN ts |-> Conv(ts[i])], e)
  <2>. HIDE DEF Conv
  <2>1. Len(ts) \in Nat /\ DOMAIN ts = 1..Len(ts) /\ \A i \in 1..Len(ts) : ts[i] \in Texts(m)
    BY <1>4, SeqFacts
  <2>2. PICK c : c = [i \in 1..Len(ts) |-> Conv(ts[i])] OBVIOUS
  <2>3. IsSeq(c) /\ Len(c) = Len(ts) BY <2>1, <2>2, SeqMade
  <2>4. \A t \in ToSet(c) : TextFits(t, e) BY <1>3, <2>1, <2>2 DEF ToSet
  <2>. QED BY <2>1, <2>2, <2>3, <2>4 DEF TextsFit
<1>5. ToSet(m.str) \subseteq Texts(m) /\ ToSet(m.comment) \subseteq Texts(m) /\ m.id \in Texts(m)
  BY DEF Texts
<1>6. TextsFit(str, e) /\ TextsFit(comment, e) BY <1>1, <1>4, <1>5
<1>7. KeyFits(m.id.chars, m.id.code, e)
  <2>1. CASE Charset(list) = e
    <3>1. m.id = Text(m.id.chars, e, m.id.charset) BY <1>5, <2>1, CharsetOfRead
    <3>. QED BY <3>1, KeyWritten
  <2>2. CASE Charset(list) # e BY <2>2 DEF KeyFits
  <2>. QED BY <2>1, <2>2
<1>. HIDE DEF str, comment
<1>. QED BY <1>2, <1>6, <1>7 DEF MessageFits

LEMMA IdentificationFits ==
  ASSUME NamesFit, NEW c \in CatInputs, NEW k \in DOMAIN c.lists, Decided(c.lists[k]), NEW e,
         /\ Charset(c.lists[k]) \in AsciiCompatible
         /\ c.to_code # NoCode => c.to_code \in AsciiCompatible
         => e \in AsciiCompatible
  PROVE  LabelFits(Identification(c.lists[k]), e)
<1>1. PICK list : list = c.lists[k] OBVIOUS
<1>2. FromFile(list) /\ Decided(list) BY <1>1, CatAssumption
<1>. DEFINE I == { i \in 1..Len(list.messages) :
                     IsHeader(list.messages[i]) /\ ~list.messages[i].obsolete }
            j == SelectInSeq(list.messages, LAMBDA m : IsHeader(m) /\ ~m.obsolete)
<1>3. j = IF I # {} THEN Min(I) ELSE 0 BY DEF SelectInSeq
<1>4. CASE j = 0 BY <1>1, <1>4 DEF Identification, LabelFits
<1>5. CASE j # 0
  <2>1. I # {} /\ j = Min(I) BY <1>3, <1>5
  <2>2. j \in I
    <3>1. IsSeq(list.messages) /\ I \subseteq Nat BY <1>2 DEF FromFile
    <3>. HIDE DEF I, j
    <3>2. PICK i \in I : \A y \in I : i <= y BY <2>1, <3>1, SmallestNumber
    <3>3. Min(I) \in I BY <3>2 DEF Min
    <3>. QED BY <2>1, <3>3
  <2>3. PICK n : n = j OBVIOUS
  <2>4. n \in 1..Len(list.messages) /\ IsHeader(list.messages[n]) BY <2>2, <2>3
  <2>5. Identification(list) = [list.messages[n].str[1] EXCEPT !.charset = NoCode]
    <3>1. Identification(list) =
            IF j = 0 THEN NoLabel ELSE [list.messages[j].str[1] EXCEPT !.charset = NoCode]
      BY DEF Identification
    <3>. HIDE DEF j
    <3>. QED BY <1>5, <2>3, <3>1
  <2>. HIDE DEF I, j
  <2>6. PICK m : m = list.messages[n] OBVIOUS
  <2>7. m \in ToSet(list.messages) BY <1>2, <2>4, <2>6, SeqFacts DEF FromFile
  <2>8. m.str[1] \in Texts(m)
    <3>1. IsSeq(m.str) /\ m.str # <<>> BY <1>2, <2>7 DEF FromFile
    <3>2. Len(m.str) \in Nat /\ m.str = [i \in 1..Len(m.str) |-> m.str[i]] BY <3>1, SeqFacts
    <3>3. m.str \in Seq(ToSet(m.str)) BY <3>1 DEF IsSeq
    <3>4. 1 \in 1..Len(m.str) BY <3>1, <3>3
    <3>. QED BY <3>1, <3>4, SeqFacts DEF Texts
  <2>9. PICK t : t = m.str[1] OBVIOUS
  <2>10. t = Text(t.chars, Charset(list), t.charset) BY <1>2, <2>7, <2>8, <2>9, CharsetOfRead
  <2>11. PICK chars, charset : t = Text(chars, Charset(list), charset) BY <2>10
  <2>12. t.chars = chars BY <2>11, TextIs
  <2>13. \/ chars \in Invariant
         \/ /\ is_ascii(chars) /\ Charset(list) \in AsciiCompatible
            /\ c.to_code # NoCode => c.to_code \in AsciiCompatible
    BY <1>1, <2>4, <2>6, <2>7, <2>9, <2>12 DEF NamesFit
  <2>14. Same(chars, Charset(list)) /\ Same(chars, e) BY <1>1, <2>13 DEF Same
  <2>15. t = [chars |-> chars, charset |-> charset, code |-> po_charset_ascii]
    BY <2>11, <2>14 DEF Text
  <2>16. PICK l : l = Identification(list) OBVIOUS
  <2>17. l = [chars |-> chars, charset |-> NoCode, code |-> po_charset_ascii]
    <3>1. l = [t EXCEPT !.charset = NoCode] BY <2>5, <2>6, <2>9, <2>16, Zenon
    <3>. QED BY <2>15, <3>1
  <2>18. TextFits(l, e) BY <2>14, <2>17 DEF TextFits
  <2>. QED BY <1>1, <2>16, <2>18 DEF LabelFits
<1>. QED BY <1>4, <1>5

-----------------------------------------------------------------------------
(* The encoding of the result.                                              *)

Wanted(c) == IF c.to_code # NoCode THEN {c.to_code} ELSE DOMAIN Repertoire

Target(c, codes) ==
  IF c.to_code # NoCode THEN c.to_code
  ELSE IF Mixed(codes) THEN po_charset_utf8
  ELSE IF po_charset_ascii \in codes /\ codes # {po_charset_ascii}
       THEN CHOOSE e \in codes : e # po_charset_ascii
  ELSE NoCode

\* e is the encoding that texts in codes have after a conversion to target.
EncodingFor(c, codes, target, e) ==
  /\ e \in Wanted(c)
  /\ target # NoCode => e = target
  /\ c.to_code # NoCode => target = c.to_code
  /\ target = NoCode => codes \subseteq {e}
  /\ \A f \in codes :
       /\ f \in AsciiCompatible
       /\ c.to_code # NoCode => c.to_code \in AsciiCompatible
       => e \in AsciiCompatible

LEMMA TargetIsEncoding ==
  ASSUME NEW c \in CatInputs, NEW codes \in SUBSET DOMAIN Repertoire
  PROVE  \E e : EncodingFor(c, codes, Target(c, codes), e)
<1>. DEFINE other == CHOOSE e \in codes : e # po_charset_ascii
<1>1. /\ NoCode \notin codes /\ NoCode # po_charset_utf8
      /\ c.to_code \in DOMAIN Repertoire \cup {NoCode}
  BY CatAssumption
<1>2. po_charset_utf8 \in AsciiCompatible \cap DOMAIN Repertoire BY CatAssumption
<1>3. po_charset_ascii \in AsciiCompatible \cap DOMAIN Repertoire BY CatAssumption
<1>4. CASE c.to_code # NoCode
  <2>1. Target(c, codes) = c.to_code BY <1>4 DEF Target
  <2>2. EncodingFor(c, codes, c.to_code, c.to_code) BY <1>4 DEF EncodingFor, Wanted
  <2>. QED BY <2>1, <2>2
<1>5. CASE c.to_code = NoCode /\ Mixed(codes)
  <2>1. Target(c, codes) = po_charset_utf8 BY <1>5 DEF Target
  <2>2. EncodingFor(c, codes, po_charset_utf8, po_charset_utf8)
    BY <1>1, <1>2, <1>5 DEF EncodingFor, Wanted
  <2>. QED BY <2>1, <2>2
<1>6. CASE /\ c.to_code = NoCode /\ ~Mixed(codes)
           /\ po_charset_ascii \in codes /\ codes # {po_charset_ascii}
  <2>1. Target(c, codes) = other BY <1>6, Zenon DEF Target
  <2>2. \E e \in codes : e # po_charset_ascii BY <1>6
  <2>3. other \in codes BY <2>2, Zenon
  <2>4. codes \subseteq AsciiCompatible BY <1>6 DEF Mixed
  <2>. HIDE DEF other
  <2>5. EncodingFor(c, codes, other, other) BY <1>1, <1>6, <2>3, <2>4 DEF EncodingFor, Wanted
  <2>. QED BY <2>1, <2>5
<1>7. CASE /\ c.to_code = NoCode /\ ~Mixed(codes)
           /\ ~(po_charset_ascii \in codes /\ codes # {po_charset_ascii})
  <2>1. Target(c, codes) = NoCode BY <1>7, Zenon DEF Target
  <2>2. CASE codes = {}
    <3>1. EncodingFor(c, codes, NoCode, po_charset_ascii) BY <1>3, <1>7, <2>2 DEF EncodingFor, Wanted
    <3>. QED BY <2>1, <3>1
  <2>3. CASE codes # {}
    <3>1. PICK e : e \in codes BY <2>3
    <3>2. codes \subseteq {e} BY <1>7, <3>1 DEF Mixed
    <3>3. EncodingFor(c, codes, NoCode, e) BY <1>7, <3>1, <3>2 DEF EncodingFor, Wanted
    <3>. QED BY <2>1, <3>3
  <2>. QED BY <2>2, <2>3
<1>. QED BY <1>4, <1>5, <1>6, <1>7

-----------------------------------------------------------------------------
(* Messages of the result.                                                  *)

LEMMA Singletons ==
  ASSUME NEW x
  PROVE  IsSeq(<<x>>) /\ ToSet(<<x>>) = {x} /\ IsSeq(<<>>) /\ ToSet(<<>>) = {}
BY DEF IsSeq, ToSet

LEMMA FormsOfFit ==
  ASSUME NEW e, NEW texts, TextsFit(texts, e)
  PROVE  FormsFit(Forms(texts), e)
<1>1. \A i \in DOMAIN texts : texts[i] \in ToSet(texts) BY DEF ToSet
<1>2. DOMAIN Forms(texts) = DOMAIN texts BY DEF Forms
<1>3. ASSUME NEW i \in DOMAIN texts PROVE PartsFit(Forms(texts)[i], e)
  <2>1. Forms(texts)[i] = <<[label |-> NoLabel, text |-> texts[i]]>> BY DEF Forms
  <2>2. PICK s : s = [label |-> NoLabel, text |-> texts[i]] OBVIOUS
  <2>3. s.label = NoLabel /\ s.text = texts[i] BY <2>2
  <2>4. TextFits(s.text, e) /\ LabelFits(s.label, e) BY <1>1, <2>3 DEF TextsFit, LabelFits
  <2>5. IsSeq(<<s>>) /\ ToSet(<<s>>) = {s} BY Singletons
  <2>6. PartsFit(<<s>>, e) BY <2>4, <2>5 DEF PartsFit
  <2>. QED BY <2>1, <2>2, <2>6
<1>. QED BY <1>2, <1>3 DEF FormsFit

LEMMA SectionsOfFit ==
  ASSUME NEW e, NEW texts, TextsFit(texts, e), NEW label, LabelFits(label, e)
  PROVE  PartsFit(Sections(texts, label), e)
<1>1. IsSeq(texts) BY DEF TextsFit
<1>2. /\ Len(texts) \in Nat /\ DOMAIN texts = 1..Len(texts)
      /\ \A i \in 1..Len(texts) : texts[i] \in ToSet(texts)
  BY <1>1, SeqFacts
<1>3. PICK n : n = Len(texts) OBVIOUS
<1>4. PICK s : s = Sections(texts, label) OBVIOUS
<1>5. s = [i \in 1..n |-> [label |-> label, text |-> texts[i]]] BY <1>2, <1>3, <1>4 DEF Sections
<1>6. IsSeq(s) /\ Len(s) = n /\ n \in Nat BY <1>2, <1>3, <1>5, SeqMade
<1>7. \A i \in 1..n : s[i].label = label /\ s[i].text = texts[i] BY <1>5
<1>8. \A x \in ToSet(s) : \E i \in 1..n : x = s[i] BY <1>6, SeqFacts
<1>9. \A i \in 1..n : TextFits(texts[i], e) BY <1>2, <1>3 DEF TextsFit
<1>. QED BY <1>4, <1>6, <1>7, <1>8, <1>9 DEF PartsFit

LEMMA PartsJoined ==
  ASSUME NEW e, NEW a, PartsFit(a, e), NEW b, PartsFit(b, e)
  PROVE  PartsFit(a \o b, e)
<1>. DEFINE S == ToSet(a) \cup ToSet(b)
<1>1. IsSeq(a) /\ IsSeq(b) BY DEF PartsFit
<1>2. a \in Seq(S) /\ b \in Seq(S)
  <2>1. Len(a) \in Nat /\ a = [i \in 1..Len(a) |-> a[i]] /\ \A i \in 1..Len(a) : a[i] \in S
    BY <1>1, SeqFacts
  <2>2. Len(b) \in Nat /\ b = [i \in 1..Len(b) |-> b[i]] /\ \A i \in 1..Len(b) : b[i] \in S
    BY <1>1, SeqFacts
  <2>. HIDE DEF S
  <2>. QED BY <2>1, <2>2
<1>3. \A x \in S : TextFits(x.text, e) /\ LabelFits(x.label, e) BY DEF PartsFit
<1>. HIDE DEF S
<1>4. PICK c : c = a \o b OBVIOUS
<1>5. c \in Seq(S) BY <1>2, <1>4, ConcatProperties
<1>6. Len(c) \in Nat /\ c = [i \in 1..Len(c) |-> c[i]] /\ DOMAIN c = 1..Len(c) BY <1>5
<1>7. IsSeq(c) BY <1>6, SeqMade
<1>8. \A x \in ToSet(c) : x \in S BY <1>5, <1>6 DEF ToSet
<1>. QED BY <1>3, <1>4, <1>7, <1>8 DEF PartsFit

LEMMA AlternativeAdded ==
  ASSUME NEW e, NEW s, IsSeq(s), \A a \in ToSet(s) : AlternativeFits(a, e),
         NEW x, AlternativeFits(x, e)
  PROVE  IsSeq(Append(s, x)) /\ \A a \in ToSet(Append(s, x)) : AlternativeFits(a, e)
<1>1. Len(s) \in Nat /\ s \in Seq(ToSet(s)) BY SeqFacts DEF IsSeq
<1>2. PICK c : c = Append(s, x) OBVIOUS
<1>3. PICK S : S = ToSet(s) OBVIOUS
<1>4. s \in Seq(S) BY <1>1, <1>3
<1>5. c \in Seq(S \cup {x})
  <2>1. s \in Seq(S \cup {x}) BY <1>4
  <2>. QED BY <1>2, <2>1
<1>6. Len(c) \in Nat /\ c = [i \in 1..Len(c) |-> c[i]] /\ DOMAIN c = 1..Len(c) BY <1>5
<1>7. IsSeq(c) BY <1>6, SeqMade
<1>8. \A a \in ToSet(c) : a \in S \/ a = x BY <1>5, <1>6 DEF ToSet
<1>. QED BY <1>2, <1>3, <1>7, <1>8

LEMMA FilledFits ==
  ASSUME NEW e, NEW tmp, IsTmp(tmp), ResultFits(tmp, e), NEW m, MessageFits(m, e),
         NEW k, LabelFits(Identification(job.lists[k]), e)
  PROVE  /\ IsTmp(Filled(tmp, m, k)) /\ Filled(tmp, m, k).key = tmp.key
         /\ ResultFits(Filled(tmp, m, k), e)
<1>. DEFINE new == [tmp EXCEPT !.filepos = @ \cup m.filepos]
            unlabelled == Sections(m.comment, NoLabel)
            alternative ==
              [str |-> m.str, comment |-> m.comment, label |-> Identification(job.lists[k])]
<1>1. IsTmp(new) /\ new.key = tmp.key /\ new.str = tmp.str /\ new.comment = tmp.comment
      /\ new.alternatives = tmp.alternatives
  BY DEF IsTmp
<1>2. PICK n : n = new OBVIOUS
<1>3. PICK label : label = Identification(job.lists[k]) OBVIOUS
<1>4. FormsFit(Forms(m.str), e) BY FormsOfFit DEF MessageFits
<1>5. PartsFit(unlabelled, e)
  <2>1. LabelFits(NoLabel, e) BY DEF LabelFits
  <2>. QED BY <2>1, SectionsOfFit DEF MessageFits
<1>6. AlternativeFits(alternative, e)
  <2>1. PICK a : a = [str |-> m.str, comment |-> m.comment, label |-> label] OBVIOUS
  <2>2. a.str = m.str /\ a.comment = m.comment /\ a.label = label BY <2>1
  <2>3. AlternativeFits(a, e) BY <1>3, <2>1, <2>2 DEF AlternativeFits, MessageFits
  <2>. QED BY <1>3, <2>1, <2>3
<1>7. PICK alt : alt = alternative OBVIOUS
<1>8. PICK comment : comment = unlabelled OBVIOUS
<1>9. /\ FormsFit(tmp.str, e) /\ PartsFit(tmp.comment, e) /\ IsSeq(tmp.alternatives)
      /\ \A a \in ToSet(tmp.alternatives) : AlternativeFits(a, e)
  BY DEF ResultFits
<1>. HIDE DEF new, unlabelled, alternative
<1>10. CASE job.use_first \/ tmp.used \in {1, -1}
  <2>1. Filled(tmp, m, k) =
          [n EXCEPT !.str = Forms(m.str), !.fuzzy = m.fuzzy, !.obsolete = m.obsolete,
                    !.comment = @ \o comment]
    BY <1>2, <1>8, <1>10 DEF Filled, new, unlabelled
  <2>2. PICK r : r = Filled(tmp, m, k) OBVIOUS
  <2>3. IsTmp(r) /\ r.key = tmp.key /\ r.str = Forms(m.str) /\ r.comment = tmp.comment \o comment
        /\ r.alternatives = tmp.alternatives
    BY <1>1, <1>2, <2>1, <2>2 DEF IsTmp
  <2>4. PartsFit(tmp.comment \o comment, e) BY <1>5, <1>8, <1>9, PartsJoined
  <2>. QED BY <1>4, <1>9, <2>2, <2>3, <2>4 DEF ResultFits
<1>11. CASE ~(job.use_first \/ tmp.used \in {1, -1}) /\ job.msgcomm_mode
  <2>1. Filled(tmp, m, k) =
          [n EXCEPT !.str = IF @ = <<>> THEN Forms(m.str) ELSE @,
                    !.fuzzy = IF tmp.str = <<>> THEN m.fuzzy ELSE @,
                    !.comment = IF @ = <<>> THEN comment ELSE @,
                    !.obsolete = FALSE]
    BY <1>2, <1>8, <1>11 DEF Filled, new, unlabelled
  <2>2. PICK r : r = Filled(tmp, m, k) OBVIOUS
  <2>3. IsTmp(r) /\ r.key = tmp.key /\ r.str \in {Forms(m.str), tmp.str}
        /\ r.comment \in {comment, tmp.comment} /\ r.alternatives = tmp.alternatives
    BY <1>1, <1>2, <2>1, <2>2 DEF IsTmp
  <2>. QED BY <1>4, <1>5, <1>8, <1>9, <2>2, <2>3 DEF ResultFits
<1>12. CASE ~(job.use_first \/ tmp.used \in {1, -1}) /\ ~job.msgcomm_mode
  <2>1. Filled(tmp, m, k) =
          [n EXCEPT !.alternatives = Append(@, alt), !.fuzzy = @ /\ m.fuzzy,
                    !.obsolete = @ /\ m.obsolete]
    BY <1>2, <1>7, <1>12 DEF Filled, new, alternative
  <2>2. PICK r : r = Filled(tmp, m, k) OBVIOUS
  <2>3. IsTmp(r) /\ r.key = tmp.key /\ r.str = tmp.str /\ r.comment = tmp.comment
        /\ r.alternatives = Append(tmp.alternatives, alt)
    BY <1>1, <1>2, <2>1, <2>2 DEF IsTmp
  <2>4. IsSeq(r.alternatives) /\ \A a \in ToSet(r.alternatives) : AlternativeFits(a, e)
    BY <1>6, <1>7, <1>9, <2>3, AlternativeAdded
  <2>. QED BY <1>9, <2>2, <2>3, <2>4 DEF ResultFits
<1>. QED BY <1>10, <1>11, <1>12

LEMMA LargestNumber ==
  ASSUME NEW n \in Nat \ {0}, NEW f, \A i \in 1..n : f[i] \in Nat
  PROVE  \E i \in 1..n : \A j \in 1..n : f[j] <= f[i]
<1>. DEFINE Largest(k) == \E i \in 1..k : \A j \in 1..k : f[j] <= f[i]
            B == { k \in 1..n : ~Largest(k) }
<1>1. B = {}
  <2>. SUFFICES ASSUME B # {} PROVE FALSE
    OBVIOUS
  <2>. HIDE DEF Largest
  <2>1. PICK k \in B : \A j \in B : k <= j
    <3>1. B \subseteq Nat OBVIOUS
    <3>. HIDE DEF B
    <3>. QED BY <3>1, SmallestNumber
  <2>2. k \in 1..n /\ ~Largest(k) BY <2>1
  <2>3. k # 1
    <3>1. Largest(1) BY DEF Largest
    <3>. QED BY <2>2, <3>1
  <2>4. k - 1 \in 1..n /\ k - 1 \notin B BY <2>1, <2>2, <2>3
  <2>5. Largest(k - 1) BY <2>4
  <2>6. PICK i \in 1..(k - 1) : \A j \in 1..(k - 1) : f[j] <= f[i] BY <2>5 DEF Largest
  <2>7. f[i] \in Nat /\ f[k] \in Nat BY <2>2, <2>6
  <2>8. CASE f[k] <= f[i]
    <3>1. \A j \in 1..k : f[j] <= f[i] BY <2>2, <2>6, <2>8
    <3>. QED BY <2>2, <2>6, <3>1 DEF Largest
  <2>9. CASE ~(f[k] <= f[i])
    <3>1. \A j \in 1..(k - 1) : f[j] \in Nat BY <2>2
    <3>2. \A j \in 1..k : f[j] <= f[k] BY <2>2, <2>6, <2>7, <2>9, <3>1
    <3>. QED BY <2>2, <3>2 DEF Largest
  <2>. QED BY <2>8, <2>9
<1>2. Largest(n) BY <1>1
<1>. QED BY <1>2

LEMMA CombinedFits ==
  ASSUME NEW e, NEW tmp, IsTmp(tmp), ResultFits(tmp, e)
  PROVE  /\ IsTmp(Combined(tmp)) /\ Combined(tmp).key = tmp.key
         /\ FormsFit(Combined(tmp).str, e) /\ PartsFit(Combined(tmp).comment, e)
<1>1. CASE tmp.alternatives = <<>>
  <2>1. Combined(tmp) = tmp BY <1>1 DEF Combined
  <2>. QED BY <2>1 DEF ResultFits
<1>2. CASE tmp.alternatives # <<>>
  <2>. DEFINE alts == tmp.alternatives
  <2>1. alts = tmp.alternatives OBVIOUS
  <2>. DEFINE strs == [i \in DOMAIN alts |-> alts[i].str]
              comments == [i \in DOMAIN alts |-> alts[i].comment]
              Section(a, r) ==
                IF Len(a.str) >= r THEN <<[label |-> a.label, text |-> a.str[r]]>> ELSE <<>>
              Form(r) == FlattenSeq([i \in DOMAIN alts |-> Section(alts[i], r)])
              plurals == Max({Len(strs[i]) : i \in DOMAIN strs})
              forms == [r \in 1..plurals |-> Form(r)]
              whole == FlattenSeq([i \in DOMAIN alts |-> Sections(alts[i].comment, alts[i].label)])
  <2>0. Combined(tmp) =
          [tmp EXCEPT !.str = IF Equal(strs) THEN Forms(strs[1]) ELSE forms,
                      !.fuzzy = @ \/ ~Equal(strs),
                      !.comment = IF Equal(comments) THEN Sections(comments[1], NoLabel) ELSE whole]
    BY <1>2, Zenon DEF Combined
  <2>. HIDE DEF alts
  <2>2. IsSeq(alts) /\ \A a \in ToSet(alts) : AlternativeFits(a, e) BY <2>1 DEF ResultFits
  <2>3. Len(alts) \in Nat \ {0} /\ DOMAIN alts = 1..Len(alts)
        /\ \A i \in 1..Len(alts) : AlternativeFits(alts[i], e)
    <3>1. Len(alts) \in Nat /\ DOMAIN alts = 1..Len(alts)
          /\ \A i \in 1..Len(alts) : alts[i] \in ToSet(alts)
      BY <2>2, SeqFacts
    <3>2. Len(alts) # 0
      <4>1. alts \in Seq(ToSet(alts)) /\ alts # <<>> BY <1>2, <2>1, <2>2 DEF IsSeq
      <4>. QED BY <4>1
    <3>. QED BY <2>2, <3>1, <3>2
  <2>4. PICK n : n = Len(alts) OBVIOUS
  <2>5. /\ n \in Nat \ {0} /\ DOMAIN alts = 1..n /\ 1 \in 1..n
        /\ \A i \in 1..n : /\ TextsFit(alts[i].str, e) /\ TextsFit(alts[i].comment, e)
                           /\ LabelFits(alts[i].label, e)
    BY <2>3, <2>4 DEF AlternativeFits
  <2>7. PICK r : r = Combined(tmp) OBVIOUS
  <2>8. FormsFit(Forms(strs[1]), e)
    <3>1. strs[1] = alts[1].str BY <2>5
    <3>. HIDE DEF strs
    <3>. QED BY <2>5, <3>1, FormsOfFit
  <2>9. PartsFit(Sections(comments[1], NoLabel), e)
    <3>1. comments[1] = alts[1].comment BY <2>5
    <3>2. LabelFits(NoLabel, e) BY DEF LabelFits
    <3>. HIDE DEF comments
    <3>. QED BY <2>5, <3>1, <3>2, SectionsOfFit
  <2>10. ASSUME NEW p \in Nat, p >= 1, NEW i \in 1..n PROVE PartsFit(Section(alts[i], p), e)
    <3>1. IsSeq(alts[i].str) /\ \A t \in ToSet(alts[i].str) : TextFits(t, e) BY <2>5 DEF TextsFit
    <3>2. CASE Len(alts[i].str) >= p
      <4>1. p \in 1..Len(alts[i].str) BY <2>10, <3>1, <3>2, SeqFacts
      <4>2. TextFits(alts[i].str[p], e) BY <3>1, <4>1, SeqFacts
      <4>3. PICK s : s = [label |-> alts[i].label, text |-> alts[i].str[p]] OBVIOUS
      <4>4. TextFits(s.text, e) /\ LabelFits(s.label, e) BY <2>5, <4>2, <4>3
      <4>5. PartsFit(<<s>>, e) BY <4>4, Singletons DEF PartsFit
      <4>. QED BY <3>2, <4>3, <4>5
    <3>3. CASE ~(Len(alts[i].str) >= p)
      <4>1. PartsFit(<<>>, e) BY Singletons DEF PartsFit
      <4>. QED BY <3>3, <4>1
    <3>. QED BY <3>2, <3>3
  <2>. HIDE DEF Section
  <2>11. ASSUME NEW s, s = [i \in 1..n |-> s[i]], \A i \in 1..n : PartsFit(s[i], e)
         PROVE  PartsFit(FlattenSeq(s), e)
    <3>1. \A i \in 1..n : IsSeq(s[i]) BY <2>11 DEF PartsFit
    <3>2. IsSeq(FlattenSeq(s)) /\ \A x \in ToSet(FlattenSeq(s)) : \E j \in 1..n : x \in ToSet(s[j])
      BY <2>5, <2>11, <3>1, FlattenedParts
    <3>. QED BY <2>11, <3>2 DEF PartsFit
  <2>12. ASSUME NEW p \in Nat, p >= 1 PROVE PartsFit(Form(p), e)
    <3>1. PICK s : s = [i \in DOMAIN alts |-> Section(alts[i], p)] OBVIOUS
    <3>2. s = [i \in 1..n |-> Section(alts[i], p)] BY <2>5, <3>1
    <3>3. s = [i \in 1..n |-> s[i]] /\ \A i \in 1..n : s[i] = Section(alts[i], p) BY <3>2
    <3>4. \A i \in 1..n : PartsFit(s[i], e) BY <2>10, <2>12, <3>3
    <3>. QED BY <2>11, <3>1, <3>3, <3>4
  <2>13. PartsFit(whole, e)
    <3>1. PICK s : s = [i \in DOMAIN alts |-> Sections(alts[i].comment, alts[i].label)] OBVIOUS
    <3>2. s = [i \in 1..n |-> Sections(alts[i].comment, alts[i].label)] BY <2>5, <3>1
    <3>3. /\ s = [i \in 1..n |-> s[i]]
          /\ \A i \in 1..n : s[i] = Sections(alts[i].comment, alts[i].label)
      BY <3>2
    <3>4. \A i \in 1..n : PartsFit(s[i], e) BY <2>5, <3>3, SectionsOfFit
    <3>. QED BY <2>11, <3>1, <3>3, <3>4
  <2>14. plurals \in Nat
    <3>1. \A i \in 1..n : Len(strs[i]) \in Nat BY <2>5, SeqFacts DEF TextsFit
    <3>2. PICK f : f = [i \in 1..n |-> Len(strs[i])] OBVIOUS
    <3>3. \A i \in 1..n : f[i] \in Nat BY <3>1, <3>2
    <3>4. PICK i \in 1..n : \A j \in 1..n : f[j] <= f[i] BY <2>5, <3>3, LargestNumber
    <3>5. PICK S : S = {Len(strs[j]) : j \in DOMAIN strs} OBVIOUS
    <3>6. DOMAIN strs = 1..n BY <2>5
    <3>. HIDE DEF strs
    <3>7. f[i] \in S /\ \A x \in S : f[i] >= x BY <3>2, <3>3, <3>4, <3>5, <3>6
    <3>8. S \subseteq Nat BY <3>1, <3>5, <3>6
    <3>9. Max(S) \in S BY <3>7 DEF Max
    <3>. QED BY <3>5, <3>8, <3>9
  <2>15. FormsFit(forms, e)
    <3>. HIDE DEF Form, plurals
    <3>1. DOMAIN forms = 1..plurals /\ \A p \in 1..plurals : forms[p] = Form(p) BY DEF forms
    <3>2. \A p \in 1..plurals : p \in Nat /\ p >= 1 BY <2>14
    <3>. HIDE DEF forms
    <3>. QED BY <2>12, <3>1, <3>2 DEF FormsFit
  <2>. HIDE DEF strs, comments, forms, whole
  <2>16. /\ IsTmp(r) /\ r.key = tmp.key
         /\ r.str \in {Forms(strs[1]), forms}
         /\ r.comment \in {Sections(comments[1], NoLabel), whole}
    BY <2>0, <2>7 DEF IsTmp
  <2>. QED BY <2>7, <2>8, <2>9, <2>13, <2>15, <2>16
<1>. QED BY <1>1, <1>2

-----------------------------------------------------------------------------
(* The invariant: what has been found out about the messages of the lists   *)
(* md and the results ts, when the loop has come to message n of list a.    *)

ListsOf(c, md) ==
  md = [k \in 1..Len(c.lists) |-> md[k]] /\ \A k \in 1..Len(c.lists) : IsSeq(md[k])
TmpsOf(ts) ==
  /\ ts = [i \in 1..Len(ts) |-> ts[i]] /\ Len(ts) \in Nat
  /\ \A i \in 1..Len(ts) : IsTmp(ts[i])
Original(c, md, k) == \A p \in 1..Len(md[k]) : md[k][p] \in ToSet(c.lists[k].messages)
Blank(tmp) == tmp.str = <<>> /\ tmp.comment = <<>> /\ tmp.alternatives = <<>>

Passed(a, n, k, p) == k < a \/ (k = a /\ p < n)
KeyAt(c, md, k, p) == TmpKey(c.lists[k].domain, md[k][p])

WeakIn(c, m) ==
  /\ ~c.msgcomm_mode
  /\ (~IsHeader(m) /\ m.fuzzy) \/ m.str[1].chars = NoChars
SelectedIn(c, tmp) ==
  LET uses == IF tmp.used >= 0 THEN tmp.used ELSE -tmp.used
  IN IF tmp.key[2] = HeaderId THEN ~c.omit_header
     ELSE uses > c.more_than /\ uses < c.less_than

OneEach(ts) == \A i, j \in 1..Len(ts) : ts[i].key = ts[j].key => i = j
IsKnown(c, md, ts, k, p) == \E i \in 1..Len(ts) : ts[i].key = KeyAt(c, md, k, p)

\* A good translation was counted only if there is one.
Counted(c, md, tmp) ==
  /\ tmp.used \in Int /\ tmp.used # 0
  /\ \E k \in 1..Len(c.lists) : \E p \in 1..Len(md[k]) :
       KeyAt(c, md, k, p) = tmp.key /\ (tmp.used > 0 => ~WeakIn(c, md[k][p]))

CountInv(c, md, ts, a, n) ==
  /\ OneEach(ts)
  /\ \A k \in 1..Len(c.lists) : \A p \in 1..Len(md[k]) :
       Passed(a, n, k, p) => IsKnown(c, md, ts, k, p)
  /\ \A i \in 1..Len(ts) : ts[i].obsolete /\ Counted(c, md, ts[i])

\* A definition of the message was kept, or one that will be is to come.
Kept(c, md, tmp, a, n) ==
  \E k \in 1..Len(c.lists) : \E p \in 1..Len(md[k]) :
    Passed(a, n, k, p) /\ KeyAt(c, md, k, p) = tmp.key
Pending(c, md, tmp, a, n) ==
  /\ c.use_first => tmp.obsolete
  /\ \E k \in 1..Len(c.lists) : \E p \in 1..Len(md[k]) :
       /\ ~Passed(a, n, k, p) /\ KeyAt(c, md, k, p) = tmp.key
       /\ WeakIn(c, md[k][p]) => tmp.used < 0

RemoveInv(c, md, ts, a, n) ==
  /\ OneEach(ts)
  /\ \A k \in 1..Len(c.lists) : \A p \in 1..Len(md[k]) : IsKnown(c, md, ts, k, p)
  /\ \A i \in 1..Len(ts) :
       SelectedIn(c, ts[i]) => Kept(c, md, ts[i], a, n) \/ Pending(c, md, ts[i], a, n)

\* Some definition of each message that is in the result is left.
HeldInv(c, md, ts, tot) ==
  /\ tot \subseteq 1..Len(ts)
  /\ \A i \in tot : \E k \in 1..Len(c.lists) : \E p \in 1..Len(md[k]) :
       KeyAt(c, md, k, p) = ts[i].key

\* Counting, as CountMessage does it.
KnownTmps(ts, key) ==
  IF \E i \in DOMAIN ts : ts[i].key = key THEN ts ELSE Append(ts, NewMessage(key))
UsedIn(c, m, uses) == Used(uses, WeakIn(c, m))
WithUsed(ts, i, uses) == [ts EXCEPT ![i].used = uses]

LEMMA AddedTmp ==
  ASSUME NEW ts, TmpsOf(ts), NEW tmp, IsTmp(tmp)
  PROVE  /\ TmpsOf(Append(ts, tmp)) /\ Len(Append(ts, tmp)) = Len(ts) + 1
         /\ \A i \in 1..Len(ts) : Append(ts, tmp)[i] = ts[i]
         /\ Append(ts, tmp)[Len(ts) + 1] = tmp
<1>1. IsSeq(ts) BY SeqMade DEF TmpsOf
<1>2. PICK S : S = ToSet(ts) OBVIOUS
<1>3. ts \in Seq(S) BY <1>1, <1>2 DEF IsSeq
<1>4. ts \in Seq(S \cup {tmp}) BY <1>3
<1>5. PICK c : c = Append(ts, tmp) OBVIOUS
<1>6. /\ c \in Seq(S \cup {tmp}) /\ Len(c) = Len(ts) + 1 /\ Len(ts) \in Nat
      /\ \A i \in 1..Len(ts) : c[i] = ts[i]
      /\ c[Len(ts) + 1] = tmp
  BY <1>4, <1>5
<1>7. c = [i \in 1..Len(c) |-> c[i]] /\ Len(c) \in Nat BY <1>6
<1>8. \A i \in 1..Len(c) : IsTmp(c[i])
  <2>1. ASSUME NEW i \in 1..Len(c) PROVE IsTmp(c[i])
    <3>1. i \in 1..Len(ts) \/ i = Len(ts) + 1 BY <1>6, <2>1
    <3>. QED BY <1>6, <3>1 DEF TmpsOf
  <2>. QED BY <2>1
<1>. QED BY <1>5, <1>6, <1>7, <1>8 DEF TmpsOf

\* The message itself, with a result of its own if need be.
LEMMA KnownAfter ==
  ASSUME NEW ts, TmpsOf(ts), OneEach(ts), NEW key,
         NEW known, known = KnownTmps(ts, key)
  PROVE  /\ TmpsOf(known) /\ OneEach(known) /\ Len(ts) <= Len(known)
         /\ Tmp(known, key) \in 1..Len(known) /\ known[Tmp(known, key)].key = key
         /\ \A i \in 1..Len(ts) : known[i] = ts[i]
         /\ \A i \in 1..Len(known) :
              i \in 1..Len(ts) \/ (i = Tmp(known, key) /\ known[i] = NewMessage(key))
<1>1. Len(ts) \in Nat /\ DOMAIN ts = 1..Len(ts) BY DEF TmpsOf
<1>2. CASE \E i \in DOMAIN ts : ts[i].key = key
  <2>1. known = ts BY <1>2, Zenon DEF KnownTmps
  <2>2. Tmp(known, key) \in DOMAIN ts /\ known[Tmp(known, key)].key = key
    BY <1>2, <2>1, Zenon DEF Tmp
  <2>. QED BY <1>1, <2>1, <2>2
<1>3. CASE ~\E i \in DOMAIN ts : ts[i].key = key
  <2>1. known = Append(ts, NewMessage(key)) BY <1>3, Zenon DEF KnownTmps
  <2>2. PICK tmp : tmp = NewMessage(key) OBVIOUS
  <2>3. IsTmp(tmp) /\ tmp.key = key BY <2>2 DEF IsTmp, NewMessage
  <2>4. /\ TmpsOf(known) /\ Len(known) = Len(ts) + 1
        /\ \A i \in 1..Len(ts) : known[i] = ts[i]
        /\ known[Len(ts) + 1] = tmp
    BY <2>1, <2>2, <2>3, AddedTmp
  <2>5. DOMAIN known = 1..Len(known) BY <2>4 DEF TmpsOf
  <2>6. Len(ts) + 1 \in DOMAIN known BY <1>1, <2>4, <2>5
  <2>7. Tmp(known, key) \in DOMAIN known /\ known[Tmp(known, key)].key = key
    <3>1. \E i \in DOMAIN known : known[i].key = key BY <2>3, <2>4, <2>6
    <3>. QED BY <3>1, Zenon DEF Tmp
  <2>8. Tmp(known, key) = Len(ts) + 1 BY <1>1, <1>3, <2>4, <2>5, <2>7
  <2>9. OneEach(known)
    <3>1. \A i \in 1..Len(known) : i \in 1..Len(ts) \/ i = Len(ts) + 1 BY <1>1, <2>4
    <3>2. \A i \in 1..Len(ts) : ts[i].key # key BY <1>1, <1>3
    <3>. QED BY <2>3, <2>4, <3>1, <3>2 DEF OneEach
  <2>10. \A i \in 1..Len(known) : i \in 1..Len(ts) \/ i = Len(ts) + 1 BY <1>1, <2>4
  <2>11. Len(ts) <= Len(known) BY <1>1, <2>4
  <2>12. \A i \in 1..Len(known) :
           i \in 1..Len(ts) \/ (i = Tmp(known, key) /\ known[i] = NewMessage(key))
    BY <2>2, <2>4, <2>8, <2>10
  <2>. QED BY <2>4, <2>5, <2>7, <2>9, <2>11, <2>12
<1>. QED BY <1>2, <1>3

LEMMA UsedCounts ==
  ASSUME NEW c, NEW m, NEW uses \in Int
  PROVE  /\ UsedIn(c, m, uses) \in Int /\ UsedIn(c, m, uses) # 0
         /\ UsedIn(c, m, uses) > 0 => ~WeakIn(c, m) \/ uses > 0
<1>1. CASE WeakIn(c, m)
  <2>1. UsedIn(c, m, uses) = IF uses <= 0 THEN uses - 1 ELSE uses BY <1>1, Zenon DEF UsedIn, Used
  <2>. QED BY <2>1
<1>2. CASE ~WeakIn(c, m)
  <2>1. UsedIn(c, m, uses) = (IF uses < 0 THEN 0 ELSE uses) + 1 BY <1>2, Zenon DEF UsedIn, Used
  <2>. QED BY <1>2, <2>1
<1>. QED BY <1>1, <1>2

WithTmp(ts, i, tmp) == [ts EXCEPT ![i] = tmp]

\* One of the results is changed.
LEMMA FieldSet ==
  ASSUME NEW ts, TmpsOf(ts), NEW i \in 1..Len(ts), NEW tmp, IsTmp(tmp)
  PROVE  /\ TmpsOf(WithTmp(ts, i, tmp)) /\ Len(WithTmp(ts, i, tmp)) = Len(ts)
         /\ WithTmp(ts, i, tmp)[i] = tmp
         /\ \A j \in 1..Len(ts) : j # i => WithTmp(ts, i, tmp)[j] = ts[j]
<1>1. Len(ts) \in Nat /\ DOMAIN ts = 1..Len(ts) BY DEF TmpsOf
<1>2. PICK n : n = Len(ts) OBVIOUS
<1>. PICK ts2 : ts2 = WithTmp(ts, i, tmp) OBVIOUS
<1>3. ts2 = [j \in 1..n |-> IF j = i THEN tmp ELSE ts[j]] BY <1>1, <1>2 DEF WithTmp
<1>4. Len(ts2) = n
  <2>1. ts2 = [j \in 1..n |-> ts2[j]] BY <1>3
  <2>. QED BY <1>1, <1>2, <2>1, SeqMade
<1>5. ts2[i] = tmp /\ \A j \in 1..n : j # i => ts2[j] = ts[j] BY <1>2, <1>3
<1>6. ts2 = [j \in 1..n |-> ts2[j]] BY <1>3
<1>7. \A j \in 1..n : IsTmp(ts2[j]) BY <1>2, <1>5 DEF TmpsOf
<1>8. TmpsOf(ts2) /\ Len(ts2) = Len(ts) BY <1>1, <1>2, <1>4, <1>6, <1>7 DEF TmpsOf
<1>. QED BY <1>2, <1>5, <1>8

LEMMA CountKept ==
  ASSUME NEW c, NEW md, NEW ts, NEW a, NEW n, TmpsOf(ts),
         CountInv(c, md, ts, a, n), \A i \in 1..Len(ts) : Blank(ts[i]),
         ListsOf(c, md), a \in 1..Len(c.lists), n \in 1..Len(md[a]),
         NEW known, known = KnownTmps(ts, KeyAt(c, md, a, n)),
         NEW i, i = Tmp(known, KeyAt(c, md, a, n)),
         NEW u, u = UsedIn(c, md[a][n], known[i].used),
         NEW ts2, ts2 = WithUsed(known, i, u)
  PROVE  /\ TmpsOf(ts2) /\ CountInv(c, md, ts2, a, n + 1)
         /\ \A j \in 1..Len(ts2) : Blank(ts2[j])
<1>1. PICK key : key = KeyAt(c, md, a, n) OBVIOUS
<1>2. /\ TmpsOf(known) /\ OneEach(known) /\ Len(ts) <= Len(known)
      /\ i \in 1..Len(known) /\ known[i].key = key
      /\ \A j \in 1..Len(ts) : known[j] = ts[j]
      /\ \A j \in 1..Len(known) : j \in 1..Len(ts) \/ (j = i /\ known[j] = NewMessage(key))
  <2>1. known = KnownTmps(ts, key) BY <1>1
  <2>2. OneEach(ts) BY DEF CountInv
  <2>3. i = Tmp(known, key) BY <1>1
  <2>4. /\ TmpsOf(known) /\ OneEach(known) /\ Len(ts) <= Len(known)
        /\ Tmp(known, key) \in 1..Len(known) /\ known[Tmp(known, key)].key = key
        /\ \A j \in 1..Len(ts) : known[j] = ts[j]
        /\ \A j \in 1..Len(known) :
             j \in 1..Len(ts) \/ (j = Tmp(known, key) /\ known[j] = NewMessage(key))
    BY <2>1, <2>2, KnownAfter
  <2>. QED BY <2>3, <2>4
<1>3. PICK tmp : tmp = [known[i] EXCEPT !.used = u] OBVIOUS
<1>4. IsTmp(known[i]) BY <1>2 DEF TmpsOf
<1>5. /\ IsTmp(tmp) /\ tmp.used = u /\ tmp.key = key /\ tmp.obsolete = known[i].obsolete
      /\ tmp.str = known[i].str /\ tmp.comment = known[i].comment
      /\ tmp.alternatives = known[i].alternatives
  BY <1>2, <1>3, <1>4 DEF IsTmp
<1>6. ts2 = WithTmp(known, i, tmp) BY <1>3 DEF WithTmp, WithUsed
<1>7. /\ TmpsOf(ts2) /\ Len(ts2) = Len(known)
      /\ ts2[i] = tmp /\ \A j \in 1..Len(known) : j # i => ts2[j] = known[j]
  <2>1. TmpsOf(known) /\ i \in 1..Len(known) /\ IsTmp(tmp) BY <1>2, <1>5
  <2>2. /\ TmpsOf(WithTmp(known, i, tmp)) /\ Len(WithTmp(known, i, tmp)) = Len(known)
        /\ WithTmp(known, i, tmp)[i] = tmp
        /\ \A j \in 1..Len(known) : j # i => WithTmp(known, i, tmp)[j] = known[j]
    BY <2>1, FieldSet
  <2>. QED BY <1>6, <2>2
<1>8. /\ NewMessage(key).used = 0 /\ NewMessage(key).obsolete = TRUE
      /\ NewMessage(key).str = <<>> /\ NewMessage(key).comment = <<>>
      /\ NewMessage(key).alternatives = <<>>
  BY DEF NewMessage
<1>9. /\ known[i].used \in Int
      /\ known[i].used > 0 => i \in 1..Len(ts) /\ Counted(c, md, ts[i]) /\ known[i] = ts[i]
  <2>1. CASE i \in 1..Len(ts) BY <1>2, <2>1 DEF CountInv, Counted
  <2>2. CASE known[i] = NewMessage(key) BY <1>8, <2>2
  <2>. QED BY <1>2, <2>1, <2>2
<1>10. u \in Int /\ u # 0 /\ (u > 0 => ~WeakIn(c, md[a][n]) \/ known[i].used > 0)
  BY <1>9, UsedCounts
<1>11. Counted(c, md, tmp)
  <2>1. CASE u > 0 /\ WeakIn(c, md[a][n])
    <3>1. known[i].used > 0 /\ Counted(c, md, ts[i]) /\ known[i] = ts[i] BY <1>9, <1>10, <2>1
    <3>2. ts[i].used > 0 /\ tmp.key = ts[i].key BY <1>2, <1>5, <3>1
    <3>3. \E k \in 1..Len(c.lists) : \E p \in 1..Len(md[k]) :
            KeyAt(c, md, k, p) = tmp.key /\ ~WeakIn(c, md[k][p])
      BY <3>1, <3>2 DEF Counted
    <3>. QED BY <1>5, <1>10, <3>3 DEF Counted
  <2>2. CASE ~(u > 0) \/ ~WeakIn(c, md[a][n])
    BY <1>1, <1>5, <1>10, <2>2 DEF Counted
  <2>. QED BY <2>1, <2>2
<1>12. \A j \in 1..Len(known) : j # i => j \in 1..Len(ts) /\ ts2[j] = ts[j] BY <1>2, <1>7
<1>13. \A j \in 1..Len(ts2) : ts2[j].obsolete /\ Counted(c, md, ts2[j]) /\ Blank(ts2[j])
  <2>1. tmp.obsolete /\ Blank(tmp)
    <3>1. CASE i \in 1..Len(ts)
      <4>1. known[i] = ts[i] /\ ts[i].obsolete /\ Blank(ts[i]) BY <1>2, <3>1 DEF CountInv
      <4>. QED BY <1>5, <4>1 DEF Blank
    <3>2. CASE known[i] = NewMessage(key) BY <1>5, <1>8, <3>2 DEF Blank
    <3>. QED BY <1>2, <3>1, <3>2
  <2>2. \A j \in 1..Len(ts) : ts[j].obsolete /\ Counted(c, md, ts[j]) /\ Blank(ts[j])
    BY DEF CountInv
  <2>. QED BY <1>7, <1>11, <1>12, <2>1, <2>2
<1>14. OneEach(ts2)
  <2>1. \A j \in 1..Len(known) : ts2[j].key = known[j].key BY <1>2, <1>5, <1>7
  <2>. QED BY <1>2, <1>7, <2>1 DEF OneEach
<1>15. ASSUME NEW k \in 1..Len(c.lists), NEW p \in 1..Len(md[k]), Passed(a, n + 1, k, p)
       PROVE  IsKnown(c, md, ts2, k, p)
  <2>1. \A j \in 1..Len(known) : ts2[j].key = known[j].key BY <1>2, <1>5, <1>7
  <2>2. CASE Passed(a, n, k, p)
    <3>1. IsKnown(c, md, ts, k, p) BY <2>2 DEF CountInv
    <3>2. PICK j \in 1..Len(ts) : ts[j].key = KeyAt(c, md, k, p) BY <3>1 DEF IsKnown
    <3>3. j \in 1..Len(known) BY <1>2, <3>2 DEF TmpsOf
    <3>. QED BY <1>2, <1>7, <2>1, <3>2, <3>3 DEF IsKnown
  <2>3. CASE k = a /\ p = n
    BY <1>1, <1>2, <1>5, <1>7, <2>3 DEF IsKnown
  <2>4. p \in Int /\ n \in Int
    <3>1. IsSeq(md[a]) /\ IsSeq(md[k]) BY DEF ListsOf
    <3>. QED OBVIOUS
  <2>5. Passed(a, n, k, p) \/ (k = a /\ p = n) BY <1>15, <2>4 DEF Passed
  <2>. QED BY <2>2, <2>3, <2>5
<1>. QED BY <1>7, <1>13, <1>14, <1>15 DEF CountInv

LEMMA PlaceFacts ==
  ASSUME NEW c \in CatInputs, NEW md, ListsOf(c, md)
  PROVE  /\ Len(c.lists) \in Nat /\ DOMAIN c.lists = 1..Len(c.lists)
         /\ DOMAIN md = 1..Len(c.lists) /\ Len(md) = Len(c.lists)
         /\ \A k \in 1..Len(c.lists) : Len(md[k]) \in Nat /\ FromFile(c.lists[k])
<1>1. IsSeq(c.lists) /\ \A k \in DOMAIN c.lists : FromFile(c.lists[k]) BY CatAssumption
<1>2. Len(c.lists) \in Nat /\ DOMAIN c.lists = 1..Len(c.lists) BY <1>1, SeqFacts
<1>3. PICK n : n = Len(c.lists) OBVIOUS
<1>4. md = [k \in 1..n |-> md[k]] BY <1>3 DEF ListsOf
<1>5. DOMAIN md = 1..n BY <1>4
<1>6. Len(md) = n BY <1>2, <1>3, <1>4, SeqMade
<1>7. \A k \in 1..Len(c.lists) : Len(md[k]) \in Nat BY SeqFacts DEF ListsOf
<1>. QED BY <1>1, <1>2, <1>3, <1>5, <1>6, <1>7

\* At the end of a list.
LEMMA PassedNext ==
  ASSUME NEW c \in CatInputs, NEW md, ListsOf(c, md), NEW a \in Nat, NEW n \in Nat,
         n > Len(md[a]), NEW k \in 1..Len(c.lists), NEW p \in 1..Len(md[k])
  PROVE  Passed(a + 1, 1, k, p) <=> Passed(a, n, k, p)
<1>1. Len(md[k]) \in Nat /\ Len(c.lists) \in Nat BY PlaceFacts
<1>2. k \in Nat /\ p \in Nat /\ p >= 1 /\ p <= Len(md[k]) BY <1>1
<1>. QED BY <1>1, <1>2 DEF Passed

LEMMA CountNext ==
  ASSUME NEW c \in CatInputs, NEW md, ListsOf(c, md), NEW a \in Nat, NEW n \in Nat,
         n > Len(md[a]), NEW ts, CountInv(c, md, ts, a, n)
  PROVE  CountInv(c, md, ts, a + 1, 1)
BY PassedNext DEF CountInv

LEMMA RemoveNext ==
  ASSUME NEW c \in CatInputs, NEW md, ListsOf(c, md), NEW a \in Nat, NEW n \in Nat,
         n > Len(md[a]), NEW ts, RemoveInv(c, md, ts, a, n)
  PROVE  RemoveInv(c, md, ts, a + 1, 1)
<1>1. \A tmp : /\ Kept(c, md, tmp, a, n) => Kept(c, md, tmp, a + 1, 1)
               /\ Pending(c, md, tmp, a, n) => Pending(c, md, tmp, a + 1, 1)
  BY PassedNext DEF Kept, Pending
<1>. QED BY <1>1 DEF RemoveInv

LEMMA RemoveBegins ==
  ASSUME NEW c \in CatInputs, NEW md, ListsOf(c, md), NEW a \in Nat, NEW n \in Nat,
         a > Len(c.lists), NEW ts, CountInv(c, md, ts, a, n)
  PROVE  RemoveInv(c, md, ts, 1, 1)
<1>1. ASSUME NEW k \in 1..Len(c.lists), NEW p \in 1..Len(md[k])
      PROVE  Passed(a, n, k, p) /\ ~Passed(1, 1, k, p)
  <2>1. Len(c.lists) \in Nat /\ Len(md[k]) \in Nat BY PlaceFacts
  <2>2. k \in Nat /\ k >= 1 /\ k <= Len(c.lists) /\ p \in Nat /\ p >= 1 BY <2>1
  <2>. QED BY <2>1, <2>2 DEF Passed
<1>2. \A k \in 1..Len(c.lists) : \A p \in 1..Len(md[k]) : IsKnown(c, md, ts, k, p)
  BY <1>1 DEF CountInv
<1>3. ASSUME NEW i \in 1..Len(ts) PROVE Pending(c, md, ts[i], 1, 1)
  <2>1. ts[i].obsolete /\ Counted(c, md, ts[i]) BY DEF CountInv
  <2>2. ~(ts[i].used > 0) => ts[i].used < 0 BY <2>1 DEF Counted
  <2>. QED BY <1>1, <2>1, <2>2 DEF Counted, Pending
<1>. QED BY <1>2, <1>3 DEF CountInv, RemoveInv

LEMMA RemoveEnds ==
  ASSUME NEW c \in CatInputs, NEW md, ListsOf(c, md), NEW a \in Nat, NEW n \in Nat,
         a > Len(c.lists), NEW ts, RemoveInv(c, md, ts, a, n),
         NEW tot, tot = { i \in 1..Len(ts) : SelectedIn(c, ts[i]) }
  PROVE  HeldInv(c, md, ts, tot)
<1>1. ASSUME NEW k \in 1..Len(c.lists), NEW p \in 1..Len(md[k]) PROVE Passed(a, n, k, p)
  <2>1. Len(c.lists) \in Nat BY PlaceFacts
  <2>. QED BY <2>1 DEF Passed
<1>2. \A tmp : ~Pending(c, md, tmp, a, n) BY <1>1 DEF Pending
<1>3. \A i \in tot : Kept(c, md, ts[i], a, n) BY <1>2 DEF RemoveInv
<1>4. tot \subseteq 1..Len(ts) OBVIOUS
<1>. QED BY <1>3, <1>4 DEF Kept, HeldInv

\* What is_message_needed and is_message_first_needed say.
NeededIn(c, m, tmp) ==
  /\ SelectedIn(c, tmp) /\ (WeakIn(c, m) => tmp.used < 0)
  /\ c.use_first => tmp.obsolete

LEMMA RemoveKeeps ==
  ASSUME NEW c \in CatInputs, NEW md, ListsOf(c, md), NEW ts, TmpsOf(ts),
         NEW a \in 1..Len(c.lists), NEW n \in 1..Len(md[a]), RemoveInv(c, md, ts, a, n),
         NEW i \in 1..Len(ts), ts[i].key = KeyAt(c, md, a, n),
         NEW tmp, IsTmp(tmp), tmp.key = ts[i].key, tmp.used = ts[i].used,
         NEW ts2, ts2 = WithTmp(ts, i, tmp)
  PROVE  RemoveInv(c, md, ts2, a, n + 1)
<1>1. /\ TmpsOf(ts2) /\ Len(ts2) = Len(ts)
      /\ ts2[i] = tmp /\ \A j \in 1..Len(ts) : j # i => ts2[j] = ts[j]
  BY FieldSet
<1>2. \A j \in 1..Len(ts) : ts2[j].key = ts[j].key BY <1>1
<1>3. OneEach(ts2) /\ \A k \in 1..Len(c.lists) : \A p \in 1..Len(md[k]) : IsKnown(c, md, ts2, k, p)
  <2>1. OneEach(ts) BY DEF RemoveInv
  <2>2. OneEach(ts2) BY <1>1, <1>2, <2>1 DEF OneEach
  <2>3. ASSUME NEW k \in 1..Len(c.lists), NEW p \in 1..Len(md[k]) PROVE IsKnown(c, md, ts2, k, p)
    <3>1. IsKnown(c, md, ts, k, p) BY DEF RemoveInv
    <3>. QED BY <1>1, <1>2, <3>1 DEF IsKnown
  <2>. QED BY <2>2, <2>3
<1>4. a \in Nat /\ n \in Nat
  <2>1. Len(c.lists) \in Nat /\ Len(md[a]) \in Nat BY PlaceFacts
  <2>. QED BY <2>1
<1>5. ASSUME NEW k \in 1..Len(c.lists), NEW p \in 1..Len(md[k])
      PROVE  Passed(a, n + 1, k, p) <=> Passed(a, n, k, p) \/ (k = a /\ p = n)
  <2>1. Len(c.lists) \in Nat /\ Len(md[k]) \in Nat BY PlaceFacts
  <2>. QED BY <1>4, <2>1 DEF Passed
<1>6. Kept(c, md, tmp, a, n + 1) BY <1>5 DEF Kept
<1>7. ASSUME NEW j \in 1..Len(ts), j # i, SelectedIn(c, ts[j])
      PROVE  Kept(c, md, ts[j], a, n + 1) \/ Pending(c, md, ts[j], a, n + 1)
  <2>1. ts[j].key # KeyAt(c, md, a, n) BY <1>7 DEF RemoveInv, OneEach
  <2>2. CASE Kept(c, md, ts[j], a, n) BY <1>5, <2>2 DEF Kept
  <2>3. CASE Pending(c, md, ts[j], a, n)
    <3>1. c.use_first => ts[j].obsolete BY <2>3 DEF Pending
    <3>2. PICK k \in 1..Len(c.lists) : \E p \in 1..Len(md[k]) :
            /\ ~Passed(a, n, k, p) /\ KeyAt(c, md, k, p) = ts[j].key
            /\ WeakIn(c, md[k][p]) => ts[j].used < 0
      BY <2>3 DEF Pending
    <3>3. PICK p \in 1..Len(md[k]) :
            /\ ~Passed(a, n, k, p) /\ KeyAt(c, md, k, p) = ts[j].key
            /\ WeakIn(c, md[k][p]) => ts[j].used < 0
      BY <3>2
    <3>4. ~(k = a /\ p = n) BY <2>1, <3>3
    <3>5. ~Passed(a, n + 1, k, p) BY <1>5, <3>3, <3>4
    <3>. QED BY <3>1, <3>3, <3>5 DEF Pending
  <2>. QED BY <1>7, <2>2, <2>3 DEF RemoveInv
<1>8. \A j \in 1..Len(ts2) :
        SelectedIn(c, ts2[j]) => Kept(c, md, ts2[j], a, n + 1) \/ Pending(c, md, ts2[j], a, n + 1)
  BY <1>1, <1>6, <1>7
<1>. QED BY <1>3, <1>8 DEF RemoveInv

Without(md, a, n) == [md EXCEPT ![a] = RemoveAt(@, n)]

\* A list without one of its messages.
LEMMA WithoutMessage ==
  ASSUME NEW c \in CatInputs, NEW md, ListsOf(c, md),
         NEW a \in 1..Len(c.lists), NEW n \in 1..Len(md[a])
  PROVE  LET md2 == Without(md, a, n)
         IN /\ ListsOf(c, md2)
            /\ \A k \in 1..Len(c.lists) : k # a => md2[k] = md[k]
            /\ Len(md2[a]) = Len(md[a]) - 1
            /\ \A p \in 1..(Len(md[a]) - 1) :
                 md2[a][p] = IF p < n THEN md[a][p] ELSE md[a][p + 1]
<1>0. PICK md2 : md2 = Without(md, a, n) OBVIOUS
<1>1. PICK s : s = RemoveAt(md[a], n) OBVIOUS
<1>2. /\ IsSeq(s) /\ Len(s) = Len(md[a]) - 1
      /\ \A p \in 1..(Len(md[a]) - 1) : s[p] = IF p < n THEN md[a][p] ELSE md[a][p + 1]
  <2>1. IsSeq(md[a]) BY DEF ListsOf
  <2>. QED BY <1>1, <2>1, LeftOver
<1>3. md2 = [k \in 1..Len(c.lists) |-> IF k = a THEN s ELSE md[k]]
  <2>1. DOMAIN md = 1..Len(c.lists) BY PlaceFacts
  <2>. QED BY <1>0, <1>1, <2>1 DEF Without
<1>4. md2[a] = s /\ \A k \in 1..Len(c.lists) : k # a => md2[k] = md[k] BY <1>3
<1>5. md2 = [k \in 1..Len(c.lists) |-> md2[k]] BY <1>3
<1>6. ListsOf(c, md2) BY <1>2, <1>4, <1>5 DEF ListsOf
<1>. QED BY <1>0, <1>2, <1>4, <1>6

LEMMA RemoveDrops ==
  ASSUME NEW c \in CatInputs, NEW md, ListsOf(c, md), NEW ts,
         NEW a \in 1..Len(c.lists), NEW n \in 1..Len(md[a]), RemoveInv(c, md, ts, a, n),
         NEW i \in 1..Len(ts), ts[i].key = KeyAt(c, md, a, n), ~NeededIn(c, md[a][n], ts[i]),
         NEW md2, md2 = Without(md, a, n)
  PROVE  RemoveInv(c, md2, ts, a, n)
<1>1. /\ ListsOf(c, md2)
      /\ \A k \in 1..Len(c.lists) : k # a => md2[k] = md[k]
      /\ Len(md2[a]) = Len(md[a]) - 1
      /\ \A p \in 1..(Len(md[a]) - 1) : md2[a][p] = IF p < n THEN md[a][p] ELSE md[a][p + 1]
  <2>1. LET w == Without(md, a, n)
        IN /\ ListsOf(c, w)
           /\ \A k \in 1..Len(c.lists) : k # a => w[k] = md[k]
           /\ Len(w[a]) = Len(md[a]) - 1
           /\ \A p \in 1..(Len(md[a]) - 1) : w[a][p] = IF p < n THEN md[a][p] ELSE md[a][p + 1]
    BY WithoutMessage
  <2>. QED BY <2>1
<1>2. a \in Nat /\ n \in Nat /\ Len(md[a]) \in Nat /\ Len(c.lists) \in Nat
  <2>1. Len(c.lists) \in Nat /\ Len(md[a]) \in Nat BY PlaceFacts
  <2>. QED BY <2>1
\* Where each message was, and where it is.
<1>3. ASSUME NEW k \in 1..Len(c.lists), NEW p \in 1..Len(md2[k])
      PROVE  \E q \in 1..Len(md[k]) : md2[k][p] = md[k][q]
  <2>1. CASE k # a BY <1>1, <2>1
  <2>2. CASE k = a
    <3>1. p \in Nat /\ p >= 1 /\ p <= Len(md[a]) - 1 BY <1>1, <1>2, <2>2
    <3>2. p \in 1..Len(md[a]) /\ p + 1 \in 1..Len(md[a]) BY <1>2, <3>1
    <3>. QED BY <1>1, <2>2, <3>1, <3>2
  <2>. QED BY <2>1, <2>2
<1>4. ASSUME NEW k \in 1..Len(c.lists), NEW p \in 1..Len(md[k]), ~(k = a /\ p = n)
      PROVE  \E q \in 1..Len(md2[k]) :
               md2[k][q] = md[k][p] /\ (Passed(a, n, k, q) <=> Passed(a, n, k, p))
  <2>1. CASE k # a BY <1>1, <1>2, <2>1 DEF Passed
  <2>2. CASE k = a /\ p < n
    <3>1. p \in 1..(Len(md[a]) - 1) BY <1>2, <2>2
    <3>2. p \in 1..Len(md2[k]) /\ md2[k][p] = md[k][p] BY <1>1, <2>2, <3>1
    <3>. QED BY <3>2
  <2>3. CASE k = a /\ ~(p < n)
    <3>1. p \in Nat /\ p > n /\ p <= Len(md[a]) BY <1>2, <1>4, <2>3
    <3>2. p - 1 \in 1..(Len(md[a]) - 1) /\ ~(p - 1 < n) /\ (p - 1) + 1 = p BY <1>2, <3>1
    <3>3. p - 1 \in 1..Len(md2[k]) /\ md2[k][p - 1] = md[k][p] BY <1>1, <2>3, <3>2
    <3>4. ~Passed(a, n, k, p - 1) /\ ~Passed(a, n, k, p) BY <1>2, <2>3, <3>1, <3>2 DEF Passed
    <3>. QED BY <3>3, <3>4
  <2>. QED BY <2>1, <2>2, <2>3
<1>5. ASSUME NEW k \in 1..Len(c.lists), NEW p \in 1..Len(md2[k])
      PROVE  IsKnown(c, md2, ts, k, p)
  <2>1. PICK q \in 1..Len(md[k]) : md2[k][p] = md[k][q] BY <1>3
  <2>2. IsKnown(c, md, ts, k, q) BY DEF RemoveInv
  <2>. QED BY <2>1, <2>2 DEF IsKnown, KeyAt
<1>6. ASSUME NEW j \in 1..Len(ts), SelectedIn(c, ts[j])
      PROVE  Kept(c, md2, ts[j], a, n) \/ Pending(c, md2, ts[j], a, n)
  <2>1. CASE Kept(c, md, ts[j], a, n)
    <3>1. PICK k \in 1..Len(c.lists) : \E p \in 1..Len(md[k]) :
            Passed(a, n, k, p) /\ KeyAt(c, md, k, p) = ts[j].key
      BY <2>1 DEF Kept
    <3>2. PICK p \in 1..Len(md[k]) : Passed(a, n, k, p) /\ KeyAt(c, md, k, p) = ts[j].key
      BY <3>1
    <3>3. ~(k = a /\ p = n) BY <1>2, <3>2 DEF Passed
    <3>4. PICK q \in 1..Len(md2[k]) :
            md2[k][q] = md[k][p] /\ (Passed(a, n, k, q) <=> Passed(a, n, k, p))
      BY <1>4, <3>3
    <3>. QED BY <3>2, <3>4 DEF Kept, KeyAt
  <2>2. CASE Pending(c, md, ts[j], a, n)
    <3>1. c.use_first => ts[j].obsolete BY <2>2 DEF Pending
    <3>2. PICK k \in 1..Len(c.lists) : \E p \in 1..Len(md[k]) :
            /\ ~Passed(a, n, k, p) /\ KeyAt(c, md, k, p) = ts[j].key
            /\ WeakIn(c, md[k][p]) => ts[j].used < 0
      BY <2>2 DEF Pending
    <3>3. PICK p \in 1..Len(md[k]) :
            /\ ~Passed(a, n, k, p) /\ KeyAt(c, md, k, p) = ts[j].key
            /\ WeakIn(c, md[k][p]) => ts[j].used < 0
      BY <3>2
    <3>4. ~(k = a /\ p = n)
      <4>. SUFFICES ASSUME k = a, p = n PROVE FALSE
        OBVIOUS
      <4>1. j = i BY <3>3 DEF RemoveInv, OneEach
      <4>. QED BY <1>6, <3>1, <3>3, <4>1 DEF NeededIn
    <3>5. PICK q \in 1..Len(md2[k]) :
            md2[k][q] = md[k][p] /\ (Passed(a, n, k, q) <=> Passed(a, n, k, p))
      BY <1>4, <3>4
    <3>. QED BY <3>1, <3>3, <3>5 DEF Pending, KeyAt
  <2>. QED BY <1>6, <2>1, <2>2 DEF RemoveInv
<1>. QED BY <1>5, <1>6 DEF RemoveInv

\* A list that was converted.
WithWritten(md, a, target) == [md EXCEPT ![a] = [j \in DOMAIN @ |-> Written(@[j], target)]]

LEMMA WrittenList ==
  ASSUME NEW c \in CatInputs, NEW md, ListsOf(c, md), NEW a \in 1..Len(c.lists), NEW target
  PROVE  LET md2 == WithWritten(md, a, target)
         IN /\ ListsOf(c, md2)
            /\ \A k \in 1..Len(c.lists) : k # a => md2[k] = md[k]
            /\ Len(md2[a]) = Len(md[a])
            /\ \A p \in 1..Len(md[a]) : md2[a][p] = Written(md[a][p], target)
<1>1. PICK md2 : md2 = WithWritten(md, a, target) OBVIOUS
<1>2. PICK n : n = Len(md[a]) OBVIOUS
<1>3. IsSeq(md[a]) /\ n \in Nat /\ DOMAIN md[a] = 1..n
  <2>1. IsSeq(md[a]) BY DEF ListsOf
  <2>. QED BY <1>2, <2>1, SeqFacts
<1>4. PICK s : s = [j \in 1..n |-> Written(md[a][j], target)] OBVIOUS
<1>5. IsSeq(s) /\ Len(s) = n /\ \A p \in 1..n : s[p] = Written(md[a][p], target)
  <2>1. s = [j \in 1..n |-> s[j]] /\ \A p \in 1..n : s[p] = Written(md[a][p], target) BY <1>4
  <2>. QED BY <1>3, <2>1, SeqMade
<1>6. md2 = [k \in 1..Len(c.lists) |-> IF k = a THEN s ELSE md[k]]
  <2>1. DOMAIN md = 1..Len(c.lists) BY PlaceFacts
  <2>. QED BY <1>1, <1>3, <1>4, <2>1 DEF WithWritten
<1>7. md2[a] = s /\ \A k \in 1..Len(c.lists) : k # a => md2[k] = md[k] BY <1>6
<1>8. md2 = [k \in 1..Len(c.lists) |-> md2[k]] BY <1>6
<1>9. ListsOf(c, md2) BY <1>5, <1>7, <1>8 DEF ListsOf
<1>. QED BY <1>1, <1>2, <1>5, <1>7, <1>9

-----------------------------------------------------------------------------
(* The phases.                                                              *)

\* e is the encoding that all texts will have.
EncodedFor(c, md, target, e) ==
  /\ e \in Wanted(c)
  /\ target # NoCode => e = target
  /\ c.to_code # NoCode => target = c.to_code
  /\ \A k \in 1..Len(c.lists) : Len(md[k]) # 0 =>
       /\ target = NoCode => Charset(c.lists[k]) = e
       /\ LabelFits(Identification(c.lists[k]), e)

FillInv(c, md, ts, tot, e) ==
  /\ e \in Wanted(c) /\ tot \subseteq 1..Len(ts)
  /\ \A k \in 1..Len(c.lists) :
       ListFits(md[k], e) /\ (Len(md[k]) # 0 => LabelFits(Identification(c.lists[k]), e))
  /\ \A i \in 1..Len(ts) : ResultFits(ts[i], e)
  /\ \A i \in tot : KeyFits(ts[i].key[2], ts[i].key[3], e)

DoneInv(c, ts, tot, e) ==
  /\ e \in Wanted(c) /\ tot \subseteq 1..Len(ts)
  /\ \A i \in tot : /\ FormsFit(ts[i].str, e) /\ PartsFit(ts[i].comment, e)
                    /\ KeyFits(ts[i].key[2], ts[i].key[3], e)

CatShape ==
  /\ job \in CatInputs /\ ListsOf(job, mdlps) /\ TmpsOf(tmps)
  /\ at \in Nat \ {0} /\ nth \in Nat \ {0}

AllOriginal == \A k \in 1..Len(job.lists) : Original(job, mdlps, k)
AllDecided == \A k \in 1..Len(job.lists) : Decided(job.lists[k])
AllBlank == \A i \in 1..Len(tmps) : Blank(tmps[i])

StartPhase == AllOriginal /\ tmps = <<>> /\ at = 1 /\ nth = 1
CountPhase == AllOriginal /\ AllDecided /\ AllBlank /\ CountInv(job, mdlps, tmps, at, nth)
RemovePhase == AllOriginal /\ AllDecided /\ AllBlank /\ RemoveInv(job, mdlps, tmps, at, nth)
TargetPhase ==
  AllOriginal /\ AllDecided /\ AllBlank /\ HeldInv(job, mdlps, tmps, total) /\ at = 1
Converting(e) ==
  /\ EncodedFor(job, mdlps, to_code, e)
  /\ \A k \in 1..Len(job.lists) :
       IF k < at THEN ListFits(mdlps[k], e) ELSE Original(job, mdlps, k)
ConvertPhase ==
  AllDecided /\ AllBlank /\ HeldInv(job, mdlps, tmps, total) /\ \E e : Converting(e)
FillPhase == \E e : FillInv(job, mdlps, tmps, total, e)
DonePhase == \E e : DoneInv(job, tmps, total, e)

CatInv ==
  /\ CatShape
  /\ catpc \in {"charsets", "count", "remove", "target", "convert", "fill", "combine", "done",
                "failed"}
  /\ catpc = "charsets" => StartPhase
  /\ catpc = "count" => CountPhase
  /\ catpc = "remove" => RemovePhase
  /\ catpc = "target" => TargetPhase
  /\ catpc = "convert" => ConvertPhase
  /\ catpc \in {"fill", "combine"} => FillPhase
  /\ catpc = "done" => DonePhase

LEMMA CatInitially == CatInit => CatInv
<1>. SUFFICES ASSUME CatInit PROVE CatInv
  OBVIOUS
<1>. USE DEF CatInit, CatStart
<1>1. IsSeq(job.lists) /\ \A k \in DOMAIN job.lists : FromFile(job.lists[k]) BY CatAssumption
<1>2. DOMAIN job.lists = 1..Len(job.lists) BY <1>1, SeqFacts
<1>3. mdlps = [k \in 1..Len(job.lists) |-> job.lists[k].messages] BY <1>2
<1>4. mdlps = [k \in 1..Len(job.lists) |-> mdlps[k]]
      /\ \A k \in 1..Len(job.lists) : mdlps[k] = job.lists[k].messages
  BY <1>3
<1>5. \A k \in 1..Len(job.lists) : IsSeq(mdlps[k]) BY <1>1, <1>2, <1>4 DEF FromFile
<1>6. AllOriginal BY <1>4, <1>5, SeqFacts DEF AllOriginal, Original
<1>7. TmpsOf(tmps)
  <2>1. Len(tmps) = 0 /\ tmps = [i \in 1..0 |-> tmps[i]] BY SeqFacts, Singletons
  <2>. QED BY <2>1 DEF TmpsOf
<1>8. CatShape BY <1>4, <1>5, <1>7 DEF CatShape, ListsOf
<1>. QED BY <1>6, <1>8 DEF CatInv, StartPhase

LEMMA CharsetsStep ==
  CatInv /\ Charsets =>
    CatShape' /\ catpc' \in {"failed", "count"} /\ (catpc' = "count" => CountPhase')
<1>. SUFFICES ASSUME CatInv, Charsets
              PROVE  /\ CatShape' /\ catpc' \in {"failed", "count"}
                     /\ catpc' = "count" => CountPhase'
  OBVIOUS
<1>. USE DEF Charsets
<1>1. CatShape /\ StartPhase BY DEF CatInv
<1>2. UNCHANGED <<job, mdlps, tmps, at, nth>> OBVIOUS
<1>3. CatShape' BY <1>1, <1>2 DEF CatShape
<1>4. DOMAIN job.lists = 1..Len(job.lists) BY <1>1, PlaceFacts DEF CatShape
<1>5. ASSUME catpc' = "count" PROVE CountPhase'
  <2>1. AllDecided BY <1>4, <1>5 DEF AllDecided, Decided
  <2>2. Len(tmps) = 0 /\ 1..Len(tmps) = {}
    <3>1. tmps = <<>> BY <1>1 DEF StartPhase
    <3>. QED BY <3>1
  <2>3. ASSUME NEW k \in 1..Len(job.lists), NEW p \in 1..Len(mdlps[k]) PROVE ~Passed(at, nth, k, p)
    <3>1. Len(job.lists) \in Nat /\ Len(mdlps[k]) \in Nat BY <1>1, PlaceFacts DEF CatShape
    <3>2. at = 1 /\ nth = 1 BY <1>1 DEF StartPhase
    <3>. QED BY <3>1, <3>2 DEF Passed
  <2>4. CountInv(job, mdlps, tmps, at, nth) BY <2>2, <2>3 DEF CountInv, OneEach
  <2>5. AllBlank BY <2>2 DEF AllBlank
  <2>6. CountPhase BY <1>1, <2>1, <2>4, <2>5 DEF CountPhase, StartPhase
  <2>. QED BY <1>2, <2>6 DEF CountPhase, AllOriginal, AllDecided, AllBlank
<1>. QED BY <1>3, <1>5

LEMMA AtPlace ==
  ASSUME CatShape, NEW loop
  PROVE  /\ InLoop(loop) => at \in 1..Len(job.lists)
         /\ AtMessage(loop) => at \in 1..Len(job.lists) /\ nth \in 1..Len(mdlps[at])
         /\ at > Len(mdlps) => at > Len(job.lists)
<1>1. Len(mdlps) = Len(job.lists) /\ Len(job.lists) \in Nat
      /\ \A k \in 1..Len(job.lists) : Len(mdlps[k]) \in Nat
  BY PlaceFacts DEF CatShape
<1>. QED BY <1>1 DEF CatShape, InLoop, AtMessage

LEMMA CountStep ==
  CatInv /\ CountMessage => CatShape' /\ catpc' = "count" /\ CountPhase'
<1>. SUFFICES ASSUME CatInv, CountMessage PROVE CatShape' /\ catpc' = "count" /\ CountPhase'
  OBVIOUS
<1>1. catpc = "count" /\ AtMessage("count") BY DEF CountMessage, AtMessage, InLoop
<1>2. CatShape /\ CountPhase BY <1>1 DEF CatInv
<1>3. at \in 1..Len(job.lists) /\ nth \in 1..Len(mdlps[at]) BY <1>1, <1>2, AtPlace
<1>4. PICK key : key = KeyAt(job, mdlps, at, nth) OBVIOUS
<1>5. PICK known : known = KnownTmps(tmps, key) OBVIOUS
<1>6. PICK i : i = Tmp(known, key) OBVIOUS
<1>7. PICK u : u = UsedIn(job, mdlps[at][nth], known[i].used) OBVIOUS
<1>8. tmps' = WithUsed(known, i, u)
  <2>1. TmpKey(job.lists[at].domain, mp) = key BY <1>4 DEF mp, KeyAt
  <2>2. known = IF \E j \in DOMAIN tmps : tmps[j].key = key THEN tmps
                ELSE Append(tmps, NewMessage(key))
    BY <1>5, Zenon DEF KnownTmps
  <2>3. Used(known[i].used, Weak(mp)) = u BY <1>7, Zenon DEF UsedIn, Weak, WeakIn, mp
  <2>4. tmps' = [known EXCEPT ![i].used = Used(@, Weak(mp))]
    BY <1>6, <2>1, <2>2, Zenon DEF CountMessage
  <2>. QED BY <2>3, <2>4, Zenon DEF WithUsed
<1>9. /\ TmpsOf(tmps') /\ CountInv(job, mdlps, tmps', at, nth + 1)
      /\ \A j \in 1..Len(tmps') : Blank(tmps'[j])
  <2>1. /\ TmpsOf(tmps) /\ ListsOf(job, mdlps) /\ CountInv(job, mdlps, tmps, at, nth)
        /\ \A j \in 1..Len(tmps) : Blank(tmps[j])
    BY <1>2 DEF CatShape, CountPhase, AllBlank
  <2>2. PICK ts2 : ts2 = WithUsed(known, i, u) OBVIOUS
  <2>3. /\ TmpsOf(ts2) /\ CountInv(job, mdlps, ts2, at, nth + 1)
        /\ \A j \in 1..Len(ts2) : Blank(ts2[j])
    BY <1>3, <1>4, <1>5, <1>6, <1>7, <2>1, <2>2, CountKept
  <2>. QED BY <1>8, <2>2, <2>3
<1>10. nth' = nth + 1 /\ UNCHANGED <<job, mdlps, catpc, at>> BY DEF CountMessage
<1>11. CatShape' BY <1>2, <1>9, <1>10 DEF CatShape
<1>12. AllOriginal' /\ AllDecided' BY <1>2, <1>10 DEF CountPhase, AllOriginal, AllDecided
<1>13. CountPhase' BY <1>9, <1>10, <1>12 DEF CountPhase, AllBlank
<1>. QED BY <1>1, <1>10, <1>11, <1>13

LEMMA NextListStep ==
  CatInv /\ NextList => CatInv'
<1>. SUFFICES ASSUME CatInv, NextList PROVE CatInv'
  OBVIOUS
<1>1. UNCHANGED <<job, mdlps, tmps, total, to_code, catpc>> /\ at' = at + 1 /\ nth' = 1
  BY DEF NextList
<1>2. /\ catpc \in {"count", "remove", "fill"}
      /\ at \in 1..Len(job.lists) /\ nth > Len(mdlps[at])
  <2>1. PICK loop \in {"count", "remove", "fill"} : InLoop(loop) /\ ~AtMessage(loop)
    BY DEF NextList
  <2>2. CatShape BY DEF CatInv
  <2>3. at \in 1..Len(job.lists) BY <2>1, <2>2, AtPlace
  <2>4. Len(mdlps[at]) \in Nat BY <2>2, <2>3, PlaceFacts DEF CatShape
  <2>5. catpc = loop /\ ~(nth <= Len(mdlps[at])) BY <2>1 DEF InLoop, AtMessage
  <2>6. nth \in Nat BY <2>2 DEF CatShape
  <2>. QED BY <2>1, <2>3, <2>4, <2>5, <2>6
<1>3. CatShape BY DEF CatInv
<1>4. CatShape' BY <1>1, <1>3 DEF CatShape
<1>5. job \in CatInputs /\ ListsOf(job, mdlps) /\ at \in Nat /\ nth \in Nat BY <1>3 DEF CatShape
<1>6. CASE catpc = "count"
  <2>1. CountPhase BY <1>6 DEF CatInv
  <2>2. CountInv(job, mdlps, tmps, at + 1, 1) BY <1>2, <1>5, <2>1, CountNext DEF CountPhase
  <2>3. CountPhase' BY <1>1, <2>1, <2>2 DEF CountPhase, AllOriginal, AllDecided, AllBlank
  <2>. QED BY <1>1, <1>4, <1>6, <2>3 DEF CatInv
<1>7. CASE catpc = "remove"
  <2>1. RemovePhase BY <1>7 DEF CatInv
  <2>2. RemoveInv(job, mdlps, tmps, at + 1, 1) BY <1>2, <1>5, <2>1, RemoveNext DEF RemovePhase
  <2>3. RemovePhase' BY <1>1, <2>1, <2>2 DEF RemovePhase, AllOriginal, AllDecided, AllBlank
  <2>. QED BY <1>1, <1>4, <1>7, <2>3 DEF CatInv
<1>8. CASE catpc = "fill"
  <2>1. FillPhase BY <1>8 DEF CatInv
  <2>2. FillPhase' BY <1>1, <2>1 DEF FillPhase
  <2>. QED BY <1>1, <1>4, <1>8, <2>2 DEF CatInv
<1>. QED BY <1>2, <1>6, <1>7, <1>8

LEMMA EndCountStep ==
  CatInv /\ EndCount => CatShape' /\ catpc' = "remove" /\ RemovePhase'
<1>. SUFFICES ASSUME CatInv, EndCount PROVE CatShape' /\ catpc' = "remove" /\ RemovePhase'
  OBVIOUS
<1>1. /\ catpc = "count" /\ at > Len(mdlps) /\ catpc' = "remove" /\ at' = 1 /\ nth' = 1
      /\ UNCHANGED <<job, mdlps, tmps>>
  BY DEF EndCount, EndLoop
<1>2. CatShape /\ CountPhase BY <1>1 DEF CatInv
<1>3. at > Len(job.lists) BY <1>1, <1>2, AtPlace
<1>4. RemoveInv(job, mdlps, tmps, 1, 1) BY <1>2, <1>3, RemoveBegins DEF CatShape, CountPhase
<1>5. CatShape' BY <1>1, <1>2 DEF CatShape
<1>6. RemovePhase'
  BY <1>1, <1>2, <1>4 DEF RemovePhase, CountPhase, AllOriginal, AllDecided, AllBlank
<1>. QED BY <1>1, <1>5, <1>6

LEMMA RemoveMessageStep ==
  CatInv /\ RemoveMessage => CatShape' /\ catpc' = "remove" /\ RemovePhase'
<1>. SUFFICES ASSUME CatInv, RemoveMessage PROVE CatShape' /\ catpc' = "remove" /\ RemovePhase'
  OBVIOUS
<1>1. catpc = "remove" /\ AtMessage("remove") /\ UNCHANGED <<job, catpc, at>>
  BY DEF RemoveMessage, AtMessage, InLoop
<1>2. CatShape /\ RemovePhase BY <1>1 DEF CatInv
<1>3. at \in 1..Len(job.lists) /\ nth \in 1..Len(mdlps[at]) BY <1>1, <1>2, AtPlace
<1>4. PICK key : key = KeyAt(job, mdlps, at, nth) OBVIOUS
<1>5. TmpKey(job.lists[at].domain, mp) = key BY <1>4 DEF mp, KeyAt
<1>6. PICK i : i = Tmp(tmps, key) OBVIOUS
<1>7. i \in 1..Len(tmps) /\ tmps[i].key = key
  <2>1. DOMAIN tmps = 1..Len(tmps) BY <1>2 DEF CatShape, TmpsOf
  <2>2. \E j \in 1..Len(tmps) : tmps[j].key = key
    BY <1>2, <1>3, <1>4 DEF RemovePhase, RemoveInv, IsKnown
  <2>. QED BY <1>6, <2>1, <2>2, Zenon DEF Tmp
<1>8. IsTmp(tmps[i]) BY <1>2, <1>7 DEF CatShape, TmpsOf
<1>9. /\ job \in CatInputs /\ ListsOf(job, mdlps) /\ TmpsOf(tmps)
      /\ RemoveInv(job, mdlps, tmps, at, nth)
  BY <1>2 DEF CatShape, RemovePhase
<1>10. NeededIn(job, mp, tmps[i]) <=> Needed(mp, tmps[i]) /\ (job.use_first => tmps[i].obsolete)
  BY Zenon DEF NeededIn, Needed, Selected, SelectedIn, Weak, WeakIn
<1>11. CASE NeededIn(job, mp, tmps[i])
  <2>1. /\ tmps' = IF job.use_first THEN [tmps EXCEPT ![i].obsolete = FALSE] ELSE tmps
        /\ nth' = nth + 1 /\ mdlps' = mdlps
    BY <1>5, <1>6, <1>10, <1>11, Zenon DEF RemoveMessage
  <2>2. PICK tmp : tmp = IF job.use_first THEN [tmps[i] EXCEPT !.obsolete = FALSE] ELSE tmps[i]
    OBVIOUS
  <2>3. /\ IsTmp(tmp) /\ tmp.key = tmps[i].key /\ tmp.used = tmps[i].used
        /\ tmp.str = tmps[i].str /\ tmp.comment = tmps[i].comment
        /\ tmp.alternatives = tmps[i].alternatives
    BY <1>8, <2>2 DEF IsTmp
  <2>4. tmps' = WithTmp(tmps, i, tmp)
    <3>1. CASE job.use_first
      <4>1. tmps' = [tmps EXCEPT ![i].obsolete = FALSE] BY <2>1, <3>1
      <4>2. tmp = [tmps[i] EXCEPT !.obsolete = FALSE] BY <2>2, <3>1
      <4>. QED BY <4>1, <4>2 DEF WithTmp
    <3>2. CASE ~job.use_first
      <4>1. tmps' = tmps /\ tmp = tmps[i] BY <2>1, <2>2, <3>2
      <4>2. PICK n : n = Len(tmps) OBVIOUS
      <4>3. tmps = [j \in 1..n |-> tmps[j]] /\ i \in 1..n BY <1>7, <1>9, <4>2 DEF TmpsOf
      <4>4. [tmps EXCEPT ![i] = tmps[i]] = tmps BY <4>3
      <4>. QED BY <4>1, <4>4 DEF WithTmp
    <3>. QED BY <3>1, <3>2
  <2>5. PICK ts2 : ts2 = WithTmp(tmps, i, tmp) OBVIOUS
  <2>6. RemoveInv(job, mdlps, ts2, at, nth + 1)
    BY <1>3, <1>4, <1>7, <1>9, <2>3, <2>5, RemoveKeeps
  <2>7. /\ TmpsOf(ts2) /\ Len(ts2) = Len(tmps)
        /\ ts2[i] = tmp /\ \A j \in 1..Len(tmps) : j # i => ts2[j] = tmps[j]
    <3>1. /\ TmpsOf(WithTmp(tmps, i, tmp)) /\ Len(WithTmp(tmps, i, tmp)) = Len(tmps)
          /\ WithTmp(tmps, i, tmp)[i] = tmp
          /\ \A j \in 1..Len(tmps) : j # i => WithTmp(tmps, i, tmp)[j] = tmps[j]
      BY <1>7, <1>9, <2>3, FieldSet
    <3>. QED BY <2>5, <3>1
  <2>8. \A j \in 1..Len(ts2) : Blank(ts2[j])
    BY <1>2, <1>7, <2>3, <2>7 DEF RemovePhase, AllBlank, Blank
  <2>9. nth' \in Nat \ {0} BY <1>2, <2>1 DEF CatShape
  <2>10. tmps' = ts2 BY <2>4, <2>5
  <2>11. CatShape' BY <1>1, <1>2, <2>1, <2>7, <2>9, <2>10 DEF CatShape
  <2>12. RemovePhase'
    BY <1>1, <1>2, <2>1, <2>6, <2>8, <2>10 DEF RemovePhase, AllOriginal, AllDecided, AllBlank
  <2>. QED BY <1>1, <2>11, <2>12
<1>12. CASE ~NeededIn(job, mp, tmps[i])
  <2>1. mdlps' = [mdlps EXCEPT ![at] = RemoveAt(@, nth)] /\ UNCHANGED <<tmps, nth>>
    BY <1>5, <1>6, <1>10, <1>12, Zenon DEF RemoveMessage
  <2>2. PICK md2 : md2 = Without(mdlps, at, nth) OBVIOUS
  <2>3. mdlps' = md2 BY <2>1, <2>2 DEF Without
  <2>4. ~NeededIn(job, mdlps[at][nth], tmps[i]) BY <1>12 DEF mp
  <2>5. RemoveInv(job, md2, tmps, at, nth)
    BY <1>3, <1>4, <1>7, <1>9, <2>2, <2>4, RemoveDrops
  <2>6. /\ ListsOf(job, md2)
        /\ \A k \in 1..Len(job.lists) : k # at => md2[k] = mdlps[k]
        /\ Len(md2[at]) = Len(mdlps[at]) - 1
        /\ \A p \in 1..(Len(mdlps[at]) - 1) :
             md2[at][p] = IF p < nth THEN mdlps[at][p] ELSE mdlps[at][p + 1]
    <3>1. LET w == Without(mdlps, at, nth)
          IN /\ ListsOf(job, w)
             /\ \A k \in 1..Len(job.lists) : k # at => w[k] = mdlps[k]
             /\ Len(w[at]) = Len(mdlps[at]) - 1
             /\ \A p \in 1..(Len(mdlps[at]) - 1) :
                  w[at][p] = IF p < nth THEN mdlps[at][p] ELSE mdlps[at][p + 1]
      BY <1>3, <1>9, WithoutMessage
    <3>. QED BY <2>2, <3>1
  <2>7. \A k \in 1..Len(job.lists) : Original(job, md2, k)
    <3>1. ASSUME NEW k \in 1..Len(job.lists), NEW p \in 1..Len(md2[k])
          PROVE  md2[k][p] \in ToSet(job.lists[k].messages)
      <4>1. \A q \in 1..Len(mdlps[k]) : mdlps[k][q] \in ToSet(job.lists[k].messages)
        BY <1>2 DEF RemovePhase, AllOriginal, Original
      <4>2. CASE k # at BY <2>6, <4>1, <4>2
      <4>3. CASE k = at
        <5>1. Len(mdlps[at]) \in Nat BY <1>3, <1>9, PlaceFacts
        <5>2. p \in 1..(Len(mdlps[at]) - 1) BY <2>6, <4>3
        <5>3. p \in 1..Len(mdlps[at]) /\ p + 1 \in 1..Len(mdlps[at]) BY <5>1, <5>2
        <5>. QED BY <2>6, <4>1, <4>3, <5>2, <5>3
      <4>. QED BY <4>2, <4>3
    <3>. QED BY <3>1 DEF Original
  <2>8. CatShape' BY <1>1, <1>2, <2>1, <2>3, <2>6 DEF CatShape
  <2>9. RemovePhase'
    BY <1>1, <1>2, <2>1, <2>3, <2>5, <2>7 DEF RemovePhase, AllOriginal, AllDecided, AllBlank
  <2>. QED BY <1>1, <2>8, <2>9
<1>. QED BY <1>11, <1>12

LEMMA EndRemoveStep ==
  CatInv /\ EndRemove => CatShape' /\ catpc' = "target" /\ TargetPhase'
<1>. SUFFICES ASSUME CatInv, EndRemove PROVE CatShape' /\ catpc' = "target" /\ TargetPhase'
  OBVIOUS
<1>1. /\ catpc = "remove" /\ at > Len(mdlps) /\ catpc' = "target" /\ at' = 1 /\ nth' = 1
      /\ UNCHANGED <<job, mdlps, tmps>>
      /\ total' = { i \in DOMAIN tmps : Selected(tmps[i]) }
  BY DEF EndRemove, EndLoop
<1>2. CatShape /\ RemovePhase BY <1>1 DEF CatInv
<1>3. at > Len(job.lists) BY <1>1, <1>2, AtPlace
<1>4. PICK tot : tot = { i \in 1..Len(tmps) : SelectedIn(job, tmps[i]) } OBVIOUS
<1>5. total' = tot
  <2>1. DOMAIN tmps = 1..Len(tmps) BY <1>2 DEF CatShape, TmpsOf
  <2>2. \A tmp : Selected(tmp) <=> SelectedIn(job, tmp) BY Zenon DEF Selected, SelectedIn
  <2>. QED BY <1>1, <1>4, <2>1, <2>2
<1>6. HeldInv(job, mdlps, tmps, tot)
  BY <1>2, <1>3, <1>4, RemoveEnds DEF CatShape, RemovePhase
<1>7. CatShape' BY <1>1, <1>2 DEF CatShape
<1>8. TargetPhase'
  BY <1>1, <1>2, <1>5, <1>6 DEF TargetPhase, RemovePhase, AllOriginal, AllDecided, AllBlank
<1>. QED BY <1>1, <1>7, <1>8

LEMMA TargetStep ==
  ASSUME NamesFit
  PROVE  CatInv /\ TargetEncoding => CatShape' /\ catpc' = "convert" /\ ConvertPhase'
<1>. SUFFICES ASSUME CatInv, TargetEncoding PROVE CatShape' /\ catpc' = "convert" /\ ConvertPhase'
  OBVIOUS
<1>1. catpc = "target" /\ catpc' = "convert" /\ UNCHANGED <<job, mdlps, tmps, total, at, nth>>
  BY DEF TargetEncoding
<1>2. CatShape /\ TargetPhase BY <1>1 DEF CatInv
<1>3. PICK codes : codes = { Charset(job.lists[k]) : k \in { i \in DOMAIN mdlps : mdlps[i] # <<>> } }
  OBVIOUS
<1>4. to_code' = Target(job, codes) BY <1>3, Zenon DEF TargetEncoding, Target
<1>5. job \in CatInputs /\ ListsOf(job, mdlps) BY <1>2 DEF CatShape
<1>6. /\ DOMAIN mdlps = 1..Len(job.lists) /\ DOMAIN job.lists = 1..Len(job.lists)
      /\ \A k \in 1..Len(job.lists) : FromFile(job.lists[k]) /\ Decided(job.lists[k])
  BY <1>2, <1>5, PlaceFacts DEF TargetPhase, AllDecided
<1>7. codes \in SUBSET DOMAIN Repertoire
  <2>1. \A k \in 1..Len(job.lists) : Charset(job.lists[k]) \in DOMAIN Repertoire
    BY <1>6 DEF FromFile, Decided
  <2>. QED BY <1>3, <1>6, <2>1
<1>8. PICK target : target = to_code' OBVIOUS
<1>9. PICK e : EncodingFor(job, codes, target, e) BY <1>4, <1>5, <1>7, <1>8, TargetIsEncoding
<1>10. ASSUME NEW k \in 1..Len(job.lists), Len(mdlps[k]) # 0
       PROVE  Charset(job.lists[k]) \in codes
  <2>1. mdlps[k] # <<>> BY <1>10
  <2>. QED BY <1>3, <1>6, <2>1
<1>11. EncodedFor(job, mdlps, target, e)
  <2>1. ASSUME NEW k \in 1..Len(job.lists), Len(mdlps[k]) # 0
        PROVE  /\ target = NoCode => Charset(job.lists[k]) = e
               /\ LabelFits(Identification(job.lists[k]), e)
    <3>1. Charset(job.lists[k]) \in codes BY <1>10, <2>1
    <3>2. target = NoCode => Charset(job.lists[k]) = e BY <1>9, <3>1 DEF EncodingFor
    <3>3. /\ Charset(job.lists[k]) \in AsciiCompatible
          /\ job.to_code # NoCode => job.to_code \in AsciiCompatible
          => e \in AsciiCompatible
      BY <1>9, <3>1 DEF EncodingFor
    <3>4. LabelFits(Identification(job.lists[k]), e) BY <1>5, <1>6, <3>3, IdentificationFits
    <3>. QED BY <3>2, <3>4
  <2>. QED BY <1>9, <2>1 DEF EncodedFor, EncodingFor
<1>12. ASSUME NEW k \in 1..Len(job.lists)
       PROVE  IF k < at THEN ListFits(mdlps[k], e) ELSE Original(job, mdlps, k)
  <2>1. ~(k < at)
    <3>1. Len(job.lists) \in Nat BY <1>5, PlaceFacts
    <3>. QED BY <1>2, <3>1 DEF TargetPhase
  <2>2. Original(job, mdlps, k) BY <1>2 DEF TargetPhase, AllOriginal
  <2>. QED BY <2>1, <2>2
<1>13. Converting(e)' BY <1>1, <1>8, <1>11, <1>12 DEF Converting
<1>14. ConvertPhase' BY <1>1, <1>2, <1>13 DEF ConvertPhase, TargetPhase, AllDecided, AllBlank
<1>15. CatShape' BY <1>1, <1>2 DEF CatShape
<1>. QED BY <1>1, <1>14, <1>15

LEMMA ConvertListStep ==
  CatInv /\ ConvertList =>
    CatShape' /\ catpc' \in {"failed", "convert"} /\ (catpc' = "convert" => ConvertPhase')
<1>. SUFFICES ASSUME CatInv, ConvertList
              PROVE  /\ CatShape' /\ catpc' \in {"failed", "convert"}
                     /\ catpc' = "convert" => ConvertPhase'
  OBVIOUS
<1>1. catpc = "convert" /\ InLoop("convert") /\ UNCHANGED <<job, tmps, total, to_code, nth>>
  BY DEF ConvertList, InLoop
<1>2. CatShape /\ ConvertPhase BY <1>1 DEF CatInv
<1>3. at \in 1..Len(job.lists) BY <1>1, <1>2, AtPlace
<1>. DEFINE Fails == /\ Converts(at)
                     /\ \E j \in DOMAIN mdlps[at] : Unconvertible(mdlps[at][j], Charset(job.lists[at]))
<1>4. CASE Fails
  <2>1. catpc' = "failed" /\ UNCHANGED <<mdlps, at>> BY <1>4, Zenon DEF ConvertList
  <2>. QED BY <1>1, <1>2, <2>1 DEF CatShape
<1>5. CASE ~Fails
  <2>1. /\ mdlps' = IF Converts(at)
                    THEN [mdlps EXCEPT ![at] = [j \in DOMAIN @ |-> Converted(@[j])]]
                    ELSE mdlps
        /\ at' = at + 1 /\ catpc' = "convert"
    BY <1>1, <1>5, Zenon DEF ConvertList
  <2>2. job \in CatInputs /\ ListsOf(job, mdlps) BY <1>2 DEF CatShape
  <2>3. /\ IsSeq(mdlps[at]) /\ Len(job.lists) \in Nat
        /\ FromFile(job.lists[at]) /\ Decided(job.lists[at])
    BY <1>2, <1>3, <2>2, PlaceFacts DEF ListsOf, ConvertPhase, AllDecided
  <2>4. PICK e : Converting(e) BY <1>2 DEF ConvertPhase
  <2>5. EncodedFor(job, mdlps, to_code, e) BY <2>4 DEF Converting
  <2>6. \A p \in 1..Len(mdlps[at]) : mdlps[at][p] \in ToSet(job.lists[at].messages)
    <3>1. Original(job, mdlps, at) BY <1>3, <2>3, <2>4 DEF Converting
    <3>. QED BY <3>1 DEF Original
  <2>7. PICK md2 : md2 = mdlps' OBVIOUS
\* What becomes of the lists.
  <2>8. /\ ListsOf(job, md2) /\ Len(md2[at]) = Len(mdlps[at])
        /\ \A k \in 1..Len(job.lists) : k # at => md2[k] = mdlps[k]
        /\ ListFits(md2[at], e)
        /\ \A p \in 1..Len(mdlps[at]) : md2[at][p].id = mdlps[at][p].id
    <3>1. CASE Converts(at)
      <4>1. \A m : Converted(m) = Written(m, to_code) BY Zenon DEF Converted, Written
      <4>2. PICK target : target = to_code OBVIOUS
      <4>3. md2 = WithWritten(mdlps, at, target)
        <5>1. PICK s : s = mdlps[at] OBVIOUS
        <5>2. md2 = [mdlps EXCEPT ![at] = [j \in DOMAIN s |-> Converted(s[j])]]
          BY <2>1, <2>7, <3>1, <5>1
        <5>3. [j \in DOMAIN s |-> Converted(s[j])] = [j \in DOMAIN s |-> Written(s[j], target)]
          BY <4>1, <4>2
        <5>4. md2 = [mdlps EXCEPT ![at] = [j \in DOMAIN s |-> Written(s[j], target)]]
          BY <5>2, <5>3, Zenon
        <5>. QED BY <5>1, <5>4 DEF WithWritten
      <4>4. LET w == WithWritten(mdlps, at, target)
            IN /\ ListsOf(job, w)
               /\ \A k \in 1..Len(job.lists) : k # at => w[k] = mdlps[k]
               /\ Len(w[at]) = Len(mdlps[at])
               /\ \A p \in 1..Len(mdlps[at]) : w[at][p] = Written(mdlps[at][p], target)
        BY <1>3, <2>2, WrittenList
      <4>5. /\ ListsOf(job, md2)
            /\ \A k \in 1..Len(job.lists) : k # at => md2[k] = mdlps[k]
            /\ Len(md2[at]) = Len(mdlps[at])
            /\ \A p \in 1..Len(mdlps[at]) : md2[at][p] = Written(mdlps[at][p], target)
        BY <4>3, <4>4
      <4>6. target = e BY <2>5, <3>1, <4>2 DEF EncodedFor, Converts
      <4>7. ASSUME NEW p \in 1..Len(mdlps[at])
            PROVE  /\ MessageFits(md2[at][p], e)
                   /\ md2[at][p].id = mdlps[at][p].id
        <5>1. PICK m : m = mdlps[at][p] OBVIOUS
        <5>2. m \in ToSet(job.lists[at].messages) BY <2>6, <5>1
        <5>3. Charset(job.lists[at]) # e => is_ascii(m.id.chars)
          <6>1. p \in DOMAIN mdlps[at] BY <2>3, SeqFacts
          <6>2. ~Unconvertible(m, Charset(job.lists[at])) BY <1>5, <3>1, <5>1, <6>1
          <6>. QED BY <4>2, <4>6, <6>2, Zenon DEF Unconvertible
        <5>4. PICK list : list = job.lists[at] OBVIOUS
        <5>5. MessageFits(Written(m, e), e) /\ Written(m, e).id = m.id
          BY <2>3, <5>2, <5>3, <5>4, WrittenMessageFits
        <5>. QED BY <4>5, <4>6, <5>1, <5>5
      <4>. QED BY <4>5, <4>7 DEF ListFits
    <3>2. CASE ~Converts(at)
      <4>1. md2 = mdlps BY <2>1, <2>7, <3>2
      <4>2. ListFits(mdlps[at], e)
        <5>1. ASSUME NEW p \in 1..Len(mdlps[at]) PROVE MessageFits(mdlps[at][p], e)
          <6>1. Len(mdlps[at]) # 0 /\ mdlps[at] # <<>>
            <7>1. Len(mdlps[at]) # 0 BY <2>3, SeqFacts
            <7>. QED BY <7>1
          <6>2. to_code = NoCode \/ (job.to_code = NoCode /\ Charset(job.lists[at]) = to_code)
            BY <3>2, <6>1 DEF Converts
          <6>3. to_code # NoCode => e = to_code BY <2>5 DEF EncodedFor
          <6>4. to_code = NoCode => Charset(job.lists[at]) = e BY <1>3, <2>5, <6>1 DEF EncodedFor
          <6>5. Charset(job.lists[at]) = e BY <6>2, <6>3, <6>4
          <6>6. mdlps[at][p] \in ToSet(job.lists[at].messages) BY <2>6
          <6>7. PICK list, m : list = job.lists[at] /\ m = mdlps[at][p] OBVIOUS
          <6>. QED BY <2>3, <6>5, <6>6, <6>7, ReadFits
        <5>. QED BY <5>1 DEF ListFits
      <4>. QED BY <2>2, <4>1, <4>2
    <3>. QED BY <3>1, <3>2
  <2>9. \A k \in 1..Len(job.lists) : Len(md2[k]) = Len(mdlps[k]) BY <2>8
  <2>10. EncodedFor(job, md2, to_code, e) BY <2>5, <2>9 DEF EncodedFor
  <2>11. ASSUME NEW k \in 1..Len(job.lists)
         PROVE  IF k < at + 1 THEN ListFits(md2[k], e) ELSE Original(job, md2, k)
    <3>1. IF k < at THEN ListFits(mdlps[k], e) ELSE Original(job, mdlps, k) BY <2>4 DEF Converting
    <3>2. CASE k = at
      <4>1. k < at + 1 BY <2>3, <3>2
      <4>. QED BY <2>8, <3>2, <4>1
    <3>3. CASE k # at
      <4>1. md2[k] = mdlps[k] BY <2>8, <3>3
      <4>2. k < at + 1 <=> k < at BY <1>3, <2>3, <3>3
      <4>. QED BY <3>1, <4>1, <4>2 DEF Original
    <3>. QED BY <3>2, <3>3
  <2>12. Converting(e)' BY <1>1, <2>1, <2>7, <2>10, <2>11 DEF Converting
  <2>13. HeldInv(job, md2, tmps, total)
    <3>1. HeldInv(job, mdlps, tmps, total) BY <1>2 DEF ConvertPhase
    <3>2. ASSUME NEW k \in 1..Len(job.lists), NEW p \in 1..Len(mdlps[k])
          PROVE  KeyAt(job, md2, k, p) = KeyAt(job, mdlps, k, p)
      <4>1. md2[k][p].id = mdlps[k][p].id BY <2>8
      <4>. QED BY <4>1 DEF KeyAt, TmpKey
    <3>. QED BY <2>9, <3>1, <3>2 DEF HeldInv
  <2>14. ConvertPhase'
    BY <1>1, <1>2, <2>7, <2>12, <2>13 DEF ConvertPhase, AllDecided, AllBlank
  <2>15. CatShape'
    <3>1. at' \in Nat \ {0} BY <1>2, <2>1 DEF CatShape
    <3>. QED BY <1>1, <1>2, <2>7, <2>8, <3>1 DEF CatShape
  <2>. QED BY <2>1, <2>14, <2>15
<1>. QED BY <1>4, <1>5

LEMMA BlankFits ==
  ASSUME NEW tmp, Blank(tmp), NEW e
  PROVE  ResultFits(tmp, e)
<1>1. DOMAIN tmp.str = {} /\ tmp.comment = <<>> /\ tmp.alternatives = <<>> BY DEF Blank
<1>2. IsSeq(<<>>) /\ ToSet(<<>>) = {} BY Singletons
<1>. QED BY <1>1, <1>2 DEF ResultFits, FormsFit, PartsFit

LEMMA EndConversionStep ==
  CatInv /\ EndConversion => CatShape' /\ catpc' = "fill" /\ FillPhase'
<1>. SUFFICES ASSUME CatInv, EndConversion PROVE CatShape' /\ catpc' = "fill" /\ FillPhase'
  OBVIOUS
<1>1. /\ catpc = "convert" /\ at > Len(mdlps) /\ catpc' = "fill" /\ at' = 1 /\ nth' = 1
      /\ UNCHANGED <<job, mdlps, tmps, total>>
  BY DEF EndConversion, EndLoop
<1>2. CatShape /\ ConvertPhase BY <1>1 DEF CatInv
<1>3. at > Len(job.lists) BY <1>1, <1>2, AtPlace
<1>4. PICK e : Converting(e) BY <1>2 DEF ConvertPhase
<1>5. \A k \in 1..Len(job.lists) : ListFits(mdlps[k], e)
  <2>1. Len(job.lists) \in Nat BY <1>2, PlaceFacts DEF CatShape
  <2>2. \A k \in 1..Len(job.lists) : k < at BY <1>2, <1>3, <2>1 DEF CatShape
  <2>. QED BY <1>4, <2>2 DEF Converting
<1>6. \A i \in 1..Len(tmps) : ResultFits(tmps[i], e) BY <1>2, BlankFits DEF ConvertPhase, AllBlank
<1>7. ASSUME NEW i \in total PROVE KeyFits(tmps[i].key[2], tmps[i].key[3], e)
  <2>1. PICK k \in 1..Len(job.lists) :
          \E p \in 1..Len(mdlps[k]) : KeyAt(job, mdlps, k, p) = tmps[i].key
    BY <1>2 DEF ConvertPhase, HeldInv
  <2>2. PICK p \in 1..Len(mdlps[k]) : KeyAt(job, mdlps, k, p) = tmps[i].key BY <2>1
  <2>3. PICK m : m = mdlps[k][p] OBVIOUS
  <2>4. tmps[i].key = <<job.lists[k].domain, m.id.chars, m.id.code>>
    BY <2>2, <2>3 DEF KeyAt, TmpKey
  <2>5. tmps[i].key[2] = m.id.chars /\ tmps[i].key[3] = m.id.code BY <2>4
  <2>6. MessageFits(m, e) BY <1>5, <2>3 DEF ListFits
  <2>. QED BY <2>5, <2>6 DEF MessageFits
<1>8. FillInv(job, mdlps, tmps, total, e)
  <2>1. EncodedFor(job, mdlps, to_code, e) BY <1>4 DEF Converting
  <2>2. total \subseteq 1..Len(tmps) BY <1>2 DEF ConvertPhase, HeldInv
  <2>. QED BY <1>5, <1>6, <1>7, <2>1, <2>2 DEF EncodedFor, FillInv
<1>9. FillPhase' BY <1>1, <1>8 DEF FillPhase
<1>10. CatShape' BY <1>1, <1>2 DEF CatShape
<1>. QED BY <1>1, <1>9, <1>10

LEMMA FillStep ==
  CatInv /\ FillMessage => CatShape' /\ catpc' = "fill" /\ FillPhase'
<1>. SUFFICES ASSUME CatInv, FillMessage PROVE CatShape' /\ catpc' = "fill" /\ FillPhase'
  OBVIOUS
<1>1. catpc = "fill" /\ catpc' = "fill" /\ AtMessage("fill") /\ nth' = nth + 1
      /\ UNCHANGED <<job, mdlps, total, at>>
  BY DEF FillMessage, AtMessage, InLoop
<1>2. CatShape /\ FillPhase BY <1>1 DEF CatInv
<1>3. at \in 1..Len(job.lists) /\ nth \in 1..Len(mdlps[at]) BY <1>1, <1>2, AtPlace
<1>4. PICK e : FillInv(job, mdlps, tmps, total, e) BY <1>2 DEF FillPhase
<1>5. PICK i : i = Tmp(tmps, TmpKey(job.lists[at].domain, mp)) OBVIOUS
<1>6. PICK tmp : tmp = Filled(tmps[i], mp, at) OBVIOUS
<1>7. tmps' = WithTmp(tmps, i, tmp)
  <2>1. tmps' = [tmps EXCEPT ![i] = Filled(@, mp, at)] BY <1>5 DEF FillMessage
  <2>. QED BY <1>6, <2>1 DEF WithTmp
<1>8. DOMAIN tmps = 1..Len(tmps) /\ TmpsOf(tmps) BY <1>2 DEF CatShape, TmpsOf
<1>9. PICK ts2 : ts2 = tmps' OBVIOUS
<1>10. /\ TmpsOf(ts2) /\ Len(ts2) = Len(tmps)
       /\ \A j \in 1..Len(tmps) : ts2[j].key = tmps[j].key /\ ResultFits(ts2[j], e)
  <2>1. CASE i \in 1..Len(tmps)
    <3>1. IsTmp(tmps[i]) /\ ResultFits(tmps[i], e) BY <1>4, <1>8, <2>1 DEF TmpsOf, FillInv
    <3>2. PICK m : m = mdlps[at][nth] OBVIOUS
    <3>3. MessageFits(m, e) BY <1>3, <1>4, <3>2 DEF FillInv, ListFits
    <3>4. LabelFits(Identification(job.lists[at]), e)
      <4>1. Len(mdlps[at]) \in Nat BY <1>2, <1>3, PlaceFacts DEF CatShape
      <4>2. Len(mdlps[at]) # 0 BY <1>3, <4>1
      <4>. QED BY <1>3, <1>4, <4>2 DEF FillInv
    <3>5. IsTmp(tmp) /\ tmp.key = tmps[i].key /\ ResultFits(tmp, e)
      BY <1>6, <3>1, <3>2, <3>3, <3>4, FilledFits DEF mp
    <3>6. /\ TmpsOf(WithTmp(tmps, i, tmp)) /\ Len(WithTmp(tmps, i, tmp)) = Len(tmps)
          /\ WithTmp(tmps, i, tmp)[i] = tmp
          /\ \A j \in 1..Len(tmps) : j # i => WithTmp(tmps, i, tmp)[j] = tmps[j]
      BY <1>8, <2>1, <3>5, FieldSet
    <3>7. /\ TmpsOf(ts2) /\ Len(ts2) = Len(tmps) /\ ts2[i] = tmp
          /\ \A j \in 1..Len(tmps) : j # i => ts2[j] = tmps[j]
      BY <1>7, <1>9, <3>6
    <3>. QED BY <1>4, <3>5, <3>7 DEF FillInv
  <2>2. CASE i \notin 1..Len(tmps)
    <3>1. PICK n : n = Len(tmps) OBVIOUS
    <3>2. tmps = [j \in 1..n |-> tmps[j]] /\ i \notin 1..n BY <1>8, <2>2, <3>1 DEF TmpsOf
    <3>3. [tmps EXCEPT ![i] = tmp] = tmps BY <3>2
    <3>4. ts2 = tmps BY <1>7, <1>9, <3>3 DEF WithTmp
    <3>. QED BY <1>4, <1>8, <3>4 DEF FillInv
  <2>. QED BY <2>1, <2>2
<1>11. FillInv(job, mdlps, ts2, total, e) BY <1>4, <1>10 DEF FillInv
<1>12. FillPhase' BY <1>1, <1>9, <1>11 DEF FillPhase
<1>13. CatShape'
  <2>1. nth' \in Nat \ {0} BY <1>1, <1>2 DEF CatShape
  <2>. QED BY <1>1, <1>2, <1>9, <1>10, <2>1 DEF CatShape
<1>. QED BY <1>1, <1>12, <1>13

LEMMA EndFillStep ==
  CatInv /\ EndFill => CatShape' /\ catpc' = "combine" /\ FillPhase'
<1>. SUFFICES ASSUME CatInv, EndFill PROVE CatShape' /\ catpc' = "combine" /\ FillPhase'
  OBVIOUS
<1>1. /\ catpc = "fill" /\ catpc' = "combine" /\ at' = 1 /\ nth' = 1
      /\ UNCHANGED <<job, mdlps, tmps, total>>
  BY DEF EndFill, EndLoop
<1>2. CatShape /\ FillPhase BY <1>1 DEF CatInv
<1>. QED BY <1>1, <1>2 DEF CatShape, FillPhase

LEMMA CombineStep ==
  CatInv /\ Combine => CatShape' /\ catpc' = "done" /\ DonePhase'
<1>. SUFFICES ASSUME CatInv, Combine PROVE CatShape' /\ catpc' = "done" /\ DonePhase'
  OBVIOUS
<1>1. /\ catpc = "combine" /\ catpc' = "done" /\ UNCHANGED <<job, mdlps, total, at, nth>>
      /\ tmps' = [i \in DOMAIN tmps |-> IF i \in total THEN Combined(tmps[i]) ELSE tmps[i]]
  BY DEF Combine
<1>2. CatShape /\ FillPhase BY <1>1 DEF CatInv
<1>3. PICK e : FillInv(job, mdlps, tmps, total, e) BY <1>2 DEF FillPhase
<1>4. PICK n, ts2 : n = Len(tmps) /\ ts2 = tmps' OBVIOUS
<1>5. DOMAIN tmps = 1..n /\ n \in Nat /\ \A i \in 1..n : IsTmp(tmps[i])
  BY <1>2, <1>4 DEF CatShape, TmpsOf
<1>6. ts2 = [i \in 1..n |-> IF i \in total THEN Combined(tmps[i]) ELSE tmps[i]] BY <1>1, <1>4, <1>5
<1>7. /\ ts2 = [i \in 1..n |-> ts2[i]]
      /\ \A i \in 1..n : ts2[i] = IF i \in total THEN Combined(tmps[i]) ELSE tmps[i]
  BY <1>6
<1>8. Len(ts2) = n BY <1>5, <1>7, SeqMade
<1>9. ASSUME NEW i \in 1..n
      PROVE  /\ IsTmp(Combined(tmps[i])) /\ Combined(tmps[i]).key = tmps[i].key
             /\ FormsFit(Combined(tmps[i]).str, e) /\ PartsFit(Combined(tmps[i]).comment, e)
  <2>1. IsTmp(tmps[i]) /\ ResultFits(tmps[i], e) BY <1>3, <1>4, <1>5 DEF FillInv
  <2>2. PICK tmp : tmp = tmps[i] OBVIOUS
  <2>. QED BY <2>1, <2>2, CombinedFits
<1>10. TmpsOf(ts2)
  <2>1. \A i \in 1..n : IsTmp(ts2[i]) BY <1>5, <1>7, <1>9
  <2>. QED BY <1>5, <1>7, <1>8, <2>1 DEF TmpsOf
<1>11. DoneInv(job, ts2, total, e)
  <2>1. total \subseteq 1..n /\ e \in Wanted(job) BY <1>3, <1>4 DEF FillInv
  <2>2. \A i \in total : ts2[i] = Combined(tmps[i]) BY <1>7, <2>1
  <2>3. \A i \in total : KeyFits(tmps[i].key[2], tmps[i].key[3], e) BY <1>3 DEF FillInv
  <2>. QED BY <1>8, <1>9, <2>1, <2>2, <2>3 DEF DoneInv
<1>12. DonePhase' BY <1>1, <1>4, <1>11 DEF DonePhase
<1>13. CatShape' BY <1>1, <1>2, <1>4, <1>10 DEF CatShape
<1>. QED BY <1>1, <1>12, <1>13

LEMMA CatStep ==
  ASSUME NamesFit
  PROVE  CatInv /\ [CatNext]_catvars => CatInv'
<1>. SUFFICES ASSUME CatInv, [CatNext]_catvars PROVE CatInv'
  OBVIOUS
<1>1. CASE Charsets BY <1>1, CharsetsStep DEF CatInv
<1>2. CASE NextList BY <1>2, NextListStep
<1>3. CASE CountMessage BY <1>3, CountStep DEF CatInv
<1>4. CASE EndCount BY <1>4, EndCountStep DEF CatInv
<1>5. CASE RemoveMessage BY <1>5, RemoveMessageStep DEF CatInv
<1>6. CASE EndRemove BY <1>6, EndRemoveStep DEF CatInv
<1>7. CASE TargetEncoding BY <1>7, TargetStep DEF CatInv
<1>8. CASE ConvertList BY <1>8, ConvertListStep DEF CatInv
<1>9. CASE EndConversion BY <1>9, EndConversionStep DEF CatInv
<1>10. CASE FillMessage BY <1>10, FillStep DEF CatInv
<1>11. CASE EndFill BY <1>11, EndFillStep DEF CatInv
<1>12. CASE Combine BY <1>12, CombineStep DEF CatInv
<1>13. CASE UNCHANGED catvars
  BY <1>13 DEF CatInv, catvars, CatShape, AllOriginal, AllDecided, AllBlank, StartPhase, CountPhase,
       RemovePhase, TargetPhase, Converting, ConvertPhase, FillPhase, DonePhase
<1>. QED BY <1>1, <1>2, <1>3, <1>4, <1>5, <1>6, <1>7, <1>8, <1>9, <1>10, <1>11, <1>12, <1>13
     DEF CatNext

\* In the end, the texts are in one encoding.
LEMMA DoneIsOneEncoding == CatInv => OneEncoding
<1>. SUFFICES ASSUME CatInv, catpc = "done"
              PROVE  \E e \in IF job.to_code # NoCode THEN {job.to_code} ELSE DOMAIN Repertoire :
                       \A tmp \in Result :
                         LET sections == (UNION { ToSet(tmp.str[r]) : r \in DOMAIN tmp.str })
                                           \cup ToSet(tmp.comment)
                             texts == { s.text : s \in sections }
                                        \cup ({ s.label : s \in sections } \ {NoLabel})
                         IN /\ \A t \in texts :
                                 /\ t.code = e \/ (t.code = po_charset_ascii /\ Same(t.chars, e))
                                 /\ t.charset \in {NoCode, e}
                            /\ tmp.key[3] = e \/ is_ascii(tmp.key[2])
  BY DEF OneEncoding
<1>1. PICK e : DoneInv(job, tmps, total, e) BY DEF CatInv, DonePhase
<1>2. e \in IF job.to_code # NoCode THEN {job.to_code} ELSE DOMAIN Repertoire
  BY <1>1 DEF DoneInv, Wanted
<1>3. ASSUME NEW tmp \in Result
      PROVE  LET sections == (UNION { ToSet(tmp.str[r]) : r \in DOMAIN tmp.str }) \cup ToSet(tmp.comment)
                 texts == { s.text : s \in sections } \cup ({ s.label : s \in sections } \ {NoLabel})
             IN /\ \A t \in texts :
                     /\ t.code = e \/ (t.code = po_charset_ascii /\ Same(t.chars, e))
                     /\ t.charset \in {NoCode, e}
                /\ tmp.key[3] = e \/ is_ascii(tmp.key[2])
  <2>. DEFINE sections == (UNION { ToSet(tmp.str[r]) : r \in DOMAIN tmp.str }) \cup ToSet(tmp.comment)
  <2>1. FormsFit(tmp.str, e) /\ PartsFit(tmp.comment, e) /\ KeyFits(tmp.key[2], tmp.key[3], e)
    BY <1>1 DEF DoneInv, Result
  <2>2. ASSUME NEW s \in sections PROVE TextFits(s.text, e) /\ LabelFits(s.label, e)
    <3>1. CASE s \in ToSet(tmp.comment)
      BY <2>1, <3>1 DEF PartsFit
    <3>2. CASE s \in UNION { ToSet(tmp.str[r]) : r \in DOMAIN tmp.str }
      <4>1. PICK r \in DOMAIN tmp.str : s \in ToSet(tmp.str[r]) BY <3>2
      <4>2. PartsFit(tmp.str[r], e) BY <2>1, <4>1 DEF FormsFit
      <4>. QED BY <4>1, <4>2 DEF PartsFit
    <3>3. s \in UNION { ToSet(tmp.str[r]) : r \in DOMAIN tmp.str } \/ s \in ToSet(tmp.comment)
      BY <2>2
    <3>. QED BY <3>1, <3>2, <3>3
  <2>. HIDE DEF sections
  <2>3. ASSUME NEW t \in { s.text : s \in sections } \cup ({ s.label : s \in sections } \ {NoLabel})
        PROVE  TextFits(t, e)
    BY <2>2 DEF LabelFits
  <2>4. tmp.key[3] = e \/ is_ascii(tmp.key[2]) BY <2>1 DEF KeyFits
  <2>. QED BY <2>3, <2>4 DEF TextFits, sections
<1>. QED BY <1>2, <1>3, Zenon

(***************************************************************************)
(* What was counted, kept and converted: for each message of the result a  *)
(* definition is left when the encoding is chosen, and from then on every  *)
(* text is in its own encoding or in the one chosen.                       *)
(***************************************************************************)
THEOREM CatInvariant == ASSUME NamesFit PROVE CatSpec => []CatInv
<1>1. CatInit => CatInv BY CatInitially
<1>2. CatInv /\ [CatNext]_catvars => CatInv' BY CatStep
<1>. QED BY <1>1, <1>2, PTL DEF CatSpec

(***************************************************************************)
(* However many files are combined, in whatever encodings and with any     *)
(* options, all texts of the result of catenate_msgdomain_list are in one  *)
(* encoding, that of --to-code if it was given, and the header entry says  *)
(* so, if the names of the projects are in characters that the encodings   *)
(* have in common.                                                         *)
(***************************************************************************)
THEOREM EncodingUnified == ASSUME NamesFit PROVE CatSpec => []OneEncoding
<1>1. CatInv => OneEncoding BY DoneIsOneEncoding
<1>. QED BY <1>1, CatInvariant, PTL

=============================================================================
