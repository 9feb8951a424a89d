------------------------------ MODULE ArgList ------------------------------
(***************************************************************************)
(* The constraints that the directives of a Lisp format string put on the  *)
(* argument list (format-lisp.c): struct format_arg_list and what is done  *)
(* with it.                                                                *)
(*                                                                         *)
(* A list is an initial segment and one that is repeated without end; a    *)
(* finite list has an empty repeated segment.  A segment is a sequence of  *)
(* elements, each for repcount arguments in a row: their type, and whether *)
(* the argument list may end before each of them.                          *)
(*                                                                         *)
(* initial.length is always the sum of the repcounts.  repeated.length is  *)
(* not, after rotate_loop, and therefore kept, as "period".  An assertion  *)
(* that fails, and a read of elements that do not exist, makes the result  *)
(* Failed.                                                                 *)
(*                                                                         *)
(* How many elements are allocated is left out.  After rotate_loop has put *)
(* a smaller array in place of repeated.element (lines 757 to 771),        *)
(* repeated.allocated still says how many elements the old one had room    *)
(* for; ensure_repeated_alloc (lines 526, 661) then keeps an array that is *)
(* too short, and the elements that follow are stored past its end.  Here  *)
(* such an operation succeeds, as if there were room.                      *)
(***************************************************************************)
LOCAL INSTANCE Integers
LOCAL INSTANCE Sequences
LOCAL INSTANCE SequencesExt

CONSTANTS
  NullList,   \* NULL: a contradiction
  Failed      \* the program has aborted, or its memory is corrupt

Element(repcount, presence, type, list) ==
  [repcount |-> repcount, presence |-> presence, type |-> type, list |-> list]

RECURSIVE SegLength(_)
SegLength(seg) == IF seg = <<>> THEN 0 ELSE Head(seg).repcount + SegLength(Tail(seg))

ArgumentList(initial, repeated) ==
  [initial |-> initial, repeated |-> repeated, period |-> SegLength(repeated)]

make_empty_list == ArgumentList(<<>>, <<>>)
make_unconstrained_list ==
  ArgumentList(<<>>, <<Element(1, "OPTIONAL", "OBJECT", NullList)>>)

RECURSIVE verify_list(_)
verify_list(l) ==
  /\ l.period = SegLength(l.repeated)
  /\ \A e \in ToSet(l.initial \o l.repeated) :
       e.repcount > 0 /\ (e.type = "LIST" => verify_list(e.list))

(* equal_element, which ignores the repcount; equal_list is equality.       *)
Alike(e1, e2) == [e1 EXCEPT !.repcount = 1] = [e2 EXCEPT !.repcount = 1]

Times(seg, q) == FlattenSeq([i \in 1..q |-> seg])

(* The first n arguments of a segment, and the others.  An element that has *)
(* some of both is split.                                                   *)
RECURSIVE Split(_, _)
Split(seg, n) ==
  IF n = 0 \/ seg = <<>> THEN << <<>>, seg >>
  ELSE IF n < seg[1].repcount
    THEN << <<[seg[1] EXCEPT !.repcount = n]>>,
            <<[seg[1] EXCEPT !.repcount = @ - n]>> \o Tail(seg) >>
    ELSE LET rest == Split(Tail(seg), n - seg[1].repcount)
         IN << <<seg[1]>> \o rest[1], rest[2] >>

----------------------------------------------------------------------------
(* Normalization.                                                           *)

(* Adjacent elements are combined.                                          *)
Condensed(seg) ==
  FoldLeft(LAMBDA s, e :
             IF s # <<>> /\ Alike(Last(s), e)
             THEN [s EXCEPT ![Len(s)].repcount = @ + e.repcount] ELSE Append(s, e),
           <<>>, seg)

(* A loop of n >= 4 elements, n even, that is one of two elements is        *)
(* reduced.  (The loop over m increments n, therefore no other m than 2 is  *)
(* tried.)  If the first and the last element are alike, they are one.      *)
Reduced(l) ==
  LET seg   == l.repeated
      close == Len(seg) > 1 /\ Alike(seg[1], Last(seg))
      n     == IF close THEN Len(seg) - 1 ELSE Len(seg)
      count == [i \in 1..n |->
                  seg[i].repcount + IF close /\ i = 1 THEN Last(seg).repcount ELSE 0]
  IN IF n >= 4 /\ n % 2 = 0
          /\ \A i \in 1..(n - 2) : count[i] = seg[i + 2].repcount /\ Alike(seg[i], seg[i + 2])
     THEN [l EXCEPT !.repeated = SubSeq(seg, 1, 2) \o (IF close THEN <<Last(seg)>> ELSE <<>>),
                    !.period = @ \div (n \div 2)]
     ELSE l

(* As much as possible of the end of the initial segment becomes part of    *)
(* the loop.                                                                *)
RECURSIVE Rolled(_)
Rolled(l) ==
  IF l.initial = <<>> \/ ~Alike(Last(l.initial), Last(l.repeated)) THEN l
  ELSE IF Len(l.repeated) = 1 THEN [l EXCEPT !.initial = Front(@)]
  ELSE LET a == Last(l.initial)
           b == Last(l.repeated)
           moved == IF a.repcount < b.repcount THEN a.repcount ELSE b.repcount
           less(seg) == IF Last(seg).repcount = moved THEN Front(seg)
                        ELSE [seg EXCEPT ![Len(seg)].repcount = @ - moved]
           longer == IF Alike(l.repeated[1], b)
                     THEN [l.repeated EXCEPT ![1].repcount = @ + moved]
                     ELSE <<[b EXCEPT !.repcount = moved]>> \o l.repeated
       IN Rolled([l EXCEPT !.initial = less(@), !.repeated = less(longer)])

normalize_outermost_list(l) ==
  LET m == [l EXCEPT !.initial = Condensed(@), !.repeated = Condensed(@)]
  IN IF m.repeated = <<>> THEN m ELSE Rolled(Reduced(m))

normalize_listMutant(l) == normalize_outermost_list(l)   \* without sublists
RECURSIVE normalize_list(_)
normalize_list(l) ==
  LET all(seg) == [i \in DOMAIN seg |->
                     IF seg[i].type = "LIST" THEN [seg[i] EXCEPT !.list = normalize_list(@)]
                     ELSE seg[i]]
  IN normalize_outermost_list([l EXCEPT !.initial = all(@), !.repeated = all(@)])

----------------------------------------------------------------------------
(* Surgery.                                                                 *)
unfold_loop(l, m) == [l EXCEPT !.repeated = Times(@, m), !.period = @ * m]

(* The initial segment gets the length m.  The loop starts elsewhere then;  *)
(* if that splits an element, newcount is not stored in repeated.count, and *)
(* the last element is lost.                                                *)
rotate_loop(l, m) ==
  LET more == m - SegLength(l.initial)
      r    == more % l.period
      cut  == Split(l.repeated, r)
  IN IF more = 0 THEN l
     ELSE IF Len(l.repeated) = 1
       THEN [l EXCEPT !.initial = Append(@, [l.repeated[1] EXCEPT !.repcount = more])]
     ELSE IF r >= SegLength(l.repeated) THEN Failed
     ELSE [l EXCEPT !.initial = @ \o Times(l.repeated, more \div l.period) \o cut[1],
                    !.repeated = SubSeq(cut[2] \o cut[1], 1, Len(@))]

(* With an initial segment of at least n arguments.                         *)
WithInitial(l, n) ==
  IF n <= SegLength(l.initial) THEN l
  ELSE IF l.repeated = <<>> THEN Failed ELSE rotate_loop(l, n)

(* initial_splitelement, initial_unshare: what comes before the arguments   *)
(* n .. m - 1 in the initial segment, they, and the others.                 *)
Around(l, n, m) ==
  LET left  == Split(l.initial, n)
      right == Split(left[2], m - n)
  IN [before |-> left[1], there |-> right[1], behind |-> right[2]]

shift_list(l, n) ==
  IF n = 0 THEN l
  ELSE normalize_outermost_list(
         [l EXCEPT !.initial = <<Element(n, "REQUIRED", "OBJECT", NullList)>> \o @])

(* Two segments side by side: the pairs of elements, with the number of     *)
(* arguments that both are for, and what remains of the longer segment.     *)
Without(seg, k) == Split(seg, k)[2]
RECURSIVE Aligned(_, _)
Aligned(s1, s2) ==
  IF s1 = <<>> \/ s2 = <<>> THEN [pairs |-> <<>>, rest1 |-> s1, rest2 |-> s2]
  ELSE LET k == IF s1[1].repcount < s2[1].repcount THEN s1[1].repcount ELSE s2[1].repcount
       IN [Aligned(Without(s1, k), Without(s2, k)) EXCEPT
             !.pairs = << <<s1[1], s2[1], k>> >> \o @]

(* What two endless lists are brought to before their intersection or their *)
(* union: the length of the initial segments, and loops of the same length. *)
RECURSIVE gcd(_, _)
gcd(m, n) == IF n = 0 THEN m ELSE gcd(n, m % n)
Longer(l1, l2) ==
  IF SegLength(l1.initial) > SegLength(l2.initial) THEN SegLength(l1.initial)
  ELSE SegLength(l2.initial)
Unfolded(l1, l2) == unfold_loop(l1, l2.period \div gcd(l1.period, l2.period))

(* backtrack_in_initial: a contradiction after the arguments of seg.        *)
RECURSIVE backtrack_in_initial(_)
backtrack_in_initial(seg) ==
  IF seg = <<>> THEN NullList
  ELSE IF Last(seg).presence = "REQUIRED" THEN backtrack_in_initial(Front(seg))
  ELSE ArgumentList(IF Last(seg).repcount = 1 THEN Front(seg)
                    ELSE [seg EXCEPT ![Len(seg)].repcount = @ - 1], <<>>)

(* The list ends after seg, where an argument has that presence.            *)
EndsAfterMutant(seg, presence) == ArgumentList(seg, <<>>)   \* without a way back
EndsAfter(seg, presence) ==
  IF presence = "REQUIRED" THEN backtrack_in_initial(seg) ELSE ArgumentList(seg, <<>>)

FirstPresence(l) ==
  IF l.initial # <<>> THEN l.initial[1].presence
  ELSE IF l.repeated # <<>> THEN l.repeated[1].presence ELSE "OPTIONAL"

----------------------------------------------------------------------------
(* Intersection: the arguments satisfy both constraints.                    *)
RECURSIVE make_intersected_list(_, _)

OrNull == {"CHARACTER_INTEGER_NULL", "CHARACTER_NULL", "INTEGER_NULL"}

(* The types of which the second is the narrower one.                       *)
Wider ==
  {"CHARACTER_INTEGER_NULL"} \X {"CHARACTER_NULL", "CHARACTER", "INTEGER_NULL", "INTEGER"}
    \cup { <<"CHARACTER_NULL", "CHARACTER">>, <<"INTEGER_NULL", "INTEGER">>,
           <<"REAL", "INTEGER">> }

make_intersection_with_empty_list(l) ==
  IF FirstPresence(l) = "REQUIRED" THEN NullList ELSE make_empty_list

(* An element of type LIST without a list stands for a contradiction.       *)
make_intersected_element(e1, e2, repcount) ==
  LET presence == IF "REQUIRED" \in {e1.presence, e2.presence} THEN "REQUIRED" ELSE "OPTIONAL"
      Of(type, list) == Element(repcount, presence, type, list)
  IN CASE e1.type = "OBJECT" -> Of(e2.type, e2.list)
       [] e2.type = "OBJECT" -> Of(e1.type, e1.list)
       [] e1.type = "LIST" /\ e2.type \in OrNull ->
            Of("LIST", make_intersection_with_empty_list(e1.list))
       [] e2.type = "LIST" /\ e1.type \in OrNull ->
            Of("LIST", make_intersection_with_empty_list(e2.list))
       [] <<e1.type, e2.type>> \in Wider -> Of(e2.type, NullList)
       [] <<e2.type, e1.type>> \in Wider -> Of(e1.type, NullList)
       [] e1.type = "LIST" /\ e2.type = "LIST" ->
            Of("LIST", make_intersected_list(e1.list, e2.list))
       [] e1.type = e2.type -> Of(e1.type, NullList)
       [] OTHER -> Of("LIST", NullList)

Contradictory(e) == e.type = "LIST" /\ e.list = NullList
Broken(seg) == \E i \in DOMAIN seg : seg[i].list = Failed

IntersectedPair(pair) == make_intersected_element(pair[1], pair[2], pair[3])

(* The intersections of pairs of elements, up to the first contradiction.   *)
UpToContradiction(seg) ==
  LET n == SelectInSeq(seg, Contradictory)
  IN [seg |-> IF n = 0 THEN seg ELSE SubSeq(seg, 1, n - 1),
      presence |-> IF n = 0 THEN "none" ELSE seg[n].presence]
Common(pairs) == UpToContradiction([i \in DOMAIN pairs |-> IntersectedPair(pairs[i])])

(* Steps 1 and 2: the loops get the same length, and start at the same      *)
(* argument, or behind the finite list.                                     *)
Prepared(l, other) ==
  IF l.period = 0 THEN l
  ELSE rotate_loop(IF other.period > 0 THEN Unfolded(l, other) ELSE l, Longer(l, other))

(* Step 5: the loops, behind the initial segment seg.                       *)
(* make_intersected_element's presence is read where it was before          *)
(* append_repeated_to_initial has freed it.                                 *)
IntersectedLoop(seg, repeated, loop) ==
  CASE Broken(loop.seg) -> Failed
    [] ~Broken(loop.seg) /\ loop.presence # "none" -> EndsAfter(seg \o loop.seg, loop.presence)
    [] OTHER -> IF repeated.rest1 \o repeated.rest2 # <<>> THEN Failed
                ELSE ArgumentList(seg, loop.seg)
Loops(seg, repeated) == IntersectedLoop(seg, repeated, Common(repeated.pairs))

(* The presence of the argument that only one of them has, if one is finite.*)
Beyond(l1, l2, initial) ==
  IF "REQUIRED" \in { FirstPresence([l1 EXCEPT !.initial = initial.rest1]),
                      FirstPresence([l2 EXCEPT !.initial = initial.rest2]) }
  THEN "REQUIRED" ELSE "OPTIONAL"

(* Step 4: what follows the initial segments, whose intersection is start.  *)
BehindInitial(l1, l2, initial, start) ==
  IF Broken(start.seg) THEN Failed
  ELSE IF start.presence # "none" THEN EndsAfter(start.seg, start.presence)
  ELSE IF l1.period = 0 \/ l2.period = 0 THEN EndsAfter(start.seg, Beyond(l1, l2, initial))
  ELSE Loops(start.seg, Aligned(l1.repeated, l2.repeated))

IntersectedInitial(l1, l2, initial) ==
  BehindInitial(l1, l2, initial, Common(initial.pairs))
Intersected(l1, l2) ==
  IF Failed \in {l1, l2} THEN Failed
  ELSE IntersectedInitial(l1, l2, Aligned(l1.initial, l2.initial))

OutermostNormalized(l) == IF l \in {NullList, Failed} THEN l ELSE normalize_outermost_list(l)

make_intersected_list(list1, list2) ==
  IF Failed \in {list1, list2} \/ ~verify_list(list1) \/ ~verify_list(list2) THEN Failed
  ELSE OutermostNormalized(Intersected(Prepared(list1, list2), Prepared(list2, list1)))

----------------------------------------------------------------------------
(* Union: the arguments satisfy one of the constraints.                     *)
RECURSIVE make_union_list(_, _)

OrNil(type) ==
  CASE type \in OrNull -> type
    [] type = "CHARACTER" -> "CHARACTER_NULL"
    [] type = "INTEGER" -> "INTEGER_NULL"
    [] OTHER -> "OBJECT"

make_union_element(e1, e2, repcount) ==
  LET x == e1.type
      y == e2.type
      isNil(e) == e.type = "LIST" /\ e.list = make_empty_list
      chars == {"CHARACTER", "CHARACTER_NULL"}
      ints  == {"INTEGER", "INTEGER_NULL"}
      type  == CASE x = y \/ <<x, y>> \in Wider -> x
                 [] <<y, x>> \in Wider -> y
                 [] x # y /\ isNil(e1) -> OrNil(y)
                 [] x # y /\ isNil(e2) -> OrNil(x)
                 [] <<x, y>> \in (chars \X ints) \cup (ints \X chars) -> "CHARACTER_INTEGER_NULL"
                 [] OTHER -> "OBJECT"
  IN Element(repcount,
             IF e1.presence = "REQUIRED" /\ e2.presence = "REQUIRED" THEN "REQUIRED" ELSE "OPTIONAL",
             type,
             IF type = "LIST" THEN make_union_list(e1.list, e2.list) ELSE NullList)

Either(pairs) ==
  [i \in DOMAIN pairs |-> make_union_element(pairs[i][1], pairs[i][2], pairs[i][3])]

(* The first of some arguments becomes optional.                            *)
FirstOptional(seg) ==
  IF seg = <<>> \/ seg[1].presence = "OPTIONAL" THEN seg
  ELSE <<[seg[1] EXCEPT !.presence = "OPTIONAL", !.repcount = 1]>> \o Without(seg, 1)

(* An endless list reaches behind a finite one; one argument more is needed *)
(* if it becomes optional.                                                  *)
OneMore(l, n) ==
  IF l = Failed THEN Failed
  ELSE IF l.repeated[1].presence = "REQUIRED" THEN rotate_loop(l, n + 1) ELSE l

Reaching(l, other) ==
  CASE l.period = 0 -> l
    [] l.period > 0 /\ other.period > 0 -> rotate_loop(Unfolded(l, other), Longer(l, other))
    [] OTHER -> IF SegLength(other.initial) < SegLength(l.initial) THEN l
                ELSE OneMore(rotate_loop(l, SegLength(other.initial)), SegLength(other.initial))

EitherSegment(initial) == Either(initial.pairs) \o FirstOptional(initial.rest1 \o initial.rest2)

EitherLoop(l1, l2, repeated) ==
  CASE l1.period = 0 \/ l2.period = 0 ->
         [seg |-> l1.repeated \o l2.repeated, period |-> l1.period + l2.period]
    [] OTHER -> LET seg == Either(repeated.pairs) IN [seg |-> seg, period |-> SegLength(seg)]

VerifiedUnion(initial, loop) ==
  LET l == [initial |-> initial, repeated |-> loop.seg, period |-> loop.period]
  IN IF Broken(initial \o loop.seg) \/ ~verify_list(l) THEN Failed
     ELSE normalize_outermost_list(l)

United(l1, l2, repeated) ==
  IF l1.period > 0 /\ l2.period > 0 /\ repeated.rest1 \o repeated.rest2 # <<>> THEN Failed
  ELSE VerifiedUnion(EitherSegment(Aligned(l1.initial, l2.initial)), EitherLoop(l1, l2, repeated))

UnitedLists(l1, l2) ==
  IF Failed \in {l1, l2} THEN Failed ELSE United(l1, l2, Aligned(l1.repeated, l2.repeated))

make_union_list(list1, list2) ==
  IF Failed \in {list1, list2} \/ ~verify_list(list1) \/ ~verify_list(list2) THEN Failed
  ELSE UnitedLists(Reaching(list1, list2), Reaching(list2, list1))

make_union_with_empty_list(l) ==
  IF ~verify_list(l) THEN Failed
  ELSE IF FirstPresence(l) = "OPTIONAL" THEN l
  ELSE normalize_outermost_list([WithInitial(l, 1) EXCEPT !.initial = FirstOptional(@)])

make_union(l1, l2) ==
  CASE Failed \in {l1, l2} -> Failed
    [] l1 = NullList -> l2
    [] l2 = NullList /\ l1 # NullList -> l1
    [] OTHER -> make_union_list(l1, l2)

----------------------------------------------------------------------------
(* Adding constraints; add_type_constraint is called after                  *)
(* add_required_constraint, by add_req_type_constraint.                     *)
Stays(l) == l \in {NullList, Failed}
IsFinite(l) == l.repeated = <<>>

(* Are the arguments 0 .. n required?                                       *)
is_required(l, n) ==
  LET more == n + 1 - SegLength(l.initial)
      seg  == IF more <= 0 THEN Split(l.initial, n + 1)[1]
              ELSE l.initial \o IF more > l.period THEN l.repeated ELSE Split(l.repeated, more)[1]
  IN /\ more > 0 => ~IsFinite(l)
     /\ \A i \in DOMAIN seg : seg[i].presence = "REQUIRED"

add_required_constraint(l, n) ==
  IF Stays(l) THEN l
  ELSE IF ~verify_list(l) THEN Failed
  ELSE IF IsFinite(l) /\ SegLength(l.initial) <= n THEN NullList
  ELSE LET w == WithInitial(l, n + 1)
           a == Around(w, 0, n + 1)
           required == [i \in DOMAIN a.there |-> [a.there[i] EXCEPT !.presence = "REQUIRED"]]
       IN IF w = Failed THEN Failed ELSE [w EXCEPT !.initial = required \o a.behind]

add_end_constraint(l, n) ==
  IF Stays(l) THEN l
  ELSE IF ~verify_list(l) THEN Failed
  ELSE IF IsFinite(l) /\ SegLength(l.initial) <= n THEN l
  ELSE LET w == WithInitial(l, n)
           a == Around(w, 0, n)
       IN IF w = Failed THEN Failed
          ELSE EndsAfter(a.there, FirstPresence([w EXCEPT !.initial = a.behind]))

(* The element a.there[1], of the argument n, becomes e.                    *)
Narrowed(l, n, a, e) ==
  IF e.list = Failed THEN Failed
  ELSE IF Contradictory(e) THEN add_end_constraint(l, n)
  ELSE [l EXCEPT !.initial =
          a.before \o <<[a.there[1] EXCEPT !.type = e.type, !.list = e.list]>> \o a.behind]

add_listtype_constraint(l, n, type, list) ==
  LET a == Around(l, n, n + 1)
  IN IF Stays(l) THEN l
     ELSE Narrowed(l, n, a,
            make_intersected_element(a.there[1], Element(1, "OPTIONAL", type, list), 1))

add_req_listtype_constraint(list, position, type, sublist) ==
  add_listtype_constraint(add_required_constraint(list, position), position, type, sublist)

add_req_type_constraint(list, position, type) ==
  add_req_listtype_constraint(list, position, type, NullList)

----------------------------------------------------------------------------
(* The arguments of an iteration.                                           *)
make_repeated_list_of_lists(sublist) ==
  IF Stays(sublist)
  THEN IF sublist = NullList THEN make_empty_list ELSE Failed
  ELSE ArgumentList(<<>>, <<Element(1, "OPTIONAL", "LIST", sublist)>>)

(* The arguments of source, intersected with those of seg from j on, are    *)
(* appended to seg, until it has n of them.                                 *)
RECURSIVE Superimposed(_, _, _, _)
Extended(seg, source, j, n, e) ==
  IF e.list = Failed THEN [seg |-> Failed, presence |-> "none"]
  ELSE IF Contradictory(e) THEN [seg |-> seg, presence |-> e.presence]
  ELSE Superimposed(Append(seg, e), Without(source, e.repcount), j + e.repcount, n)

Superimposed(seg, source, j, n) ==
  IF SegLength(seg) >= n THEN [seg |-> seg, presence |-> "none"]
  ELSE IF source = <<>> THEN [seg |-> Failed, presence |-> "none"]
  ELSE Extended(seg, source, j, n,
                IntersectedPair(Aligned(source, Without(seg, j)).pairs[1]))

(* Exit points at 0, period, 2 * period, ...                                *)
RECURSIVE WithExits(_, _, _)
WithExits(seg, i, period) ==
  IF i >= SegLength(seg) THEN seg
  ELSE WithExits(Split(seg, i)[1] \o
                   LET behind == Split(seg, i)[2]
                   IN <<[behind[1] EXCEPT !.presence = "OPTIONAL", !.repcount = 1]>>
                        \o Without(behind, 1),
                 i + period, period)

(* The loop is split off.  The copy takes a number of arguments for one of  *)
(* elements, and goes past the end of repeated.element if that is greater.  *)
LoopSplitOff(cut, n) ==
  IF Len(cut[1]) + Len(cut[2]) < n THEN Failed ELSE ArgumentList(cut[1], cut[2])

(* Of "all", the n arguments or those before a contradiction.               *)
Exited(all, n, p, period) ==
  CASE all.seg = Failed -> Failed
    [] all.presence = "REQUIRED" -> backtrack_in_initial(all.seg)
    [] all.presence = "OPTIONAL" -> ArgumentList(WithExits(all.seg, 0, period), <<>>)
    [] OTHER -> IF SegLength(all.seg) # n THEN Failed
                ELSE LoopSplitOff(Split(WithExits(all.seg, 0, period), n - p), n)

Repeated(source, n, p, period) ==
  IF SegLength(source) < p THEN Failed
  ELSE Exited(Superimposed(FirstOptional(Split(source, p)[1]), Split(source, p)[2], 0, n),
              n, p, period)

(* The loop is to be appended to the initial segment; what is appended are  *)
(* the first elements of the initial segment.                               *)
RepeatedEndless(l, period) ==
  IF Len(l.repeated) > Len(l.initial) THEN Failed
  ELSE Repeated(l.initial \o SubSeq(l.initial, 1, Len(l.repeated)),
                SegLength(l.initial) + l.period, l.period, period)

make_repeated_list(sublist, period) ==
  LET n == SegLength(sublist.initial)
  IN CASE Stays(sublist) \/ ~verify_list(sublist) -> Failed
       [] IsFinite(sublist) /\ n < period -> make_union_with_empty_list(sublist)
       [] IsFinite(sublist) /\ n >= period -> Repeated(sublist.initial, n, period, period)
       [] OTHER -> RepeatedEndless(
                     unfold_loop(sublist, period \div gcd(period, sublist.period)), period)
=============================================================================
