---------------------------- MODULE ListFunctions ----------------------------
(***************************************************************************)
(* The functions on lists and arrays (nl-list.c, nl-liststr.c), as the     *)
(* algorithms the program runs: merge sort of a vector of cells, the set   *)
(* functions that walk two sorted vectors, pattern matching with           *)
(* backtracking, searches that record index vectors, and the functions     *)
(* that change a list at an index vector.  One action calls one function   *)
(* on lists of a small set.                                                *)
(*                                                                         *)
(* A value is a tuple whose first member is its cell type; a list or an    *)
(* array holds the sequence of its elements.  A string is the sequence of  *)
(* its character codes; the names of symbols and contexts are numbers in   *)
(* the order of their texts; a float is counted in halves.  An index       *)
(* vector is a sequence of integers; a negative one counts from the end.   *)
(***************************************************************************)
EXTENDS Integers, Sequences, FiniteSets, SequencesExt

CONSTANTS
  Flats,      \* lists of atoms
  Nested,     \* lists with lists in them
  Pairs,      \* association lists and lists sorted by a key
  Patterns,   \* lists with the symbols ? * +
  Some,       \* values to look for and to push
  Compared,   \* values to compare
  Indices,    \* index vectors
  Counts,     \* offsets, lengths and counts
  NestLimit   \* MAX_REF_STACK

VARIABLES ask, answer

----------------------------------------
(* Values, and the order the program puts them in (nl-math.c, nl-list.c). *)

Nil == <<"nil">>
True == <<"true">>
NaN == <<"nan">>
Num(n) == <<"int", n>>
Half(n) == <<"float", n>>
Str(s) == <<"string", s>>
Sym(context, name) == <<"symbol", context, name>>
Ctx(name, address) == <<"context", name, address>>
List(s) == <<"list", s>>
Arr(s) == <<"array", s>>
Error == <<"error">>

IsNumber(v) == v[1] \in {"int", "float", "nan"}
IsList(v) == v[1] = "list"

\* The number of a cell's type under COMPARE_TYPE_MASK.
Rank(v) == CASE v[1] = "nil" -> 0     [] v[1] = "true" -> 1   [] v[1] = "int" -> 2
             [] v[1] \in {"float", "nan"} -> 3                [] v[1] = "string" -> 4
             [] v[1] = "symbol" -> 5  [] v[1] = "context" -> 6
             [] v[1] = "list" -> 11   [] v[1] = "array" -> 14

Order(a, b) == IF a < b THEN -1 ELSE IF a > b THEN 1 ELSE 0

\* A number in halves.
Halves(v) == IF v[1] = "int" THEN 2 * v[2] ELSE v[2]

CompareNumbers(x, y) == IF NaN \in {x, y} THEN 9 ELSE Order(Halves(x), Halves(y))

\* memcmp over the shorter string, then the length.
RECURSIVE CompareTexts(_, _)

\* Mutant: strings of different length are told apart without saying which is longer.
CompareTextsOneWay(s, t) ==
  IF s = <<>> \/ t = <<>> THEN IF Len(s) = Len(t) THEN 0 ELSE 1
  ELSE IF Head(s) # Head(t) THEN Order(Head(s), Head(t)) ELSE CompareTexts(Tail(s), Tail(t))

CompareTexts(s, t) ==
  IF s = <<>> \/ t = <<>> THEN Order(Len(s), Len(t))
  ELSE IF Head(s) # Head(t) THEN Order(Head(s), Head(t)) ELSE CompareTexts(Tail(s), Tail(t))

CompareSymbols(x, y) == IF x[2] = y[2] THEN Order(x[3], y[3]) ELSE Order(x[2], y[2])

RECURSIVE CompareCells(_, _), CompareLists(_, _)

\* Elements first, then the shorter list.
CompareLists(s, t) ==
  IF s = <<>> \/ t = <<>> THEN Order(Len(s), Len(t))
  ELSE LET c == CompareCells(Head(s), Head(t)) IN IF c # 0 THEN c ELSE CompareLists(Tail(s), Tail(t))

\* The smaller array first, whatever the elements.
CompareArrays(s, t) == IF Len(s) # Len(t) THEN Order(Len(s), Len(t)) ELSE CompareLists(s, t)

\* -1, 0 or 1, and 9 when a number is not a number.
CompareCells(x, y) ==
  CASE IsNumber(x) /\ IsNumber(y) -> CompareNumbers(x, y)
    [] {x[1], y[1]} = {"symbol", "context"} ->
         Order(IF x[1] = "symbol" THEN x[3] ELSE x[2], IF y[1] = "symbol" THEN y[3] ELSE y[2])
    [] x[1] # y[1] /\ ~(IsNumber(x) /\ IsNumber(y)) /\ {x[1], y[1]} # {"symbol", "context"} ->
         Order(Rank(x), Rank(y))
    [] x[1] = y[1] /\ x[1] \in {"nil", "true"} -> 0
    [] x[1] = y[1] /\ x[1] = "string" -> CompareTexts(x[2], y[2])
    [] x[1] = y[1] /\ x[1] = "symbol" -> CompareSymbols(x, y)
    [] x[1] = y[1] /\ x[1] = "context" -> Order(x[3], y[3])
    [] x[1] = y[1] /\ x[1] = "list" -> CompareLists(x[2], y[2])
    [] x[1] = y[1] /\ x[1] = "array" -> CompareArrays(x[2], y[2])

Same(x, y) == CompareCells(x, y) = 0

Holds(op, c) == CASE op = "<" -> c < 0   [] op = ">" -> c > 0  [] op = "<=" -> c <= 0
                  [] op = ">=" -> c >= 0 [] op = "=" -> c = 0  [] op = "!=" -> c # 0

\* What a single operand is compared with: zero, the empty string or the empty list.
Neutral(x) == CASE IsNumber(x) -> Num(0) [] x[1] = "string" -> Str(<<>>) [] IsList(x) -> List(<<>>)

\* Each operand with the next; of a pair that has no order only != holds, and ends the comparison.
RECURSIVE Chain(_, _)
Chain(op, s) == LET c == CompareCells(s[1], s[2])
                IN IF c = 9 THEN op = "!="
                   ELSE Holds(op, c) /\ (Len(s) = 2 \/ Chain(op, Tail(s)))

CompareOp(op, s) ==
  IF Len(s) > 1 THEN Chain(op, s)
  ELSE IF IsNumber(s[1]) \/ s[1][1] = "string" \/ IsList(s[1]) THEN Chain(op, Append(s, Neutral(s[1])))
  ELSE TRUE

----------------------------------------
(* Patterns. *)

Wild(n) == Sym(0, n)
Question == Wild(1)
Star == Wild(2)
Plus == Wild(3)

----------------------------------------
(* Sorting a vector of cells.  A cell is a value and its place in the *)
(* list it comes from. *)

Cells(s) == [i \in DOMAIN s |-> <<s[i], i>>]
Contents(x) == [i \in DOMAIN x |-> x[i][1]]

\* Whether the left cell goes first: by the order of values, by place, or by a function of the user
\* that looks at the first members of two lists.
LeftFirst(by, x, y) ==
  CASE by = "value" -> CompareCells(x[1], y[1]) <= 0
    [] by = "place" -> x[2] <= y[2]
    [] by = "<=" -> CompareCells(x[1][2][1], y[1][2][1]) <= 0
    [] by = "<" -> CompareCells(x[1][2][1], y[1][2][1]) < 0

RECURSIVE Merge(_, _, _)

\* Mutant: the right cell first when the cells are equal.
MergeRight(x, y, by) ==
  IF x = <<>> THEN y ELSE IF y = <<>> THEN x
  ELSE IF LeftFirst(by, Head(y), Head(x)) THEN <<Head(y)>> \o Merge(x, Tail(y), by)
  ELSE <<Head(x)>> \o Merge(Tail(x), y, by)

Merge(x, y, by) ==
  IF x = <<>> THEN y ELSE IF y = <<>> THEN x
  ELSE IF LeftFirst(by, Head(x), Head(y)) THEN <<Head(x)>> \o Merge(Tail(x), y, by)
  ELSE <<Head(y)>> \o Merge(x, Tail(y), by)

First(n, x) == SubSeq(x, 1, IF n < Len(x) THEN n ELSE Len(x))
Without(n, x) == SubSeq(x, n + 1, Len(x))

\* One pass: the runs of m cells are merged in pairs.
RECURSIVE MergePass(_, _, _)
MergePass(x, m, by) ==
  IF x = <<>> THEN <<>>
  ELSE Merge(First(m, x), First(m, Without(m, x)), by) \o MergePass(Without(2 * m, x), m, by)

RECURSIVE Passes(_, _, _)
Passes(x, m, by) == IF m >= Len(x) THEN x ELSE Passes(MergePass(x, m, by), 2 * m, by)

Binsort(x, by) == Passes(x, 1, by)

SortList(s, by) == Contents(Binsort(Cells(s), by))

----------------------------------------
(* The set functions: the cells of the first list in order, against those *)
(* of the second; what is kept is put back in the order of the first list. *)

\* Mutant: an element is compared with the first one kept, and not with the last.
KeepsFirst(kept, cell, listMode) ==
  kept = <<>> \/ ~Same(cell[1], kept[1][1]) \/ listMode

Keeps(kept, cell, listMode) ==
  kept = <<>> \/ ~Same(cell[1], kept[Len(kept)][1]) \/ listMode

RECURSIVE Gather(_, _, _, _, _)
Gather(x, y, mode, listMode, kept) ==
  LET c == CompareCells(Head(x)[1], Head(y)[1])
      Take == Gather(Tail(x), y, mode, listMode,
                     IF Keeps(kept, Head(x), listMode) THEN Append(kept, Head(x)) ELSE kept)
      Skip == Gather(Tail(x), y, mode, listMode, kept)
  IN IF x = <<>> THEN kept
     ELSE IF y = <<>> \/ mode = "unique" THEN Take
     ELSE IF c = 0 THEN IF mode = "intersect" THEN Take ELSE Skip
     ELSE IF c < 0 THEN IF mode = "intersect" THEN Skip ELSE Take
     ELSE IF Len(y) > 1 THEN Gather(x, Tail(y), mode, listMode, kept)
     ELSE IF mode = "intersect" THEN Skip ELSE Take

SetInterDiff(s, t, mode, listMode) ==
  IF mode = "intersect" /\ t = <<>> THEN <<>>
  ELSE Contents(Binsort(Gather(Binsort(Cells(s), "value"), Binsort(Cells(t), "value"),
                               mode, listMode, <<>>), "place"))

Union(s, t) == SetInterDiff(s \o t, <<>>, "unique", FALSE)

\* How often each item occurs: both vectors sorted, one walk.
RECURSIVE Tally(_, _, _)
Tally(items, list, counts) ==
  LET c == CompareCells(Head(list)[1], Head(items)[1])
  IN IF list = <<>> THEN counts
     ELSE IF c = 0 THEN Tally(items, Tail(list), [counts EXCEPT ![Head(items)[2]] = @ + 1])
     ELSE IF c < 0 \/ Len(items) = 1 THEN Tally(items, Tail(list), counts)
     ELSE Tally(Tail(items), list, counts)

\* Mutant: the items are not sorted first.
CountUnsorted(items, list) ==
  IF items = <<>> THEN <<>>
  ELSE Tally(Cells(items), Binsort(Cells(list), "value"), [i \in DOMAIN items |-> 0])

Count(items, list) ==
  IF items = <<>> THEN <<>>
  ELSE Tally(Binsort(Cells(items), "value"), Binsort(Cells(list), "value"), [i \in DOMAIN items |-> 0])

----------------------------------------
(* Pattern matching.  The answer is <<TRUE, matched values>> or NoMatch. *)

NoMatch == <<FALSE, <<>>>>
Matched(s) == <<TRUE, s>>

\* The pattern from here, the list from here, the values matched so far, and what the wildcard
\* at the head of the pattern has taken (starred says that it has begun).
RECURSIVE PatternMatch(_, _, _, _, _)

\* Mutant: a + may also take nothing.
WildcardNothing(p, s, flag, acc, taken) ==
  LET here == PatternMatch(Tail(p), s, flag, <<>>, <<>>)
      Grab == IF s = <<>> THEN NoMatch ELSE PatternMatch(p, Tail(s), flag, acc, Append(taken, Head(s)))
  IN IF Len(p) = 1 THEN Matched(Append(acc, List(taken \o s)))
     ELSE IF here[1] THEN Matched(Append(acc, List(taken)) \o here[2])
     ELSE IF Len(s) <= 1 THEN NoMatch ELSE Grab

\* * and +: the rest of the pattern is tried where the list stands; when it fails the wildcard
\* takes one more element.  + takes one before it tries.
Wildcard(p, s, flag, acc, taken) ==
  LET here == PatternMatch(Tail(p), s, flag, <<>>, <<>>)
      Grab == PatternMatch(p, Tail(s), flag, acc, Append(taken, Head(s)))
  IN IF Head(p) = Plus /\ taken = <<>> THEN IF s = <<>> THEN NoMatch ELSE Grab
     ELSE IF Len(p) = 1 THEN Matched(Append(acc, List(taken \o s)))
     ELSE IF here[1] THEN Matched(Append(acc, List(taken)) \o here[2])
     ELSE IF Len(s) <= 1 THEN NoMatch ELSE Grab

\* A nil in the pattern ends it, and a nil in the list ends that.
PatternMatch(p, s, flag, acc, taken) ==
  LET ended == s = <<>> \/ Head(s) = Nil
      sub == PatternMatch(Head(p)[2], Head(s)[2], flag, <<>>, <<>>)
      Element(a) == PatternMatch(Tail(p), Tail(s), flag, a, <<>>)
  IN IF p = <<>> \/ Head(p) = Nil THEN IF ended THEN Matched(acc) ELSE NoMatch
     ELSE IF IsList(Head(p))
       THEN IF s = <<>> \/ ~IsList(Head(s)) \/ ~sub[1] THEN NoMatch
            ELSE IF flag /\ sub[2] # <<>> THEN Element(Append(acc, List(sub[2])))
            ELSE Element(acc \o sub[2])
     ELSE IF Head(p) \in {Star, Plus} THEN Wildcard(p, s, flag, acc, taken)
     ELSE IF s = <<>> \/ (Head(p) # Question /\ ~Same(Head(p), Head(s))) THEN NoMatch
     ELSE IF flag \/ Head(p) = Question THEN Element(Append(acc, Head(s)))
     ELSE Element(acc)

Match(p, s, flag) == PatternMatch(p, s, flag, <<>>, <<>>)

----------------------------------------
(* Index vectors. *)

\* convertNegativeOffset: from the end, -1 for an index before the first element.
Offset(i, s) == IF i >= 0 THEN i ELSE IF Len(s) + i >= 0 THEN Len(s) + i ELSE -1

\* implicitIndexList: indices that are left when an element is no list are ignored.
RECURSIVE ElementAt(_, _)
ElementAt(v, path) ==
  IF path = <<>> \/ ~IsList(v) THEN v
  ELSE LET i == Offset(Head(path), v[2])
       IN IF i < 0 \/ i >= Len(v[2]) THEN Error ELSE ElementAt(v[2][i + 1], Tail(path))

RECURSIVE CellOfArray(_, _)

\* Mutant: the last element is -2.
CellOfArrayShort(v, path) ==
  IF path = <<>> \/ v[1] # "array" THEN v
  ELSE LET i == IF Head(path) < 0 THEN Head(path) + Len(v[2]) + 1 ELSE Head(path)
       IN IF i < 0 \/ i >= Len(v[2]) THEN Error ELSE CellOfArray(v[2][i + 1], Tail(path))

\* implicitIndexArray: the same for an array.
CellOfArray(v, path) ==
  IF path = <<>> \/ v[1] # "array" THEN v
  ELSE LET i == IF Head(path) < 0 THEN Head(path) + Len(v[2]) ELSE Head(path)
       IN IF i < 0 \/ i >= Len(v[2]) THEN Error ELSE CellOfArray(v[2][i + 1], Tail(path))

InsertBefore(s, i, v) == SubSeq(s, 1, i) \o <<v>> \o SubSeq(s, i + 1, Len(s))

\* Mutant: a negative index inserts before its element.
PushBefore(i, s) ==
  IF i >= 0 THEN <<i, "before">>
  ELSE IF Len(s) + i >= 0 THEN <<Len(s) + i, "before">> ELSE <<-1, "error">>

\* Where push inserts: after the element that a negative index names, or before the first one.
PushPlace(i, s) ==
  IF i >= 0 THEN <<i, "before">>
  ELSE IF Len(s) + i = -1 THEN <<0, "before">>
  ELSE IF Len(s) + i >= 0 THEN <<Len(s) + i, "after">> ELSE <<-1, "error">>

\* An insertion at the end of a list whose last element is an empty list goes into that element:
\* the code takes its contents, nil, for the place where it stands.
PushEnd(s, v) == IF s # <<>> /\ s[Len(s)] = List(<<>>) THEN [s EXCEPT ![Len(s)] = List(<<v>>)]
                 ELSE IF s # <<>> /\ s[Len(s)] = Nil THEN s
                 ELSE Append(s, v)

RECURSIVE PushAt(_, _, _)
PushAt(s, path, v) ==
  LET at == PushPlace(Head(path), s)
      deeper == Len(path) > 1 /\ at[1] < Len(s) /\ IsList(s[at[1] + 1])
  IN IF at[2] = "error" \/ at[1] > Len(s) THEN Error
     ELSE IF deeper THEN LET sub == PushAt(s[at[1] + 1][2], Tail(path), v)
                         IN IF sub = Error THEN Error ELSE List([s EXCEPT ![at[1] + 1] = sub])
     ELSE IF at[1] = Len(s) THEN List(PushEnd(s, v))
     ELSE List(InsertBefore(s, IF at[2] = "after" THEN at[1] + 1 ELSE at[1], v))

\* push: an index of -1 alone appends.
Push(s, path, v) == IF path = <<-1>> THEN List(Append(s, v)) ELSE PushAt(s, path, v)

\* pop: <<the value, the list without it>>, or Error.
RECURSIVE PopAt(_, _)
PopAt(s, path) ==
  LET i == Offset(Head(path), s)
      deeper == Len(path) > 1 /\ IsList(s[i + 1])
  IN IF i < 0 \/ i >= Len(s) THEN Error
     ELSE IF deeper THEN LET sub == PopAt(s[i + 1][2], Tail(path))
                         IN IF sub = Error THEN Error ELSE <<sub[1], [s EXCEPT ![i + 1] = List(sub[2])]>>
     ELSE <<s[i + 1], RemoveAt(s, i + 1)>>

----------------------------------------
(* Searching lists that contain lists. *)

\* compareFunc with the functions = and >.
Fits(func, key, v) == IF func = "=" THEN Same(key, v) ELSE CompareCells(key, v) > 0

\* ref: the index vectors of all elements that fit, outer before inner, and TooDeep where the
\* nesting passes NestLimit.  path is the vector so far, place counts the elements passed.
TooDeep == <<-1>>
RECURSIVE RefAll(_, _, _, _, _)

\* Mutant: a list that fits is not searched.
RefOutside(key, s, func, path, place) ==
  IF s = <<>> THEN <<>>
  ELSE (IF Fits(func, key, Head(s)) THEN <<Append(path, place)>>
        ELSE IF IsList(Head(s)) THEN RefAll(key, Head(s)[2], func, Append(path, place), 0) ELSE <<>>)
       \o RefAll(key, Tail(s), func, path, place + 1)

RefAll(key, s, func, path, place) ==
  IF s = <<>> THEN <<>>
  ELSE IF Len(path) = NestLimit /\ (Fits(func, key, Head(s)) \/ IsList(Head(s))) THEN <<TooDeep>>
  ELSE (IF Fits(func, key, Head(s)) THEN <<Append(path, place)>> ELSE <<>>)
       \o (IF IsList(Head(s)) THEN RefAll(key, Head(s)[2], func, Append(path, place), 0) ELSE <<>>)
       \o RefAll(key, Tail(s), func, path, place + 1)

\* ref stops at the first.
Ref(key, s, func) == LET all == RefAll(key, s, func, <<>>, 0)
                     IN IF all = <<>> THEN Nil ELSE IF all[1] = TooDeep THEN Error
                        ELSE List([i \in DOMAIN all[1] |-> Num(all[1][i])])

RECURSIVE ModRef(_, _, _, _, _)

\* Mutant: after a change inside a list, the elements behind that list are searched too.
ModRefOn(key, s, func, new, all) ==
  LET fits == Fits(func, key, Head(s))
      inner == ModRef(key, Head(s)[2], func, new, all)
      head == IF fits THEN <<1, new>>
              ELSE IF IsList(Head(s)) THEN <<inner[1], List(inner[2])>> ELSE <<0, Head(s)>>
      rest == IF ~all /\ fits THEN <<0, Tail(s)>> ELSE ModRef(key, Tail(s), func, new, all)
  IN IF s = <<>> THEN <<0, <<>>>> ELSE <<head[1] + rest[1], <<head[2]>> \o rest[2]>>

\* modRef: <<changes made, the new list>>.  A list that is replaced is not entered.
ModRef(key, s, func, new, all) ==
  LET fits == Fits(func, key, Head(s))
      inner == ModRef(key, Head(s)[2], func, new, all)
      head == IF fits THEN <<1, new>>
              ELSE IF IsList(Head(s)) THEN <<inner[1], List(inner[2])>> ELSE <<0, Head(s)>>
      rest == IF ~all /\ head[1] > 0 THEN <<0, Tail(s)>> ELSE ModRef(key, Tail(s), func, new, all)
  IN IF s = <<>> THEN <<0, <<>>>> ELSE <<head[1] + rest[1], <<head[2]>> \o rest[2]>>

\* Mutant: a list is opened also at the last level.
RECURSIVE FlatTooDeep(_, _)
FlatTooDeep(s, level) ==
  IF s = <<>> THEN <<>>
  ELSE (IF IsList(Head(s)) THEN FlatTooDeep(Head(s)[2], level - 1) ELSE <<Head(s)>>)
       \o FlatTooDeep(Tail(s), level)

\* flat to a level; a negative level is no limit.
RECURSIVE Flat(_, _)
Flat(s, level) ==
  IF s = <<>> THEN <<>>
  ELSE (IF IsList(Head(s)) /\ level # 0 THEN Flat(Head(s)[2], level - 1) ELSE <<Head(s)>>)
       \o Flat(Tail(s), level)

----------------------------------------
(* Association lists.  keys is a sequence: one key for each level. *)

\* The first list of s from place i on whose first element is the key, or 0.  The first element
\* of an empty list is nil.
Car(v) == IF v[2] = <<>> THEN Nil ELSE v[2][1]
RECURSIVE EntryFrom(_, _, _)
EntryFrom(s, i, key) ==
  IF i > Len(s) THEN 0 ELSE IF IsList(s[i]) /\ Same(key, Car(s[i])) THEN i
  ELSE EntryFrom(s, i + 1, key)

RECURSIVE EntryPath(_, _, _)

\* Mutant: below the first level the key of the entry is searched too.
EntryPathFirst(s, from, keys) ==
  LET i == EntryFrom(s, 1, Head(keys))
      below == EntryPath(s[i][2], 1, Tail(keys))
  IN IF i = 0 THEN <<>> ELSE IF Len(keys) = 1 THEN <<i - 1>>
     ELSE IF below = <<>> THEN <<>> ELSE <<i - 1>> \o below

\* The index vector of the entry, or <<>>.  Below the first level the key itself is not searched.
EntryPath(s, from, keys) ==
  LET i == EntryFrom(s, from, Head(keys))
      below == EntryPath(s[i][2], 2, Tail(keys))
  IN IF i = 0 THEN <<>> ELSE IF Len(keys) = 1 THEN <<i - 1>>
     ELSE IF below = <<>> THEN <<>> ELSE <<i - 1>> \o below

Assoc(s, keys) == LET path == EntryPath(s, 1, keys)
                  IN IF path = <<>> THEN Nil ELSE ElementAt(List(s), path)

\* lookup: an index past the end means the last element.
Lookup(s, keys, index) ==
  LET path == EntryPath(s, 1, keys)
      entry == ElementAt(List(s), path)[2]
      i == Offset(index, entry)
  IN IF path = <<>> THEN Nil ELSE IF i < 0 THEN Error
     ELSE IF entry = <<>> THEN Nil ELSE entry[IF i >= Len(entry) THEN Len(entry) ELSE i + 1]

PopAssoc(s, keys) == LET path == EntryPath(s, 1, keys)
                     IN IF path = <<>> THEN <<Nil, s>> ELSE PopAt(s, path)

----------------------------------------
(* Parts of lists. *)

RECURSIVE Chunks(_, _, _)
Chunks(s, n, chunks) ==
  IF s = <<>> THEN chunks
  ELSE IF chunks # <<>> /\ Len(Last(chunks)) < n
    THEN Chunks(Tail(s), n, [chunks EXCEPT ![Len(chunks)] = Append(@, Head(s))])
  ELSE Chunks(Tail(s), n, Append(chunks, <<Head(s)>>))

\* Mutant: the last chunk is left out although it is full.
ExplodeDrops(s, n, whole) ==
  LET chunks == Chunks(s, n, <<>>)
  IN IF n <= 0 THEN <<>> ELSE IF whole /\ chunks # <<>> THEN Front(chunks) ELSE chunks

\* explode: with whole, a last chunk that is too short is left out.
Explode(s, n, whole) ==
  LET chunks == Chunks(s, n, <<>>)
  IN IF n <= 0 THEN <<>>
     ELSE IF whole /\ chunks # <<>> /\ Len(Last(chunks)) < n THEN Front(chunks) ELSE chunks

\* slice of a list; a negative length leaves so many elements out at the end.
Sublist(s, offset, length) ==
  LET at == Offset(offset, s)
      n == IF length >= 0 THEN length ELSE Len(s) - at + length
  IN IF at < 0 THEN Error
     ELSE IF n <= 0 \/ at >= Len(s) THEN List(<<>>)
     ELSE List(SubSeq(s, at + 1, IF at + n < Len(s) THEN at + n ELSE Len(s)))

\* A negative number is a large one.
Chop(s, n) == Sublist(s, 0, IF n < 0 \/ n > Len(s) THEN 0 ELSE Len(s) - n)

\* select moves a cursor forward and starts again when an index lies before it.
RECURSIVE SelectFrom(_, _, _, _)
SelectFrom(s, indices, cursor, taken) ==
  IF indices = <<>> THEN List(taken)
  ELSE LET i == Offset(Head(indices), s)
           from == IF i < cursor THEN 0 ELSE cursor
           to == from + (i - from)
       IN IF i < 0 \/ to >= Len(s) THEN Error
          ELSE SelectFrom(s, Tail(indices), to, Append(taken, s[to + 1]))

\* Mutant: the cursor is not set back.
SelectForward(s, indices) ==
  LET places == [k \in DOMAIN indices |-> Offset(indices[k], s)]
      Most(k) == CHOOSE m \in {places[j] : j \in 1..k} : \A j \in 1..k : places[j] <= m
  IN IF \E k \in DOMAIN places : places[k] < 0 \/ places[k] >= Len(s) THEN Error
     ELSE List([k \in DOMAIN indices |-> s[Most(k) + 1]])

Select(s, indices) == SelectFrom(s, indices, 0, <<>>)

\* A negative multiple of the length becomes the length itself.
AdjustCount(count, length) ==
  IF length <= 1 \/ count = 0 \/ length = count \/ length = -count THEN 0
  ELSE IF count > 0 THEN count % length ELSE length - ((-count) % length)

\* Mutant: rotation to the left.
RotateLeft(s, count) == LET n == AdjustCount(count, Len(s)) IN Without(n, s) \o First(n, s)

\* rotate: the list is cut before its last n elements.  When n is the length the cut is behind
\* the first cell, which then also comes first: the others are lost.
Rotate(s, count) ==
  LET n == AdjustCount(count, Len(s))
  IN IF n = 0 THEN s ELSE IF n = Len(s) THEN First(1, s)
     ELSE Without(Len(s) - n, s) \o First(Len(s) - n, s)

----------------------------------------
(* Functions that take a list element by element. *)

RECURSIVE MapArguments(_)

\* Mutant: a list that has ended is passed over, and the next one gives its element.
MapArgumentsPast(lists) ==
  IF lists = <<>> THEN <<>>
  ELSE (IF Head(lists) = <<>> THEN <<>> ELSE <<Head(lists)[1]>>) \o MapArguments(Tail(lists))

\* map over several lists: it ends with the first list; at the first list that has no more
\* elements, the lists after it are passed over too.
MapArguments(lists) ==
  IF lists = <<>> \/ Head(lists) = <<>> THEN <<>> ELSE <<Head(lists)[1]>> \o MapArguments(Tail(lists))

Shorter(lists) ==
  LET gone == {i \in DOMAIN lists : lists[i] = <<>>}
      end == IF gone = {} THEN Len(lists) ELSE (CHOOSE i \in gone : \A j \in gone : i <= j) - 1
  IN [i \in DOMAIN lists |-> IF i <= end THEN Tail(lists[i]) ELSE lists[i]]

RECURSIVE Map(_)
Map(lists) == IF lists[1] = <<>> THEN <<>> ELSE <<List(MapArguments(lists))>> \o Map(Shorter(lists))

RECURSIVE FilterIndex(_, _, _, _)

\* Mutant: only the elements that hold are counted.
FilterIndexHeld(mode, key, s, i) ==
  LET holds == s # <<>> /\ CompareCells(Head(s), key) > 0
      rest == FilterIndex(mode, key, Tail(s), i)
  IN CASE s = <<>> -> IF mode = "exists" THEN <<Nil>> ELSE IF mode = "for-all" THEN <<True>> ELSE <<>>
       [] s # <<>> /\ mode = "exists" -> IF holds THEN <<Head(s)>> ELSE rest
       [] s # <<>> /\ mode = "for-all" -> IF holds THEN rest ELSE <<Nil>>
       [] s # <<>> /\ mode = "filter" -> IF holds THEN <<Head(s)>> \o rest ELSE rest
       [] s # <<>> /\ mode = "clean" -> IF holds THEN rest ELSE <<Head(s)>> \o rest
       [] s # <<>> /\ mode = "index" ->
            IF holds THEN <<Num(i)>> \o FilterIndex(mode, key, Tail(s), i + 1) ELSE rest

\* filterIndex in its five modes, for a predicate that holds of the values > key.
FilterIndex(mode, key, s, i) ==
  LET holds == CompareCells(Head(s), key) > 0
      Then(found) == <<found>> \o FilterIndex(mode, key, Tail(s), i + 1)
      rest == FilterIndex(mode, key, Tail(s), i + 1)
  IN CASE s = <<>> -> IF mode = "exists" THEN <<Nil>> ELSE IF mode = "for-all" THEN <<True>> ELSE <<>>
       [] s # <<>> /\ mode = "exists" -> IF holds THEN <<Head(s)>> ELSE rest
       [] s # <<>> /\ mode = "for-all" -> IF holds THEN rest ELSE <<Nil>>
       [] s # <<>> /\ mode = "filter" -> IF holds THEN Then(Head(s)) ELSE rest
       [] s # <<>> /\ mode = "clean" -> IF holds THEN rest ELSE Then(Head(s))
       [] s # <<>> /\ mode = "index" -> IF holds THEN Then(Num(i)) ELSE rest

\* member and find.
Member(key, s) == LET at == SelectInSeq(s, LAMBDA v : Same(key, v))
                  IN IF at = 0 THEN Nil ELSE List(Without(at - 1, s))
Find(key, s, func) == LET at == SelectInSeq(s, LAMBDA v : Fits(func, key, v))
                      IN IF at = 0 THEN Nil ELSE Num(at - 1)

\* Mutant: the match is asked only for the values of the wildcards.
FindAllWild(key, s) ==
  SelectSeq(s, LAMBDA v : IF ~IsList(key) THEN Same(key, v)
                          ELSE IsList(v) /\ Match(key[2], v[2], FALSE)[1]
                                         /\ Match(key[2], v[2], FALSE)[2] # <<>>)

\* find-all with a pattern that is a list: the lists that match with something to show.
FindAll(key, s) ==
  SelectSeq(s, LAMBDA v : IF ~IsList(key) THEN Same(key, v)
                          ELSE IsList(v) /\ Match(key[2], v[2], TRUE)[1]
                                         /\ Match(key[2], v[2], TRUE)[2] # <<>>)

RECURSIVE Replace(_, _, _, _)

\* Mutant: the element behind one that is removed is not compared.
ReplaceSkips(key, s, func, with) ==
  IF s = <<>> THEN <<<<>>, 0>>
  ELSE LET next == Tail(s)
           behind == IF Fits(func, key, Head(s)) /\ with = <<>> /\ next # <<>> THEN <<Head(next)>> ELSE <<>>
           rest == Replace(key, IF behind = <<>> THEN next ELSE Tail(next), func, with)
       IN IF Fits(func, key, Head(s)) THEN <<with \o behind \o rest[1], rest[2] + 1>>
          ELSE <<<<Head(s)>> \o rest[1], rest[2]>>

\* replace: <<the list, $count>>.  The element put in is not compared again; in an empty list the
\* end itself is compared, as nil.
Replace(key, s, func, with) ==
  IF s = <<>> THEN <<<<>>, 0>>
  ELSE LET rest == Replace(key, Tail(s), func, with)
       IN IF Fits(func, key, Head(s)) THEN <<with \o rest[1], rest[2] + 1>>
          ELSE <<<<Head(s)>> \o rest[1], rest[2]>>

ReplaceIn(key, s, func, with) ==
  IF s = <<>> /\ Fits(func, key, Nil) THEN <<with, 1>> ELSE Replace(key, s, func, with)

\* starts-with and ends-with: the end of an empty list is compared as nil.
StartsWith(s, key) == Same(IF s = <<>> THEN Nil ELSE s[1], key)
EndsWith(s, key) == Same(IF s = <<>> THEN Nil ELSE s[Len(s)], key)

Sequence(from, to) == IF from > to THEN [i \in 1..(from - to + 1) |-> Num(from - i + 1)]
                      ELSE [i \in 1..(to - from + 1) |-> Num(from + i - 1)]

Dup(v, n) == [i \in 1..(IF n < 0 THEN 0 ELSE n) |-> v]

----------------------------------------
(* Arrays. *)

RECURSIVE MakeArray(_)
MakeArray(dimensions) ==
  IF dimensions = <<>> THEN Nil ELSE Arr([i \in 1..Head(dimensions) |-> MakeArray(Tail(dimensions))])

\* Mutant: each row starts with the first element of the list again.
RECURSIVE InitRows(_, _, _)
InitRows(a, list, next) ==
  <<Arr([i \in DOMAIN a[2] |->
           IF a[2][i][1] = "array" THEN InitRows(a[2][i], list, list)[1]
           ELSE IF list = <<>> THEN Nil ELSE list[((i - 1) % Len(list)) + 1]]), next>>

\* initArray: the elements of the list in turn, from the start again when it ends.
\* <<the array, what is left of the list>>.
RECURSIVE InitCells(_, _, _), InitArray(_, _, _)
InitCells(cells, list, next) ==
  IF cells = <<>> THEN <<<<>>, next>>
  ELSE LET source == IF next = <<>> THEN list ELSE next
           one == IF Head(cells)[1] = "array" THEN InitArray(Head(cells), list, next)
                  ELSE IF source = <<>> THEN <<Nil, <<>>>> ELSE <<Head(source), Tail(source)>>
           rest == InitCells(Tail(cells), list, one[2])
       IN <<<<one[1]>> \o rest[1], rest[2]>>
InitArray(a, list, next) == LET done == InitCells(a[2], list, next) IN <<Arr(done[1]), done[2]>>

\* array: the list must not be empty to fill it.
Array(dimensions, list) == InitArray(MakeArray(dimensions), list, <<>>)[1]

\* array-list.
RECURSIVE ArrayList(_)
ArrayList(a) ==
  List([i \in DOMAIN a[2] |-> IF a[2][i][1] = "array" THEN ArrayList(a[2][i]) ELSE a[2][i]])

\* arrayTranspose: as many rows as the first row has columns; a short row gives nil, and an
\* element that is no row stands in every row of the result.
ArrayTranspose(a) ==
  IF a[2][1][1] # "array" THEN Error
  ELSE Arr([j \in DOMAIN a[2][1][2] |->
              Arr([i \in DOMAIN a[2] |->
                     IF a[2][i][1] # "array" THEN a[2][i]
                     ELSE IF j > Len(a[2][i][2]) THEN Nil ELSE a[2][i][2][j]])])

NoLength == 99  \* MAX_LONG, when slice has no length

\* Mutant: the length is not checked.
SubarrayUnchecked(a, offset, length) ==
  LET size == Len(a[2])
      at == IF offset < 0 THEN offset + size ELSE offset
      n == IF length < 0 THEN size - at + length ELSE length
  IN IF at < 0 \/ at >= size THEN Error ELSE Arr(SubSeq(a[2], at + 1, IF at + n > size THEN size ELSE at + n))

\* slice of an array: out of bounds is an error, and so is an empty result.
Subarray(a, offset, length) ==
  LET size == Len(a[2])
      at == IF offset < 0 THEN offset + size ELSE offset
      n == IF length < 0 THEN IF size - at + length < 0 THEN 0 ELSE size - at + length
           ELSE IF length = NoLength THEN size - at ELSE length
  IN IF at < 0 \/ at >= size \/ n = 0 \/ n > size - at THEN Error ELSE Arr(SubSeq(a[2], at + 1, at + n))

AppendArray(a, b) == Arr(a[2] \o b[2])

----------------------------------------
(* A call, and its answer. *)

Idle == <<"none">>
Call(function, arguments) == ask' = <<function>> \o arguments
Answer(v) == answer' = v

CallSort == \E s \in Flats : Call("sort", <<s, "value">>) /\ Answer(SortList(s, "value"))
CallSortBy == \E s \in Pairs, by \in {"<", "<="} : Call("sort", <<s, by>>) /\ Answer(SortList(s, by))
CallSet == \E s, t \in Flats, mode \in {"intersect", "difference"}, listMode \in BOOLEAN :
             Call("set", <<s, t, mode, listMode>>) /\ Answer(SetInterDiff(s, t, mode, listMode))
CallUnion == \E s, t \in Flats : Call("union", <<s, t>>) /\ Answer(Union(s, t))
CallCount == \E s, t \in Flats : Call("count", <<s, t>>) /\ Answer(Count(s, t))
CallMatch == \E p \in Patterns, s \in Nested, flag \in BOOLEAN :
               Call("match", <<p, s, flag>>) /\ Answer(Match(p, s, flag))
CallFindAll == \E p \in Patterns, s \in Nested :
                 Call("find-all", <<p, s>>) /\ Answer(FindAll(List(p), s))
CallNth == \E s \in Nested, path \in Indices :
             Call("nth", <<s, path>>) /\ Answer(ElementAt(List(s), path))
CallPush == \E s \in Nested, path \in Indices, v \in Some :
              Call("push", <<s, path, v>>) /\ Answer(Push(s, path, v))
CallPop == \E s \in Nested, path \in Indices : Call("pop", <<s, path>>) /\ Answer(PopAt(s, path))
CallRef == \E v \in Some, s \in Nested, func \in {"=", ">"} :
             \/ Call("ref", <<v, s, func>>) /\ Answer(Ref(v, s, func))
             \/ Call("ref-all", <<v, s, func>>) /\ Answer(RefAll(v, s, func, <<>>, 0))
CallSetRef == \E v, new \in Some, s \in Nested, all \in BOOLEAN :
                Call("set-ref", <<v, s, new, all>>) /\ Answer(ModRef(v, s, "=", new, all))
CallFlat == \E s \in Nested, level \in Counts : Call("flat", <<s, level>>) /\ Answer(Flat(s, level))
CallAssoc == \E s \in Pairs, keys \in {<<v>> : v \in Some} \cup (Some \X Some) :
               \/ Call("assoc", <<s, keys>>) /\ Answer(Assoc(s, keys))
               \/ Call("pop-assoc", <<s, keys>>) /\ Answer(PopAssoc(s, keys))
               \/ \E i \in Counts : Call("lookup", <<s, keys, i>>) /\ Answer(Lookup(s, keys, i))
CallExplode == \E s \in Flats, n \in Counts, whole \in BOOLEAN :
                 Call("explode", <<s, n, whole>>) /\ Answer(Explode(s, n, whole))
CallSlice == \E s \in Flats, offset \in Counts, length \in Counts \cup {NoLength} :
               \/ Call("slice", <<s, offset, length>>) /\ Answer(Sublist(s, offset, length))
               \/ s # <<>> /\ Call("subarray", <<s, offset, length>>)
                           /\ Answer(Subarray(Arr(s), offset, length))
CallChop == \E s \in Flats, n \in Counts : Call("chop", <<s, n>>) /\ Answer(Chop(s, n))
CallSelect == \E s \in Flats, path \in Indices : Call("select", <<s, path>>) /\ Answer(Select(s, path))
CallRotate == \E s \in Flats, n \in Counts : Call("rotate", <<s, n>>) /\ Answer(Rotate(s, n))
CallMap == \E s, t, u \in {l \in Flats : Len(l) <= 2} : Call("map", <<s, t, u>>) /\ Answer(Map(<<s, t, u>>))
CallFilter == \E s \in Flats, v \in Some, mode \in {"filter", "clean", "index", "exists", "for-all"} :
                Call("filter", <<mode, v, s>>) /\ Answer(FilterIndex(mode, v, s, 0))
CallFind == \E s \in Flats, v \in Some, func \in {"=", ">"} :
              \/ Call("member", <<v, s>>) /\ func = "=" /\ Answer(Member(v, s))
              \/ Call("find", <<v, s, func>>) /\ Answer(Find(v, s, func))
              \/ Call("starts-with", <<s, v>>) /\ func = "=" /\ Answer(<<StartsWith(s, v)>>)
              \/ Call("ends-with", <<s, v>>) /\ func = "=" /\ Answer(<<EndsWith(s, v)>>)
CallReplace == \E s \in Flats, v \in Some, func \in {"=", ">"} :
               \E with \in {<<>>} \cup {<<new>> : new \in Some} :
                 Call("replace", <<v, s, func, with>>) /\ Answer(ReplaceIn(v, s, func, with))
CallMake == \E m, n \in Counts : \/ Call("sequence", <<m, n>>) /\ Answer(Sequence(m, n))
                                 \/ Call("dup", <<n>>) /\ Answer(Dup(Nil, n))
CallArray == \E m, n \in Counts, s \in Flats :
               /\ m > 0 /\ n > 0
               /\ \/ Call("array", <<m, n, s>>) /\ Answer(Array(<<m, n>>, s))
                  \/ s # <<>> /\ Call("append-array", <<m, n, s>>)
                              /\ Answer(AppendArray(Array(<<m, n>>, s), Array(<<n>>, s)))
CallIndexArray == \E m, n \in Counts, s \in Flats, path \in Indices :
                    /\ m > 0 /\ n > 0
                    /\ Call("index-array", <<Array(<<m, n>>, s), path>>)
                    /\ Answer(CellOfArray(Array(<<m, n>>, s), path))
CallCompare == \E x, y, z \in Compared, op \in {"<", ">", "<=", ">=", "=", "!="} :
               \E operands \in {<<x>>, <<x, y>>, <<x, y, z>>} :
                 Call("compare", <<op, operands>>) /\ Answer(<<CompareOp(op, operands)>>)

Return == ask # Idle /\ ask' = Idle /\ answer' = <<>>

Init == ask = Idle /\ answer = <<>>

Calls ==
  \/ CallSort \/ CallSortBy \/ CallSet \/ CallUnion \/ CallCount \/ CallMatch \/ CallFindAll
  \/ CallNth \/ CallPush \/ CallPop \/ CallRef \/ CallSetRef \/ CallFlat \/ CallAssoc
  \/ CallExplode \/ CallSlice \/ CallChop \/ CallSelect \/ CallRotate \/ CallMap \/ CallFilter
  \/ CallFind \/ CallReplace \/ CallMake \/ CallArray \/ CallIndexArray \/ CallCompare

Next == (ask = Idle /\ Calls) \/ Return

----------------------------------------
(* What the answers are, stated without the algorithms. *)

Asked(function) == ask[1] = function

\* sort: the elements in order, equal ones in the order they had; a function that says no to equal
\* elements turns them round, which the manual warns of (binsort).
SortsStable ==
  Asked("sort") =>
    LET s == ask[2]
        by == ask[3]
        Before(i, j) == IF LeftFirst(by, <<s[i], i>>, <<s[j], j>>) /= LeftFirst(by, <<s[j], j>>, <<s[i], i>>)
                        THEN LeftFirst(by, <<s[i], i>>, <<s[j], j>>)
                        ELSE IF by = "<" THEN j < i ELSE i < j
        order == SetToSortSeq(DOMAIN s, Before)
    IN answer = [k \in DOMAIN s |-> s[order[k]]]

Occurs(v, s) == \E i \in DOMAIN s : Same(v, s[i])
FirstOnes(s) == LET new == SelectSeq([i \in DOMAIN s |-> <<s[i], i>>],
                                     LAMBDA c : ~Occurs(c[1], SubSeq(s, 1, c[2] - 1)))
                IN Contents(new)

\* intersect, difference, union, unique: the elements of the first list that are or are not in the
\* second, in the order of the first, each once or, in list mode, as often as it stands there
\* (setInterDiff).
SetFunctionsAgree ==
  /\ Asked("set") =>
       LET kept == SelectSeq(ask[2], LAMBDA v : Occurs(v, ask[3]) <=> ask[4] = "intersect")
       IN answer = IF ask[5] THEN kept ELSE FirstOnes(kept)
  /\ Asked("union") => answer = FirstOnes(ask[2] \o ask[3])

\* count: an item that occurs in the items before it counts nothing, the others all they have.
CountsAgree ==
  Asked("count") =>
    answer = [i \in DOMAIN ask[2] |->
                IF Occurs(ask[2][i], SubSeq(ask[2], 1, i - 1)) THEN 0
                ELSE Cardinality({j \in DOMAIN ask[3] : Same(ask[3][j], ask[2][i])})]

\* Whether a pattern fits a list, for some split of the list at its first wildcard.
RECURSIVE PatternFits(_, _)
PatternFits(p, s) ==
  IF p = <<>> THEN s = <<>>
  ELSE IF Head(p) \in {Star, Plus}
    THEN \E n \in (IF Head(p) = Plus THEN 1 ELSE 0)..Len(s) : PatternFits(Tail(p), Without(n, s))
  ELSE /\ s # <<>>
       /\ \/ Head(p) = Question
          \/ IsList(Head(p)) /\ IsList(Head(s)) /\ PatternFits(Head(p)[2], Head(s)[2])
          \/ ~IsList(Head(p)) /\ Same(Head(p), Head(s))
       /\ PatternFits(Tail(p), Tail(s))

\* The list a pattern makes of the values for its wildcards, and the values left.
RECURSIVE Fill(_, _)
Fill(p, values) ==
  IF p = <<>> THEN <<<<>>, values>>
  ELSE LET sub == Fill(Head(p)[2], values)
           head == IF IsList(Head(p)) THEN <<<<List(sub[1])>>, sub[2]>>
                   ELSE IF Head(p) = Question THEN <<<<values[1]>>, Tail(values)>>
                   ELSE IF Head(p) \in {Star, Plus} THEN <<values[1][2], Tail(values)>>
                   ELSE <<<<Head(p)>>, values>>
           rest == Fill(Tail(p), head[2])
       IN <<head[1] \o rest[1], rest[2]>>

RECURSIVE HasNil(_)
HasNil(s) == \E i \in DOMAIN s : s[i] = Nil \/ (IsList(s[i]) /\ HasNil(s[i][2]))

\* match finds a match when there is one, and its values put into the pattern give the list back.
\* A nil among the elements is left out: the code takes it for the end (patternMatchL).
MatchAgrees ==
  Asked("match") /\ ~HasNil(ask[2]) /\ ~HasNil(ask[3]) =>
    /\ answer[1] = PatternFits(ask[2], ask[3])
    /\ answer[1] /\ ~ask[4] => Fill(ask[2], answer[2]) = <<ask[3], <<>>>>

\* find-all: every list that a pattern matches, if the match has an element to show.
FindsAll ==
  Asked("find-all") /\ ask[2] # <<>> /\ ~HasNil(ask[2]) =>
    answer = SelectSeq(ask[3], LAMBDA v : IsList(v) /\ ~HasNil(v[2]) /\ PatternFits(ask[2], v[2]))

\* The index vectors of all elements, and of those below them.
RECURSIVE Paths(_)
Paths(s) == {<<i - 1>> : i \in DOMAIN s}
            \cup UNION {{<<i - 1>> \o p : p \in Paths(s[i][2])} : i \in {j \in DOMAIN s : IsList(s[j])}}

RECURSIVE Earlier(_, _)
Earlier(p, q) == IF p = <<>> \/ q = <<>> THEN Len(p) < Len(q)
                 ELSE IF Head(p) # Head(q) THEN Head(p) < Head(q) ELSE Earlier(Tail(p), Tail(q))

\* ref-all gives the index vectors of all elements that fit, in the order of reading, and each one
\* indexes its element; it fails where a list is nested deeper than its stack (ref).
RefsExact ==
  Asked("ref-all") =>
    LET fits == {p \in Paths(ask[3]) : Fits(ask[4], ask[2], ElementAt(List(ask[3]), p))}
        deep == {p \in Paths(ask[3]) : Len(p) > NestLimit
                                       /\ (p \in fits \/ IsList(ElementAt(List(ask[3]), p)))}
    IN IF deep = {} THEN answer = SetToSortSeq(fits, Earlier)
       ELSE TooDeep \in ToSet(answer)

Holding(v, key) == \E p \in Paths(v[2]) : Same(ElementAt(v, p), key)

\* set-ref changes the element that ref finds and no other; set-ref-all leaves none, unless the
\* new value holds one (modRef).
SetRefExact ==
  Asked("set-ref") /\ Ref(ask[2], ask[3], "=") # Error =>
    LET found == Ref(ask[2], ask[3], "=")
        at == [i \in DOMAIN found[2] |-> found[2][i][2]]
        old == List(ask[3])
        new == List(answer[2])
    IN /\ (answer[1] > 0) = (found # Nil)
       /\ ask[5] /\ ~Holding(List(<<ask[4]>>), ask[2]) => ~Holding(new, ask[2])
       /\ ~ask[5] /\ IsList(found) =>
            /\ ElementAt(new, at) = ask[4]
            /\ \A p \in Paths(ask[3]) : (p # First(Len(p), at) /\ at # First(Len(at), p))
                                          => ElementAt(new, p) = ElementAt(old, p)

\* pop takes back what push put at an index vector.  Left out: a place behind a last element that
\* is an empty list or nil, where push puts the value inside that element (nl-liststr.c:548).
PopUndoesPush ==
  Asked("push") /\ answer # Error =>
    LET s == ask[2]
        path == ask[3]
        into == ElementAt(List(s), Front(path))
        target == IF Len(path) = 1 THEN s ELSE into[2]
    IN \/ Len(path) > 1 /\ ~(into # Error /\ IsList(into))
       \/ Last(path) = Len(target) /\ target # <<>> /\ Last(target) \in {List(<<>>), Nil}
       \/ PopAt(answer[2], path) = <<ask[4], s>>

\* assoc, lookup and pop-assoc find at each level the first list that starts with the key.
AssocExact ==
  ask[1] \in {"assoc", "pop-assoc"} =>
    LET IsEntry(s, i, k) == IsList(s[i]) /\ Same(Car(s[i]), k)
        FirstOf(s, n, k) == {i \in n..Len(s) : IsEntry(s, i, k) /\ \A j \in n..(i - 1) : ~IsEntry(s, j, k)}
        one == FirstOf(ask[2], 1, ask[3][1])
        two == UNION {{<<i, j>> : j \in FirstOf(ask[2][i][2], 2, ask[3][2])} : i \in one}
        found == IF Len(ask[3]) = 1 THEN {ask[2][i] : i \in one}
                 ELSE {ask[2][p[1]][2][p[2]] : p \in two}
        entry == IF Asked("assoc") THEN answer ELSE answer[1]
    IN IF found = {} THEN entry = Nil /\ (Asked("pop-assoc") => answer[2] = ask[2])
       ELSE /\ entry \in found
            /\ Asked("pop-assoc") =>
                 Cardinality(Paths(answer[2])) + Cardinality(Paths(entry[2])) + 1
                   = Cardinality(Paths(ask[2]))

\* explode loses no element: every chunk is full but the last, and only the last can be left out.
ChunksRebuild ==
  Asked("explode") /\ ask[3] > 0 =>
    LET n == ask[3]
        whole == ask[2] = FlattenSeq(answer)
    IN /\ \A i \in 1..(Len(answer) - 1) : Len(answer[i]) = n
       /\ answer # <<>> => Len(Last(answer)) \in 1..n
       /\ IF ask[4] /\ Len(ask[2]) % n # 0
            THEN FlattenSeq(answer) = First(n * (Len(ask[2]) \div n), ask[2]) ELSE whole

\* An array is sliced as the list of its elements, and refused where the list would give an empty
\* list or fewer elements than asked for.
SlicesAgree ==
  Asked("subarray") =>
    LET slice == Sublist(ask[2], ask[3], ask[4])
        short == ask[4] # NoLength /\ ask[4] > Len(slice[2])
    IN answer = IF slice = Error \/ slice[2] = <<>> \/ short THEN Error ELSE Arr(slice[2])

\* select takes what each index alone takes.
SelectAgrees ==
  Asked("select") =>
    LET each == [k \in DOMAIN ask[3] |-> ElementAt(List(ask[2]), <<ask[3][k]>>)]
    IN answer = IF Error \in ToSet(each) THEN Error ELSE List(each)

\* rotate moves every element by the count, round the end.  Left out: a count that is a negative
\* multiple of the length, beyond the length itself, which loses all elements but one
\* (nl-liststr.c:41).
RotateAgrees ==
  Asked("rotate") =>
    LET n == Len(ask[2])
    IN \/ n > 1 /\ ask[3] < -n /\ ask[3] % n = 0
       \/ /\ Len(answer) = n
          /\ \A i \in 1..n : answer[((i - 1 + ask[3]) % n) + 1] = ask[2][i]

\* map makes a row for each element of the first list; a row lacks the elements of a list that has
\* ended, and of the lists behind it (p_map).
MapRows ==
  Asked("map") =>
    /\ Len(answer) = Len(ask[2])
    /\ \A i \in DOMAIN answer :
         answer[i] = List(<<ask[2][i]>> \o (IF i > Len(ask[3]) THEN <<>>
                                            ELSE <<ask[3][i]>> \o (IF i > Len(ask[4]) THEN <<>> ELSE <<ask[4][i]>>)))

\* filter, clean, index, exists and for-all say the same of one predicate (filterIndex).
FiltersAgree ==
  Asked("filter") =>
    LET filter == SelectSeq(ask[4], LAMBDA v : CompareCells(v, ask[3]) > 0)
        clean == SelectSeq(ask[4], LAMBDA v : ~(CompareCells(v, ask[3]) > 0))
    IN CASE ask[2] = "filter" -> answer = filter
         [] ask[2] = "clean" -> answer = clean
         [] ask[2] = "index" -> [k \in DOMAIN answer |-> ask[4][answer[k][2] + 1]] = filter
         [] ask[2] = "exists" -> answer = IF filter = <<>> THEN <<Nil>> ELSE <<filter[1]>>
         [] ask[2] = "for-all" -> answer = IF clean = <<>> THEN <<True>> ELSE <<Nil>>

\* replace changes or removes all that fits and counts it; of an empty list its end is taken for
\* a nil (p_replace).
ReplaceAgrees ==
  Asked("replace") =>
    LET Fit(v) == Fits(ask[4], ask[2], v)
    IN \/ ask[3] = <<>> /\ Fit(Nil) /\ answer = <<ask[5], 1>>
       \/ /\ answer[2] = Cardinality({i \in DOMAIN ask[3] : Fit(ask[3][i])})
          /\ IF ask[5] = <<>> THEN answer[1] = SelectSeq(ask[3], LAMBDA v : ~Fit(v))
             ELSE answer[1] = [i \in DOMAIN ask[3] |-> IF Fit(ask[3][i]) THEN ask[5][1] ELSE ask[3][i]]

RECURSIVE OpenedOnce(_, _)
OpenedOnce(s, n) ==
  IF n = 0 THEN s
  ELSE OpenedOnce(FlattenSeq([i \in DOMAIN s |-> IF IsList(s[i]) THEN s[i][2] ELSE <<s[i]>>]), n - 1)

\* flat to a level opens all lists so often; without a level no list is left (flat).
FlatAgrees ==
  Asked("flat") => answer = OpenedOnce(ask[2], IF ask[3] < 0 THEN 4 ELSE ask[3])

\* array fills its cells row by row from the list, and from the start again when the list ends.
ArrayRowMajor ==
  Asked("array") =>
    \A i \in 0..(ask[2] - 1), j \in 0..(ask[3] - 1) :
      CellOfArray(answer, <<i, j>>) = IF ask[4] = <<>> THEN Nil
                                      ELSE ask[4][((i * ask[3] + j) % Len(ask[4])) + 1]

\* An array is indexed as its array-list, and transposing it twice changes nothing.
ArraysLikeLists ==
  Asked("index-array") =>
    LET element == ElementAt(ArrayList(ask[2]), ask[3])
    IN /\ IF answer = Error THEN element = Error
          ELSE IF answer[1] = "array" THEN ArrayList(answer) = element ELSE answer = element
       /\ ArrayTranspose(ArrayTranspose(ask[2])) = ask[2]

MixesNames(s) == \E i, j \in DOMAIN s : s[i][1] = "context" /\ s[j][1] \in {"symbol", "context"} /\ i # j

\* Comparison is an order: it says of the ends of a chain what it says of its links, and of each
\* pair that one is less or both are equal.  Left out: not a number, and contexts, which are
\* compared by address with each other and by name with symbols (compareCells).
OrderTotal ==
  Asked("compare") =>
    LET s == ask[3]
        n == Len(s)
    IN \/ NaN \in ToSet(s) \/ MixesNames(s)
       \/ /\ answer[1] /\ ask[2] # "!=" /\ n > 1 => CompareOp(ask[2], <<s[1], s[n]>>)
          /\ n = 2 => Cardinality({op \in {"<", "=", ">"} : CompareOp(op, s)}) = 1
          /\ n = 2 /\ ask[2] = "<=" => answer[1] = ~CompareOp(">", s)

=============================================================================
