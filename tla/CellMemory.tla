----------------------------- MODULE CellMemory -----------------------------
(***************************************************************************)
(* One reference only: how values are owned in newLISP (newlisp.c and      *)
(* nl-liststr.c).  Functions pass values by pointer.  A value belongs to a *)
(* symbol, to the result stack, to a list, or to the C function that is    *)
(* building it; what is on the result stack is deleted when evaluation     *)
(* returns to a higher level.  Modelled are evaluateExpression's handling  *)
(* of results and functions of each kind: with a new result (list, pop),   *)
(* with a reference as result (set, begin, first, push), and the ones that *)
(* leave functions behind (catch, throw, errors).  Which program runs is   *)
(* left open.                                                              *)
(*                                                                         *)
(* Cells lie in blocks that are taken from and given back to the operating *)
(* system; free cells form a list through their next fields (getCell,      *)
(* copyCell, deleteList, allocBlock, freeCellBlocks of newlisp.c).  A      *)
(* memory is a record: the cells, firstFreeCell, the blocks in use, and    *)
(* whether the process still runs.  The operators on it take a memory and  *)
(* return the memory after the operation, so that an action can do several.*)
(***************************************************************************)
EXTENDS Integers, SequencesExt

CONSTANTS
  MaxBlocks,  \* MAX_CELL_COUNT, in blocks
  BlockSize,  \* MAX_BLOCK
  Builtins,   \* cells of the first block taken at startup and kept
  Syms,       \* the program's variables
  MaxFrames,  \* bound: C functions that wait for a value
  MaxItems,   \* bound: elements of a list under construction
  MaxCalls,   \* bound: function calls in all programs together
  Events      \* a subset of {"error", "throw", "reset", "selfpush"}

ASSUME HeapAssumption ==
  /\ MaxBlocks \in Nat \ {0} /\ BlockSize \in Nat
  /\ Builtins \in 2..BlockSize

ASSUME MemoryAssumption ==
  /\ MaxFrames \in Nat /\ MaxItems \in Nat /\ MaxCalls \in Nat
  /\ Events \subseteq {"error", "throw", "reset", "selfpush"}

-----------------------------------------------------------------------------
(* Cells and the operations on them. *)

Cells == (1..MaxBlocks) \X (1..BlockSize)
NULL == <<0, 0>>
nilCell == <<1, 1>>   \* made first, at startup
trueCell == <<1, 2>>
Permanent == {nilCell, trueCell}

\* "true" and "nil" cells are copied like others; only nilCell ends a list.
\* Cells of blocks that are not allocated are "unmapped".
Types == {"unmapped", "free", "nil", "true", "atom", "list"}
Cell(type, next, aux, contents) ==
  [type |-> type, next |-> next, aux |-> aux, contents |-> contents]
FreeCell(next) == Cell("free", next, nilCell, nilCell)
Unmapped == Cell("unmapped", NULL, nilCell, nilCell)

\* Sequence s of free cells, linked; the last one leads to c.
Linked(heap, s, c) ==
  [x \in Cells |-> IF \E i \in DOMAIN s : s[i] = x
                   THEN LET i == CHOOSE i \in DOMAIN s : s[i] = x IN
                        FreeCell(IF i = Len(s) THEN c ELSE s[i + 1])
                   ELSE heap[x]]
Block(b) == [i \in 1..BlockSize |-> <<b, i>>]

Unused(m) == (1..MaxBlocks) \ Range(m.blocks)

\* Mutant: the last cell of the new block is linked like the others.
AllocBlock_Unterminated(m) ==
  LET b == Min(Unused(m)) IN
  IF Unused(m) = {} THEN [m EXCEPT !.process = "exited"]
  ELSE [m EXCEPT !.blocks = Append(@, b), !.free = <<b, 1>>,
                 !.heap = Linked(@, Block(b), <<b, BlockSize + 1>>)]

\* allocBlock: another block from the operating system, or the process exits.
AllocBlock(m) ==
  LET b == Min(Unused(m)) IN
  IF Unused(m) = {} THEN [m EXCEPT !.process = "exited"]
  ELSE [m EXCEPT !.blocks = Append(@, b), !.free = <<b, 1>>,
                 !.heap = Linked(@, Block(b), NULL)]

Taken(m, type, contents) ==
  IF m.process = "exited" THEN [cell |-> nilCell, mem |-> m]
  ELSE [cell |-> m.free,
        mem  |-> [m EXCEPT !.free = m.heap[m.free].next,
                           !.heap[m.free] = Cell(type, nilCell, nilCell, contents)]]

\* getCell, makeCell: the first free cell, as [cell, mem].
GetCell(m, type, contents) ==
  Taken(IF m.free = NULL THEN AllocBlock(m) ELSE m, type, contents)

\* The cell after x in its list, and the first of x's elements.  Cells that are
\* not in use have neither.
After(heap, x) == IF heap[x].type \in {"unmapped", "free"} THEN nilCell ELSE heap[x].next
Below(heap, x) == IF heap[x].type = "list" THEN heap[x].contents ELSE nilCell

\* The list cell c leads to, in order.
Chain(heap, c) ==
  LET chain[x \in Cells] == IF x = nilCell THEN <<>> ELSE <<x>> \o chain[After(heap, x)]
  IN  chain[c]

\* Mutant: copying ends after a list's first element.
Value_First(heap, c) ==
  LET visit[x \in Cells] == IF x = nilCell THEN <<>> ELSE <<x>> \o visit[Below(heap, x)]
  IN  <<c>> \o visit[Below(heap, c)]

\* The cells of c's value in the order copyCell visits them, c first.
Value(heap, c) ==
  LET visit[x \in Cells] == IF x = nilCell THEN <<>>
                            ELSE <<x>> \o visit[Below(heap, x)] \o visit[After(heap, x)]
  IN  <<c>> \o visit[Below(heap, c)]

\* n cells from getCell, as [cells, mem].
Filled(m, n) ==
  LET more(acc, got) == [mem |-> got.mem, cells |-> Append(acc.cells, got.cell)]
      fill[i \in 0..n] == IF i = 0 THEN [mem |-> m, cells |-> <<>>]
                          ELSE more(fill[i - 1], GetCell(fill[i - 1].mem, "atom", nilCell))
  IN  fill[n]

\* The cells new.cells become a copy of the cells old of c's value.
\* A list's aux becomes its last cell.
Copied(heap, c, old, new) ==
  LET at(x) == IF x \in Range(old) THEN new.cells[CHOOSE i \in DOMAIN old : old[i] = x]
               ELSE nilCell
      filled(x) == heap[x].type = "list" /\ heap[x].contents # nilCell
      image(x) ==
        Cell(heap[x].type, IF x = c THEN nilCell ELSE at(heap[x].next),
             IF filled(x) THEN at(Last(Chain(heap, heap[x].contents)))
             ELSE IF heap[x].type = "list" THEN heap[x].aux ELSE nilCell,
             IF filled(x) THEN at(heap[x].contents) ELSE nilCell)
  IN IF new.mem.process = "exited" THEN [cell |-> nilCell, mem |-> new.mem]
     ELSE [cell |-> at(c),
           mem  |-> [new.mem EXCEPT !.heap = [x \in Cells |->
                       IF x \in Range(new.cells)
                       THEN image(old[CHOOSE i \in DOMAIN old : new.cells[i] = x])
                       ELSE @[x]]]]

\* copyCell: new cells for the whole value, with the same links between them.
Copy(m, c) == Copied(m.heap, c, Value(m.heap, c),
                     Filled(m, Len(Value(m.heap, c))))

\* deleteList: c's value, and what c's next leads to, go to the front of the
\* free list, each list's cells before the list.  nilCell and trueCell stay.
DeleteList(m, c) ==
  LET h == m.heap
      freed[x \in Cells] ==
        IF x = nilCell THEN <<>>
        ELSE freed[Below(h, x)] \o (IF x = trueCell THEN <<>> ELSE <<x>>) \o freed[After(h, x)]
      s == Reverse(freed[c])
  IN IF s = <<>> THEN m ELSE [m EXCEPT !.heap = Linked(h, s, m.free), !.free = Head(s)]

\* The free cells of block b.
FreeOf(heap, b) ==
  LET free[i \in 0..BlockSize] ==
        IF i = 0 THEN <<>>
        ELSE IF heap[<<b, i>>].type = "free" THEN Append(free[i - 1], <<b, i>>) ELSE free[i - 1]
  IN  free[BlockSize]

\* The loop over the blocks: which are kept, and the free cells in them.
Swept(heap, blocks) ==
  LET more(acc, b) == IF Len(FreeOf(heap, b)) = BlockSize THEN acc
                      ELSE [kept |-> Append(acc.kept, b), frees |-> acc.frees \o FreeOf(heap, b)]
      swept[i \in 0..Len(blocks)] == IF i = 0 THEN [kept |-> <<>>, frees |-> <<>>]
                                     ELSE more(swept[i - 1], blocks[i])
  IN  swept[Len(blocks)]

\* There is no free cell, or the first one is in a block to be given back.
NoLastFreeCell(m) ==
  LET withFree == {i \in DOMAIN m.blocks : FreeOf(m.heap, m.blocks[i]) # <<>>} IN
  withFree = {} \/ Len(FreeOf(m.heap, m.blocks[Min(withFree)])) = BlockSize

\* Mutant: the last free cell keeps the link it had.
FreeCellBlocks_KeepsLink(m) ==
  LET s == Swept(m.heap, m.blocks)
  IN IF NoLastFreeCell(m) THEN [m EXCEPT !.process = "crashed"]
     ELSE [m EXCEPT !.blocks = s.kept, !.free = Head(s.frees),
                    !.heap = [x \in Cells |-> IF x[1] \in Range(s.kept)
                       THEN Linked(@, s.frees, @[Last(s.frees)].next)[x] ELSE Unmapped]]

\* freeCellBlocks: the blocks without a cell in use are given back and the
\* free list is built anew from the others.  lastFreeCell may be NULL when its
\* next is set.
FreeCellBlocks(m) ==
  LET s == Swept(m.heap, m.blocks)
  IN IF NoLastFreeCell(m) THEN [m EXCEPT !.process = "crashed"]
     ELSE [m EXCEPT !.blocks = s.kept, !.free = Head(s.frees),
                    !.heap = [x \in Cells |-> IF x[1] \in Range(s.kept)
                                              THEN Linked(@, s.frees, NULL)[x] ELSE Unmapped]]

\* Startup: one block, with the cells of nil, true and other built-in symbols.
Startup ==
  [heap |-> [x \in Cells |->
     IF x = nilCell THEN Cell("nil", nilCell, nilCell, nilCell)
     ELSE IF x = trueCell THEN Cell("true", nilCell, nilCell, nilCell)
     ELSE IF x[1] # 1 THEN Unmapped
     ELSE IF x[2] <= Builtins THEN Cell("atom", nilCell, nilCell, nilCell)
     ELSE FreeCell(IF x[2] = BlockSize THEN NULL ELSE <<1, x[2] + 1>>)],
   free |-> IF BlockSize > Builtins THEN <<1, Builtins + 1>> ELSE NULL,
   blocks |-> <<1>>, process |-> "runs"]

-----------------------------------------------------------------------------
(* The program. *)

VARIABLES
  mem,       \* the cells
  contents,  \* contents[s]: the cell of symbol s
  results,   \* the result stack
  frames,    \* C functions waiting for an evaluation's value, innermost last
  value,     \* the value the last evaluation has returned, or NULL
  lost,      \* history: lists under construction in functions left by longjmp
  calls      \* function calls so far, for MaxCalls

vars == <<mem, contents, results, frames, value, lost, calls>>

Functions == {"list", "set", "begin", "first", "push", "append", "catch", "throw"}
Frame(fn, sym, cell) ==
  [fn |-> fn, sym |-> sym, cell |-> cell, last |-> nilCell, save |-> Len(results)]

TypeOK ==
  /\ mem.heap \in [Cells -> [type : Types, next : Cells \cup {NULL}, aux : Cells, contents : Cells]]
  /\ mem.free \in Cells \cup {NULL}
  /\ mem.blocks \in Seq(1..MaxBlocks) /\ mem.process \in {"runs", "exited", "crashed"}
  /\ contents \in [Syms -> Cells] /\ results \in Seq(Cells)
  /\ frames \in Seq([fn : Functions, sym : Syms \cup {""}, cell : Cells, last : Cells, save : Nat])
  /\ value \in Cells \cup {NULL} /\ lost \subseteq Cells /\ calls \in 0..MaxCalls
  /\ \A x \in Cells : mem.heap[x].type = "unmapped" <=> x[1] \notin Range(mem.blocks)

Init ==
  /\ mem = Startup
  /\ contents = [s \in Syms |-> nilCell]
  /\ results = <<>> /\ frames = <<>> /\ value = NULL /\ lost = {} /\ calls = 0
-----------------------------------------------------------------------------
(***************************************************************************)
(* The result stack.                                                       *)
(***************************************************************************)
\* cleanupResults: delete the results above the first n.
Cleaned(m, rs, n) ==
  LET clean[i \in n..Len(rs)] == IF i = Len(rs) THEN m ELSE DeleteList(clean[i + 1], rs[i + 1])
  IN  clean[n]

OnTop(c) == results # <<>> /\ Last(results) = c /\ c \notin Permanent

\* Mutant: the value taken from the result stack stays on it.
CopyCell_Keeps(m, c) ==
  IF OnTop(c) THEN [cell |-> c, mem |-> m, results |-> results]
  ELSE LET new == Copy(m, c) IN [cell |-> new.cell, mem |-> new.mem, results |-> results]

\* copyCell: a value on top of the result stack is taken, others are copied.
CopyCell(m, c) ==
  IF OnTop(c) THEN [cell |-> c, mem |-> m, results |-> Front(results)]
  ELSE LET new == Copy(m, c) IN [cell |-> new.cell, mem |-> new.mem, results |-> results]

\* evaluateExpression's end, of a function entered with save results on the
\* stack: a new result is pushed, what is above save is deleted.
Push(m, rs, save, c) ==
  /\ mem' = Cleaned(m, rs, save)
  /\ results' = Append(SubSeq(rs, 1, save), c)
  /\ value' = c

\* ... with pushResultFlag FALSE: c belongs to something else.
Refer(m, rs, c) == mem' = m /\ results' = rs /\ value' = c
-----------------------------------------------------------------------------
(***************************************************************************)
(* Evaluations without a function.                                         *)
(***************************************************************************)
Runs == mem.process = "runs"
Top == Last(frames)
Pop == frames' = Front(frames)
Evaluating == Runs /\ value = NULL /\ results # <<>>
Calls == Evaluating /\ calls < MaxCalls /\ calls' = calls + 1
Waiting(fn) == Runs /\ value # NULL /\ frames # <<>> /\ Top.fn = fn

\* A program (a quote cell around what the reader made) is on the stack first.
ReadProgram ==
  LET quote == GetCell(mem, "list", nilCell)
      inner == GetCell(quote.mem, "atom", nilCell) IN
  /\ Runs /\ results = <<>>
  /\ mem' = [inner.mem EXCEPT !.heap[quote.cell].contents = inner.cell]
  /\ results' = <<quote.cell>>
  /\ UNCHANGED <<contents, frames, value, lost, calls>>

ProgramEnds ==
  /\ Runs /\ value # NULL /\ frames = <<>>
  /\ mem' = Cleaned(mem, results, 0) /\ results' = <<>> /\ value' = NULL
  /\ UNCHANGED <<contents, frames, lost, calls>>

EvalConstant ==
  /\ Evaluating /\ value' = mem.heap[results[1]].contents
  /\ UNCHANGED <<mem, contents, results, frames, lost, calls>>

EvalSymbol(s) ==
  /\ Evaluating /\ value' = contents[s]
  /\ UNCHANGED <<mem, contents, results, frames, lost, calls>>

\* A function begins and evaluates its argument.
Enter(fn, s) ==
  /\ Calls /\ Len(frames) < MaxFrames
  /\ frames' = Append(frames, Frame(fn, s, nilCell))
  /\ UNCHANGED <<mem, contents, results, value, lost>>
-----------------------------------------------------------------------------
(***************************************************************************)
(* Functions with a new result.                                            *)
(***************************************************************************)
CallList ==
  /\ Calls /\ Len(frames) < MaxFrames
  /\ \E new \in {GetCell(mem, "list", nilCell)} :
       frames' = Append(frames, Frame("list", "", new.cell)) /\ mem' = new.mem
  /\ UNCHANGED <<contents, results, value, lost>>

\* p_list appends a copy of the value.
ListItem ==
  /\ Waiting("list") /\ Len(Chain(mem.heap, mem.heap[Top.cell].contents)) < MaxItems
  /\ \E new \in {CopyCell(mem, value)} :
       /\ mem' = Cleaned(IF Top.last = nilCell
                         THEN [new.mem EXCEPT !.heap[Top.cell].contents = new.cell]
                         ELSE [new.mem EXCEPT !.heap[Top.last].next = new.cell],
                         new.results, Top.save)
       /\ results' = SubSeq(new.results, 1, Top.save)
       /\ frames' = [frames EXCEPT ![Len(frames)].last = new.cell] /\ value' = NULL
  /\ UNCHANGED <<contents, lost, calls>>

ListEnds ==
  /\ Evaluating /\ frames # <<>> /\ Top.fn = "list"
  /\ Push(mem, results, Top.save, Top.cell) /\ Pop
  /\ UNCHANGED <<contents, lost, calls>>

\* Mutant: popping from the end leaves the list's last cell as it is.
PopLast_KeepsAux(s) ==
  LET list == contents[s]  items == Chain(mem.heap, mem.heap[list].contents)
      x == Last(items) IN
  /\ Calls /\ mem.heap[list].type = "list" /\ items # <<>>
  /\ Push(IF Len(items) = 1 THEN [mem EXCEPT !.heap[list].contents = nilCell]
          ELSE [mem EXCEPT !.heap[items[Len(items) - 1]].next = nilCell],
          results, Len(results), x)
  /\ UNCHANGED <<contents, frames, lost>>

\* (pop s -1) unlinks the last element; the one before becomes the last cell.
PopLast(s) ==
  LET list == contents[s]  items == Chain(mem.heap, mem.heap[list].contents)
      x == Last(items) IN
  /\ Calls /\ mem.heap[list].type = "list" /\ items # <<>>
  /\ Push(IF Len(items) = 1
          THEN [mem EXCEPT !.heap[list] = Cell("list", @.next, nilCell, nilCell)]
          ELSE [mem EXCEPT !.heap[items[Len(items) - 1]].next = nilCell,
                           !.heap[list].aux = items[Len(items) - 1]],
          results, Len(results), x)
  /\ UNCHANGED <<contents, frames, lost>>

\* (pop s) unlinks the first element; of an empty list it returns nilCell.
PopFirst(s) ==
  LET list == contents[s]  x == mem.heap[list].contents  rest == mem.heap[x].next IN
  /\ Calls /\ mem.heap[list].type = "list"
  /\ Push([mem EXCEPT !.heap[list].contents = rest,
                      !.heap[list].aux = IF rest = nilCell THEN nilCell ELSE @,
                      !.heap[x].next = nilCell], results, Len(results), x)
  /\ UNCHANGED <<contents, frames, lost>>
-----------------------------------------------------------------------------
(***************************************************************************)
(* Functions whose result is a reference.                                  *)
(***************************************************************************)
\* setDefine: copy the value, then delete what the symbol had.
Set ==
  /\ Waiting("set")
  /\ \E new \in {CopyCell(mem, value)} :
       /\ Refer(DeleteList(new.mem, contents[Top.sym]), new.results, new.cell)
       /\ contents' = [contents EXCEPT ![Top.sym] = new.cell]
  /\ Pop /\ UNCHANGED <<lost, calls>>

\* p_evalBlock: one expression after the other.  (Bound: results.)
BeginNext ==
  /\ Waiting("begin") /\ value' = NULL /\ Len(results) <= MaxFrames
  /\ UNCHANGED <<mem, contents, results, frames, lost, calls>>

\* ... whose last value it returns.
BeginEnds ==
  /\ Waiting("begin") /\ Refer(mem, results, value) /\ Pop
  /\ UNCHANGED <<contents, lost, calls>>

IsList(c) == mem.heap[c].type = "list"

\* Mutant: results are deleted although the function returns a part of one.
First_Cleans ==
  /\ Waiting("first") /\ IsList(value) /\ mem.heap[value].contents # nilCell
  /\ Refer(Cleaned(mem, results, Top.save), SubSeq(results, 1, Top.save), mem.heap[value].contents)
  /\ Pop /\ UNCHANGED <<contents, lost, calls>>

\* p_first returns the element itself.
First ==
  /\ Waiting("first") /\ IsList(value) /\ mem.heap[value].contents # nilCell
  /\ Refer(mem, results, mem.heap[value].contents) /\ Pop
  /\ UNCHANGED <<contents, lost, calls>>

\* p_push on a symbol that is nil: the symbol's cell is deleted before the
\* value is copied, and the value may be that cell.
PushOnNil ==
  /\ Waiting("push") \/ Waiting("append")
  /\ mem.heap[contents[Top.sym]].type = "nil"
  /\ value \in {contents[Top.sym]} \ Permanent => "selfpush" \in Events
  /\ \E new \in {CopyCell(DeleteList(mem, contents[Top.sym]), value)} :
     \E list \in {GetCell(new.mem, "list", new.cell)} :
       /\ Refer(list.mem, new.results, list.cell)
       /\ contents' = [contents EXCEPT ![Top.sym] = list.cell]
  /\ Pop /\ UNCHANGED <<lost, calls>>

\* (push value s): before the first element.
PushFront ==
  /\ Waiting("push") /\ IsList(contents[Top.sym])
  /\ \E new \in {CopyCell(mem, value)}, list \in {contents[Top.sym]} :
       Refer([new.mem EXCEPT !.heap[new.cell].next = mem.heap[list].contents,
                             !.heap[list].contents = new.cell, !.heap[list].aux = nilCell],
             new.results, list)
  /\ Pop /\ UNCHANGED <<contents, lost, calls>>

\* (push value s -1): after the last cell, found through aux or by walking.
PushEnd ==
  /\ Waiting("append") /\ IsList(contents[Top.sym])
  /\ \E new \in {CopyCell(mem, value)}, list \in {contents[Top.sym]}, h \in {mem.heap[contents[Top.sym]]} :
       Refer(LET m == [new.mem EXCEPT !.heap[list].aux = new.cell] IN
             IF h.aux # nilCell THEN [m EXCEPT !.heap[h.aux].next = new.cell]
             ELSE IF h.contents = nilCell THEN [m EXCEPT !.heap[list].contents = new.cell]
             ELSE [m EXCEPT !.heap[Last(Chain(mem.heap, h.contents))].next = new.cell],
             new.results, list)
  /\ Pop /\ UNCHANGED <<contents, lost, calls>>
-----------------------------------------------------------------------------
(***************************************************************************)
(* catch, throw and errors.                                                *)
(***************************************************************************)
Catches(withSymbol) == {k \in DOMAIN frames : frames[k].fn = "catch" /\
                                              (withSymbol => frames[k].sym # "")}
\* What catch gives its symbol, if it has one, and returns.
Store(f, m, rs, c) ==
  IF f.sym = "" THEN Push(m, rs, f.save, c) /\ UNCHANGED contents
  ELSE /\ Push(DeleteList(m, contents[f.sym]), rs, f.save, trueCell)
       /\ contents' = [contents EXCEPT ![f.sym] = c]

CatchEnds ==
  /\ Waiting("catch")
  /\ \E new \in {CopyCell(mem, value)} : Store(Top, new.mem, new.results, new.cell)
  /\ Pop /\ UNCHANGED <<lost, calls>>

\* longjmp to frame k: what the functions in between were building is lost.
Jump(k) ==
  /\ frames' = SubSeq(frames, 1, k - 1) /\ UNCHANGED calls
  /\ lost' = lost \cup {frames[i].cell : i \in {j \in k + 1 .. Len(frames) : frames[j].fn = "list"}}

\* p_throw: the copied value goes to the innermost catch.
Throw ==
  /\ Waiting("throw")
  /\ \E new \in {CopyCell(mem, value)}, k \in {Max(Catches(FALSE))} :
       Store(frames[k], new.mem, new.results, new.cell) /\ Jump(k)

\* An error in an evaluation, or of first and push about their arguments.
Fails ==
  \/ "error" \in Events /\ Evaluating
  \/ Waiting("first") /\ ~(IsList(value) /\ mem.heap[value].contents # nilCell)
  \/ Runs /\ value # NULL /\ frames # <<>> /\ Top.fn \in {"push", "append"}
     /\ mem.heap[contents[Top.sym]].type \notin {"nil", "list"}

\* A catch with a symbol stores the message and returns nil.
ErrorCaught ==
  /\ Fails /\ Catches(TRUE) # {}
  /\ \E k \in {Max(Catches(TRUE))} :
     \E text \in {GetCell(DeleteList(mem, contents[frames[k].sym]), "atom", nilCell)} :
       /\ Push(text.mem, results, frames[k].save, nilCell)
       /\ contents' = [contents EXCEPT ![frames[k].sym] = text.cell] /\ Jump(k)

\* reset: the result stack is deleted and unused blocks are given back.
ErrorUncaught ==
  /\ Fails /\ Catches(TRUE) = {}
  /\ mem' = FreeCellBlocks(Cleaned(mem, results, 0))
  /\ results' = <<>> /\ value' = NULL /\ Jump(0)
  /\ UNCHANGED contents

\* (reset nil) returns the numbers of blocks before and after.
ResetNil ==
  /\ "reset" \in Events /\ Calls
  /\ \E before \in {GetCell(FreeCellBlocks(mem), "atom", nilCell)} :
     \E list \in {GetCell(before.mem, "list", before.cell)} :
     \E after \in {GetCell(list.mem, "atom", nilCell)} :
       Push([after.mem EXCEPT !.heap[before.cell].next = after.cell],
            results, Len(results), list.cell)
  /\ UNCHANGED <<contents, frames, lost>>
-----------------------------------------------------------------------------
Next ==
  \/ ReadProgram \/ ProgramEnds \/ EvalConstant
  \/ \E s \in Syms : EvalSymbol(s) \/ PopFirst(s) \/ PopLast(s)
  \/ \E s \in Syms, fn \in {"set", "push", "append", "catch"} : Enter(fn, s)
  \/ \E fn \in {"begin", "first", "catch"} : Enter(fn, "")
  \/ "throw" \in Events /\ Catches(FALSE) # {} /\ Enter("throw", "")
  \/ CallList \/ ListItem \/ ListEnds
  \/ Set \/ BeginNext \/ BeginEnds \/ First
  \/ PushOnNil \/ PushFront \/ PushEnd
  \/ CatchEnds \/ Throw \/ ErrorCaught \/ ErrorUncaught \/ ResetNil

Spec == Init /\ [][Next]_vars
-----------------------------------------------------------------------------
(***************************************************************************)
(* Properties.                                                             *)
(***************************************************************************)
Typed(T) == {x \in Cells : mem.heap[x].type \in T}
Used == Typed({"nil", "true", "atom", "list"}) \ Permanent

\* firstFreeCell leads to every free cell, once, and then ends: no cell is
\* handed out twice, or forgotten (getCell, deleteList, freeCellBlocks).
FreeListExact == Runs =>
  LET free == Typed({"free"})
      walk[n \in 0..Cardinality(Cells)] ==
        IF n = 0 THEN mem.free
        ELSE IF walk[n - 1] \in free THEN mem.heap[walk[n - 1]].next ELSE NULL
  IN /\ {walk[n] : n \in 0..Cardinality(free)} = free \cup {NULL}
     /\ walk[Cardinality(free)] = NULL

BuiltinCells == {1} \X (3..Builtins)

References ==
  {<<"symbol", s, contents[s]>> : s \in Syms}
  \cup {<<"result", i, results[i]>> : i \in DOMAIN results}
  \cup {<<"list", k, frames[k].cell>> : k \in {k \in DOMAIN frames : frames[k].fn = "list"}}
  \cup {<<"next", c, mem.heap[c].next>> : c \in Used}
  \cup {<<"contents", c, mem.heap[c].contents>> : c \in {c \in Used : IsList(c)}}
  \cup {<<"startup", c, c>> : c \in BuiltinCells} \cup {<<"lost", c, c>> : c \in lost}

\* doc/MemoryManagement.html: "each newLISP object only requires one reference".
\* Every cell in use has exactly one owner, free cells have none; only what a
\* longjmp has left behind in C variables stays in use without one.  And what an
\* evaluation returns has not been deleted, whoever owns it (pushResultFlag).
OneReference == Runs =>
  LET refs == {r \in References : r[3] \notin Permanent} IN
  /\ {r[3] : r \in refs} = Used /\ Cardinality(refs) = Cardinality(Used)
  /\ value # NULL => value \in Used \cup Permanent

\* list->aux is the last cell of the list, or unknown.
LastCellRight == Runs => \A x \in Used :
  IsList(x) => LET h == mem.heap[x] IN
    h.aux # nilCell => h.contents # nilCell /\ h.aux = Last(Chain(mem.heap, h.contents))

Printed(c) ==
  LET print[x \in Cells] == LET items == IF IsList(x) THEN Chain(mem.heap, mem.heap[x].contents)
                                         ELSE <<>> IN
        <<mem.heap[x].type, [i \in DOMAIN items |-> print[items[i]]]>>
  IN  print[c]

Items(tree) == tree[2]   \* of a printed value; nil has none
ListOf(items) == <<"list", items>>

\* Although values are passed and returned by reference, variables behave as if
\* each held its own copy (setDefine, p_push, p_pop, p_catch, copyCell): what s
\* prints changes only when a function ends that names s, and to what that
\* function is for.
VariablesHoldValues == [][mem'.process = "runs" => \A s \in Syms :
  LET old == Printed(contents[s])  new == Printed(contents[s])'  given == IF value = NULL THEN <<>> ELSE Printed(value)
      Leaves(fn) == \E k \in DOMAIN frames \ DOMAIN frames' : frames[k].fn = fn /\ frames[k].sym = s
  IN \/ new = old
     \/ Leaves("set") /\ new = given
     \/ Leaves("push") /\ new = ListOf(<<given>> \o Items(old))
     \/ Leaves("append") /\ new = ListOf(Append(Items(old), given))
     \/ Leaves("catch") /\ new = IF Fails THEN <<"atom", <<>>>> ELSE given
     \/ frames' = frames /\ Items(old) # <<>>
        /\ \/ new = ListOf(Tail(Items(old))) /\ Printed(Last(results))' = Head(Items(old))
           \/ new = ListOf(Front(Items(old))) /\ Printed(Last(results))' = Last(Items(old))]_vars

\* No operation tells one variable from another.
Symmetry == Permutations(Syms)

\* A cell that a value consists of is not taken for a free one (p_push).
NoFreeCellUsed == Runs => \A s \in Syms : \A i \in DOMAIN Value(mem.heap, contents[s]) :
  mem.heap[Value(mem.heap, contents[s])[i]].type # "free"
=============================================================================
