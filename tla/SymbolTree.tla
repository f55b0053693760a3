------------------------------ MODULE SymbolTree ------------------------------
(***************************************************************************)
(* The symbols of contexts: the red-black trees of nl-symbol.c, the rules  *)
(* by which the reader finds or makes the symbol for a name, and delete.   *)
(*                                                                         *)
(* A symbol is <<context, name>>; names are numbers, in the order of       *)
(* strcmp.  All trees share one sentinel, and its parent and colour are    *)
(* written like those of any other node.                                   *)
(***************************************************************************)
EXTENDS Naturals, Sequences, FiniteSets

CONSTANTS Contexts,   \* the contexts, Main among them
          Main,
          NamesOf,    \* function: context -> names used in it
          Cells,      \* cells of the program that may hold a symbol
          Modes,      \* how delete treats references: see Delete
          Protected   \* symbols that are constants or built in

Symbols == UNION {{<<c, n>> : n \in NamesOf[c]} : c \in Contexts}
Nil == <<"NIL", 0>>      \* the sentinel
Null == <<"NULL", 0>>    \* no parent, no tree
Nodes == Symbols \cup {Nil}
No == <<"nil", 0>>       \* answers that are no symbol
Yes == <<"true", 0>>
Less(s, t) == s[2] < t[2]

VARIABLES
  left, right, parent, color,   \* the fields of each node
  aux,        \* context -> the root of its tree
  live,       \* symbols allocated and not freed
  global,     \* names of MAIN flagged SYMBOL_GLOBAL
  cell,       \* cell -> the symbol it holds, or Null
  answer      \* what the last operation returned

vars == <<left, right, parent, color, aux, live, global, cell, answer>>
tree == <<left, right, parent, color, aux, live>>

----------------------------------------
(* The algorithms work on a record t of the fields and the static root. *)

Opposite(side) == IF side = "left" THEN "right" ELSE "left"

\* What pointed from above to x points to y.
Relink(t, x, y) ==
  IF t.parent[x] = Null THEN [t EXCEPT !.root = y]
  ELSE IF t.left[t.parent[x]] = x THEN [t EXCEPT !.left[t.parent[x]] = y]
  ELSE [t EXCEPT !.right[t.parent[x]] = y]

\* rotateLeft is Rotate(t, x, "left"): x goes down to the left, its right child up.
Rotate(t, x, side) ==
  LET up == Opposite(side)
      y == t[up][x]
      inner == t[side][y]
  IN  [Relink(t, x, y) EXCEPT
         ![up][x] = inner,
         ![side][y] = x,
         !.parent = [n \in Nodes |-> IF n = inner /\ n # Nil THEN x
                                     ELSE IF n = y THEN t.parent[x]
                                     ELSE IF n = x THEN y ELSE @[n]]]

Paint(t, n, c) == [t EXCEPT !.color[n] = c]
SideOf(t, x) == IF x = t.left[t.parent[x]] THEN "left" ELSE "right"

\* Mutant: the grandparent keeps its colour when the uncle is red.
RECURSIVE insertFixupKeep(_, _)
insertFixupKeep(t, x) ==
  IF x = t.root \/ t.color[t.parent[x]] = "black" THEN Paint(t, t.root, "black")
  ELSE LET p == t.parent[x]
           g == t.parent[p]
       IN insertFixupKeep(Paint(Paint(t, p, "black"), t[Opposite(SideOf(t, p))][g], "black"), g)

RECURSIVE insertFixup(_, _)
insertFixup(t, x) ==
  IF x = t.root \/ t.color[t.parent[x]] = "black" THEN Paint(t, t.root, "black")
  ELSE LET p == t.parent[x]
           g == t.parent[p]
           side == SideOf(t, p)
           uncle == t[Opposite(side)][g]
           Lift(u, y) == Rotate(Paint(Paint(u, u.parent[y], "black"),
                                      u.parent[u.parent[y]], "red"),
                                u.parent[u.parent[y]], Opposite(side))
       IN  IF t.color[uncle] = "red"
           THEN insertFixup(Paint(Paint(Paint(t, p, "black"), uncle, "black"), g, "red"), g)
           ELSE IF x = t[Opposite(side)][p]
           THEN insertFixup(Lift(Rotate(t, p, side), p), p)
           ELSE insertFixup(Lift(t, x), x)

RECURSIVE deleteFixup(_, _)
deleteFixup(t, x) ==
  IF x = t.root \/ t.color[x] = "red" THEN Paint(t, x, "black")
  ELSE LET side == SideOf(t, x)
           far == Opposite(side)
           p == t.parent[x]
           u == IF t.color[t[far][p]] = "red"
                THEN Rotate(Paint(Paint(t, t[far][p], "black"), p, "red"), p, side)
                ELSE t
           w == u[far][p]
           v == IF u.color[u[far][w]] = "black"
                THEN Rotate(Paint(Paint(u, u[side][w], "black"), w, "red"), w, far)
                ELSE u
           w2 == v[far][p]
       IN  IF u.color[u.left[w]] = "black" /\ u.color[u.right[w]] = "black"
           THEN deleteFixup(Paint(u, w, "red"), p)
           ELSE LET done == Rotate(Paint(Paint(Paint(v, w2, v.color[p]), p, "black"),
                                         v[far][w2], "black"), p, side)
                IN deleteFixup(done, done.root)

\* The search loop: the node with the name, or the sentinel; and the last node on the way.
RECURSIVE Descend(_, _, _, _)
Descend(t, n, at, last) ==
  IF at = Nil \/ at = Null THEN <<Nil, last>>
  ELSE IF at[2] = n THEN <<at, last>>
  ELSE Descend(t, n, IF n < at[2] THEN t.left[at] ELSE t.right[at], at)

Find(t, n) == Descend(t, n, t.root, Null)[1]

\* The second half of findInsertSymbol: a red leaf below the last node of the search.
Insert(t, s) ==
  LET above == Descend(t, s[2], t.root, Null)[2]
      leaf == [t EXCEPT !.parent[s] = above, !.left[s] = Nil, !.right[s] = Nil,
                        !.color[s] = "red"]
  IN  insertFixup(IF above = Null THEN [leaf EXCEPT !.root = s]
                  ELSE IF Less(s, above) THEN [leaf EXCEPT !.left[above] = s]
                  ELSE [leaf EXCEPT !.right[above] = s], s)

\* collectSymbols: the symbols of a context in the order in which symbols lists them.
RECURSIVE collectSymbols(_, _)
collectSymbols(t, n) ==
  IF n \in {Nil, Null} THEN <<>>
  ELSE collectSymbols(t, t.left[n]) \o <<n>> \o collectSymbols(t, t.right[n])

RECURSIVE Leftmost(_, _)
Leftmost(t, n) == IF t.left[n] = Nil THEN n ELSE Leftmost(t, t.left[n])

\* Mutant: the colour tested is that of the node that is freed.
deleteSymbolColor(t, z) ==
  LET y == IF t.left[z] = Nil \/ t.right[z] = Nil THEN z ELSE Leftmost(t, t.right[z])
      x == IF t.left[y] # Nil THEN t.left[y] ELSE t.right[y]
      out == [Relink(t, y, x) EXCEPT !.parent[x] = t.parent[y]]
      swap == IF y = z THEN out
              ELSE [Relink(out, z, y) EXCEPT
                      !.left[y] = out.left[z], !.right[y] = out.right[z],
                      !.parent = [@ EXCEPT ![y] = out.parent[z],
                                           ![out.right[z]] = y, ![out.left[z]] = y],
                      !.color[y] = out.color[z]]
  IN  IF t.color[z] = "black" THEN deleteFixup(swap, x) ELSE swap

\* y leaves its place to its only child x; when y is z's successor it takes z's place.
deleteSymbol(t, z) ==
  LET y == IF t.left[z] = Nil \/ t.right[z] = Nil THEN z ELSE Leftmost(t, t.right[z])
      x == IF t.left[y] # Nil THEN t.left[y] ELSE t.right[y]
      out == [Relink(t, y, x) EXCEPT !.parent[x] = t.parent[y]]
      swap == IF y = z THEN out
              ELSE [Relink(out, z, y) EXCEPT
                      !.left[y] = out.left[z], !.right[y] = out.right[z],
                      !.parent = [@ EXCEPT ![y] = out.parent[z],
                                           ![out.right[z]] = y, ![out.left[z]] = y],
                      !.color[y] = out.color[z]]
  IN  IF t.color[y] = "black" THEN deleteFixup(swap, x) ELSE swap

----------------------------------------
(* Operations *)

Tree(c) == [left |-> left, right |-> right, parent |-> parent, color |-> color, root |-> aux[c]]

\* The fields of a freed symbol are of no interest.
Freed(t, gone) == [t EXCEPT !.left = [n \in Nodes |-> IF n \in gone THEN Nil ELSE @[n]],
                            !.right = [n \in Nodes |-> IF n \in gone THEN Nil ELSE @[n]],
                            !.parent = [n \in Nodes |-> IF n \in gone THEN Null ELSE @[n]],
                            !.color = [n \in Nodes |-> IF n \in gone THEN "black" ELSE @[n]]]

Becomes(c, t) == /\ left' = t.left /\ right' = t.right /\ parent' = t.parent
                 /\ color' = t.color
                 /\ aux' = [aux EXCEPT ![c] = t.root]

Init ==
  /\ left = [n \in Nodes |-> Nil] /\ right = [n \in Nodes |-> Nil]
  /\ parent = [n \in Nodes |-> Null]
  /\ color = [n \in Nodes |-> "black"]
  /\ aux = [c \in Contexts |-> Null]
  /\ live = {} /\ global = {}
  /\ cell = [x \in Cells |-> Null]
  /\ answer = No

\* translateCreateSymbol with forceFlag: find it in this context, or make it there.
Create(c, n) ==
  /\ IF Find(Tree(c), n) # Nil
     THEN UNCHANGED tree
     ELSE Becomes(c, Insert(Tree(c), <<c, n>>)) /\ live' = live \cup {<<c, n>>}
  /\ answer' = <<c, n>>
  /\ UNCHANGED <<global, cell>>

\* Mutant: any symbol of MAIN is inherited.
InheritsAll(c, n) == c # Main /\ Find(Tree(c), n) = Nil /\ Find(Tree(Main), n) # Nil

\* Not in this context, and a global symbol of MAIN: that one is meant.
Inherits(c, n) == /\ c # Main
                  /\ Find(Tree(c), n) = Nil
                  /\ Find(Tree(Main), n) # Nil
                  /\ n \in global

\* translateCreateSymbol without forceFlag, as the reader calls it.
Translate(c, n) ==
  IF Inherits(c, n)
  THEN answer' = <<Main, n>> /\ UNCHANGED <<tree, global, cell>>
  ELSE Create(c, n)

\* lookupSymbol
Lookup(c, n) ==
  /\ answer' = IF Find(Tree(c), n) # Nil THEN Find(Tree(c), n) ELSE No
  /\ UNCHANGED <<tree, global, cell>>

Global(n) ==
  /\ <<Main, n>> \in live
  /\ global' = global \cup {n}
  /\ UNCHANGED <<tree, cell, answer>>

Refer(x, s) ==
  /\ s \in live \cup {Null}
  /\ cell' = [cell EXCEPT ![x] = s]
  /\ UNCHANGED <<tree, global, answer>>

\* Mutant: the cells keep the symbol that is freed.
WithoutReferencesKept(gone) == cell' = cell

\* references() and externalContextReferences(): cells that hold the symbols become nil.
WithoutReferences(gone) == cell' = [x \in Cells |-> IF cell[x] \in gone THEN Null ELSE cell[x]]

Referenced(gone) == \E x \in Cells : cell[x] \in gone

\* deleteAndFreeSymbol
Delete(c, n, mode) ==
  /\ <<c, n>> \in live
  /\ IF <<c, n>> \in Protected \/ (mode = "ifUnused" /\ Referenced({<<c, n>>}))
     THEN answer' = No /\ UNCHANGED <<tree, global, cell>>
     ELSE /\ Becomes(c, Freed(deleteSymbol(Tree(c), <<c, n>>), {<<c, n>>}))
          /\ live' = live \ {<<c, n>>}
          /\ global' = IF c = Main THEN global \ {n} ELSE global
          /\ IF mode = "replace" THEN WithoutReferences({<<c, n>>}) ELSE UNCHANGED cell
          /\ answer' = Yes

\* deleteContextSymbols frees the symbols of the context, protected ones too, in the
\* order of the tree.
RECURSIVE FreeAll(_, _)
FreeAll(t, todo) ==
  IF todo = {} THEN t
  ELSE LET s == CHOOSE s \in todo : \A u \in todo : s = u \/ Less(s, u)
       IN FreeAll(Freed(deleteSymbol(t, s), {s}), todo \ {s})

DeleteContext(c, mode) ==
  \E own \in {{s \in live : s[1] = c}} :
    /\ c # Main
    /\ IF mode = "ifUnused" /\ Referenced(own)
       THEN answer' = No /\ UNCHANGED <<tree, global, cell>>
       ELSE /\ Becomes(c, FreeAll(Tree(c), own))
            /\ live' = live \ own
            /\ IF mode = "replace" THEN WithoutReferences(own) ELSE UNCHANGED cell
            /\ answer' = Yes
            /\ UNCHANGED global

Next ==
  \/ \E c \in Contexts, mode \in Modes : DeleteContext(c, mode)
  \/ \E c \in Contexts : \E n \in NamesOf[c] :
       \/ Create(c, n) \/ Translate(c, n) \/ Lookup(c, n)
       \/ \E mode \in Modes : Delete(c, n, mode)
  \/ \E n \in NamesOf[Main] : Global(n)
  \/ \E x \in Cells, s \in Symbols \cup {Null} : Refer(x, s)

Spec == Init /\ [][Next]_vars

----------------------------------------
(* Properties *)

Children(n) == {left[n], right[n]} \ {Nil}
RECURSIVE BlackHeight(_)
BlackHeight(n) == IF n = Nil THEN 0
                  ELSE BlackHeight(left[n]) + (IF color[n] = "black" THEN 1 ELSE 0)

(* After any sequence of insertions and deletions the tree of a context *)
(* holds exactly its live symbols, in order, and no path from the root is *)
(* more than twice as long as another: no red node has a red child, and *)
(* all paths have the same number of black nodes (findInsertSymbol, *)
(* insertFixup, deleteSymbol, deleteFixup). *)
RedBlack ==
  \A c \in Contexts :
    /\ aux[c] \in live => parent[aux[c]] = Null /\ color[aux[c]] = "black"
    /\ \E listed \in {collectSymbols(Tree(c), aux[c])} :
         /\ {listed[i] : i \in DOMAIN listed} = {s \in live : s[1] = c}
         /\ \A i \in 2..Len(listed) : Less(listed[i - 1], listed[i])
    /\ \A n \in {s \in live : s[1] = c} :
         /\ \A m \in Children(n) : parent[m] = n /\ (color[n] = "red" => color[m] = "black")
         /\ BlackHeight(left[n]) = BlackHeight(right[n])

(* delete leaves no cell with a symbol that is freed (references, *)
(* externalContextReferences). *)
NoDanglingSymbol == \A x \in Cells : cell[x] \in live \cup {Null}

(* The trees implement the table of symbols: every operation does what *)
(* SymbolTable says of it, whatever was inserted and deleted before *)
(* (translateCreateSymbol, lookupSymbol, p_deleteSymbol). *)
Table == INSTANCE SymbolTable
           WITH symbols <- [c \in Contexts |-> {n \in NamesOf[c] : <<c, n>> \in live}]
TableStep ==
  /\ Table!Next \/ UNCHANGED <<live, global, answer>>
  /\ \A c \in Contexts : \A n \in NamesOf[c] :
       /\ Create(c, n) => Table!Create(c, n)
       /\ Translate(c, n) => Table!Translate(c, n)
       /\ Lookup(c, n) => Table!Lookup(c, n)
ImplementsTable == Table!Init /\ [][TableStep]_vars

=============================================================================
