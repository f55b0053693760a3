--------------------------- MODULE MemoryManager ---------------------------
(***************************************************************************)
(* The binary compiler's tracked heap: runtime/memory_manager.c.  A block  *)
(* is named by the pointer the program holds; malloc and free are the C    *)
(* library's.                                                              *)
(***************************************************************************)
EXTENDS Integers, Sequences, FiniteSets, FiniteSetsExt

CONSTANTS Pointers,    \* what malloc can return
          Sizes,       \* sizes the program asks for
          Types,       \* members of MemoryType
          Configs,     \* members of MemoryConfig
          MaxUsage,    \* bound: bytes in use and bytes never taken off
          NULL

VARIABLES
  manager,      \* g_memory_manager's config, or NULL
  block_list,   \* head of the doubly linked list of MemoryBlocks
  block,        \* block[p]: the record of p, with next and prev, or NULL
  stats,        \* MemoryStats, without the total that only grows; and what was never recorded
  memory,       \* memory[p]: "free", "plain", or "guarded" when p is behind guard bytes
  intact,       \* guarded pointers whose guard bytes are whole
  held          \* pointers the program has got and not freed

mvars == <<manager, block_list, block, stats, memory, intact, held>>

NoUse == [t \in Types |-> 0]
NoStats == [current_usage |-> 0, peak_usage |-> 0,
            active_blocks |-> 0, type_usage |-> NoUse, unrecorded |-> 0]

Init == /\ manager = NULL /\ block_list = NULL /\ stats = NoStats
        /\ block = [p \in Pointers |-> NULL] /\ memory = [p \in Pointers |-> "free"]
        /\ intact = {} /\ held = {}

\* memory_manager_init; when it is initialized already it only warns.
memory_manager_init(config) ==
  /\ manager = NULL
  /\ manager' = config /\ block_list' = NULL /\ stats' = NoStats
  /\ block' = [p \in Pointers |-> NULL]
  /\ UNCHANGED <<memory, intact, held>>

\* free()
Freed(ps) == /\ memory' = [p \in Pointers |-> IF p \in ps THEN "free" ELSE memory[p]]
             /\ intact' = intact \ ps

Listed == {p \in Pointers : block[p] # NULL}

\* memory_manager_cleanup.  It frees block->ptr as it is: with guard bytes that
\* is not the pointer malloc returned, and the C library may end the process.
memory_manager_cleanup ==
  /\ manager # NULL
  /\ Freed(Listed)
  /\ held' = held \ Listed
  /\ manager' = NULL /\ block_list' = NULL /\ stats' = NoStats
  /\ block' = [p \in Pointers |-> NULL]

check_memory_limit(size) ==
  manager.max_memory_limit = 0 \/ stats.current_usage + size <= manager.max_memory_limit

update_stats_on_alloc(s, size, type) ==
  [s EXCEPT !.current_usage = @ + size,
            !.type_usage[type] = @ + size,
            !.peak_usage = IF s.current_usage + size > @ THEN s.current_usage + size ELSE @]

update_stats_on_free(s, size, type) ==
  [s EXCEPT !.current_usage = @ - size, !.type_usage[type] = @ - size]

\* Mutant: the old head keeps its prev.
add_memory_block_forward(p, size, type) ==
  /\ block' = [block EXCEPT ![p] = [size |-> size, type |-> type, next |-> block_list, prev |-> NULL]]
  /\ block_list' = p

\* The new block becomes the head.
add_memory_block(p, size, type) ==
  /\ block' = [q \in Pointers |->
       IF q = p THEN [size |-> size, type |-> type, next |-> block_list, prev |-> NULL]
       ELSE IF q = block_list THEN [block[q] EXCEPT !.prev = p]
       ELSE block[q]]
  /\ block_list' = p

remove_memory_block(p) ==
  LET b == block[p] IN
  /\ block' = [q \in Pointers |->
       IF q = p THEN NULL
       ELSE IF q = b.prev THEN [block[q] EXCEPT !.next = b.next]
       ELSE IF q = b.next THEN [block[q] EXCEPT !.prev = b.prev]
       ELSE block[q]]
  /\ block_list' = IF b.prev = NULL THEN b.next ELSE block_list

\* memory_alloc_debug.  p is what malloc returns, NULL when there is none;
\* recorded is whether malloc had room for the MemoryBlock.
memory_alloc_debug(size, type, p, recorded) ==
  /\ p # NULL => memory[p] = "free"
  /\ stats.current_usage + size <= MaxUsage
  /\ IF manager = NULL
     THEN /\ p # NULL
          /\ memory' = [memory EXCEPT ![p] = "plain"] /\ held' = held \cup {p}
          /\ UNCHANGED <<intact, block, block_list, stats>>
     ELSE IF size = 0 \/ ~check_memory_limit(size) \/ p = NULL
     THEN UNCHANGED <<memory, held, intact, block, block_list, stats>>
     ELSE LET guard == manager.enable_bounds_checking
              listed == manager.enable_tracking /\ recorded
              s == update_stats_on_alloc(stats, size, type) IN
          /\ memory' = [memory EXCEPT ![p] = IF guard THEN "guarded" ELSE "plain"]
          /\ intact' = IF guard THEN intact \cup {p} ELSE intact
          /\ held' = held \cup {p}
          /\ IF listed
             THEN /\ add_memory_block(p, size, type)
                  /\ stats' = [s EXCEPT !.active_blocks = @ + 1]
             ELSE /\ stats' = [s EXCEPT !.unrecorded = @ + size]
                  /\ UNCHANGED <<block, block_list>>
  /\ UNCHANGED manager

\* memory_free_debug: a pointer that is not in the list goes to free() as it
\* is, behind its guard bytes or not, and leaves the statistics alone.
memory_free_debug(p) ==
  /\ p \in held
  /\ held' = held \ {p}
  /\ Freed({p})
  /\ IF manager = NULL \/ block[p] = NULL
     THEN UNCHANGED <<block, block_list, stats>>
     ELSE /\ remove_memory_block(p)
          /\ stats' = [update_stats_on_free(stats, block[p].size, block[p].type)
                         EXCEPT !.active_blocks = @ - 1]
  /\ UNCHANGED manager

memory_check_leaks == Cardinality(Listed)

\* memory_validate_block
memory_validate_block(p) ==
  /\ manager # NULL /\ block[p] # NULL
  /\ manager.enable_bounds_checking => p \in intact

\* The program writes one byte too many.
Overrun(p) ==
  /\ p \in held \cap intact
  /\ intact' = intact \ {p}
  /\ UNCHANGED <<manager, block_list, block, stats, memory, held>>

Next ==
  \/ \E c \in Configs : memory_manager_init(c)
  \/ memory_manager_cleanup
  \/ \E s \in Sizes, t \in Types, p \in Pointers \cup {NULL}, r \in BOOLEAN : memory_alloc_debug(s, t, p, r)
  \/ \E p \in Pointers : memory_free_debug(p)
  \/ \E p \in Pointers : Overrun(p)
----------------------------------------
\* The list read from its head, as find_memory_block and the leak report do.
Walk == LET w[n \in 0..Cardinality(Pointers)] ==
              IF n = 0 THEN <<block_list>>
              ELSE LET s == w[n - 1] IN
                   IF s[Len(s)] = NULL \/ block[s[Len(s)]] = NULL THEN s
                   ELSE Append(s, block[s[Len(s)]].next)
        IN w[Cardinality(Pointers)]

\* Through allocations and frees in any order, the doubly linked list runs
\* from its head through every recorded block once, forwards and backwards, and
\* active_blocks counts it: no block is lost to the leak report and none is
\* left that has been freed.
ListLinked ==
  LET s == SubSeq(Walk, 1, Len(Walk) - 1) IN
  /\ Walk[Len(Walk)] = NULL
  /\ {s[i] : i \in DOMAIN s} = Listed /\ Len(s) = Cardinality(Listed)
  /\ \A i \in DOMAIN s : block[s[i]].prev = IF i = 1 THEN NULL ELSE s[i - 1]
  /\ Listed \subseteq held
  /\ stats.active_blocks = Len(s)

\* The statistics are what the listed blocks add up to, and what was allocated
\* without a record, which no free takes off again; the limit holds for it all.
UsageExact ==
  LET Sum(ps) == FoldSet(LAMBDA p, n : n + block[p].size, 0, ps) IN
  /\ stats.current_usage = Sum(Listed) + stats.unrecorded
  /\ FoldSet(LAMBDA t, n : n + stats.type_usage[t], 0, Types) = stats.current_usage
  /\ \A t \in Types : stats.type_usage[t] >= Sum({p \in Listed : block[p].type = t})
  /\ stats.peak_usage >= stats.current_usage
  /\ manager # NULL /\ manager.max_memory_limit # 0 => stats.current_usage <= manager.max_memory_limit
=============================================================================
