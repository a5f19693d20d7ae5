-------------------------------- MODULE CkGc --------------------------------
(***************************************************************************)
(* labs/4-malloc+gc/2-code-leak+gc: ckalloc.c, which keeps a list of the   *)
(* allocated blocks, and the mark and sweep collector ck-gc.c on top of it,*)
(* running over the memory of KrMalloc.  With Quarantine it is the version *)
(* of labs/5-debug-alloc/code, whose ckfree keeps freed blocks on a list   *)
(* of its own; its red zones are not modelled.                             *)
(*                                                                         *)
(* A block is a unit for the Header of kr_malloc, one for the hdr_t (its   *)
(* words are next and nbytes_alloc), and its data.  Registers, stack and   *)
(* global data are the roots.  The program is sequential: it waits while   *)
(* the collector runs, whose loops are taken one word or block at a time.  *)
(***************************************************************************)
EXTENDS KrMalloc

CONSTANTS
  NRoots,      \* words of stack and global data that may hold pointers
  Sizes,       \* sizes the program asks for, in units
  MaxTotal,    \* bound: data the program has allocated at one time, in units
  Quarantine   \* ckfree as in labs/5-debug-alloc

ASSUME GcAssumption ==
  NRoots \in Nat \ {0} /\ Sizes \subseteq Nat \ {0} /\ MaxTotal \in Nat /\ Quarantine \in BOOLEAN

VARIABLES
  mem,          \* memory and free list of KrMalloc
  alloc_list,   \* first hdr_t, or 0
  free_list,    \* first quarantined hdr_t, or 0
  total,        \* total_bytes_allocated
  roots,
  pc,           \* run, mark, sweep, swept, reported, or the panic that stopped it
  frames,       \* the ranges mark is in, innermost first
  marked,       \* blocks whose mark is set
  starts,       \* blocks whose refs_start is not 0
  leaks,        \* what sweep_leak reported last
  cursor        \* the block sweep_free looks at

collector == <<frames, marked, starts, leaks, cursor>>
lists     == <<alloc_list, free_list, total>>
vars      == <<mem, lists, roots, pc, collector>>

Roots   == 1 .. NRoots
NoLeaks == [definite |-> {}, maybe |-> {}]

-----------------------------------------------------------------------------
(* The list of allocated blocks; a block is named by its hdr_t. *)

MaxBlocks == NUnits \div 3
Listed(m, first) == LET h[k \in 0 .. MaxBlocks + 1] ==
                          IF k = 0 THEN first
                          ELSE IF h[k-1] = 0 THEN 0 ELSE m.ptr[h[k-1]]
                    IN  h
Blocks(m, first) == LET h == Listed(m, first)
                    IN  {h[k] : k \in 0 .. MaxBlocks} \ {0}
Allocated == Blocks(mem, alloc_list)

ck_data_start(h) == h + 1
Data(m, h)       == h + 1 .. h + m.size[h]

\* ck_ptr_is_alloced, as a set of at most one block.
BlockOf(w) == {h \in Allocated : w \in Data(mem, h)}

\* The blocks before h in the list that starts at first.
Before(m, first, h) == {b \in Blocks(m, first) : m.ptr[b] = h}

\* Where ckalloc's loop stops: it counts bytes until it has seen them all.
Seen == LET h == Listed(mem, alloc_list)
            seen[k \in 0 .. MaxBlocks + 1] ==
              IF k = 0 THEN 0 ELSE seen[k-1] + mem.size[h[k-1]]
        IN  seen
Last == Listed(mem, alloc_list)[Min({k \in 1 .. MaxBlocks : Seen[k] >= total}) - 1]

Unlinked(m, h) ==
  IF alloc_list = h THEN m
  ELSE [m EXCEPT !.ptr[CHOOSE b \in Before(m, alloc_list, h) : TRUE] = m.ptr[h]]

\* Memory in which units that are not read again are 0: all but the headers
\* of free blocks, the two headers of blocks in use and the data of live
\* ones.  There, too, a pointer to no live block is as good as 0.
Tidy(m, live, quarantined) ==
  LET ring   == Ring(m)
      free   == {ring[k] : k \in 0 .. NUnits} \cup {base}
      hdrs   == live \cup quarantined
      heads  == free \cup {h - 1 : h \in hdrs}
      inside == UNION {Data(m, h) : h \in live}
  IN  [m EXCEPT
        !.ptr  = [a \in Addresses |->
                    IF a \in free \cup hdrs THEN m.ptr[a]
                    ELSE IF a \in inside /\ m.ptr[a] \in inside THEN m.ptr[a] ELSE 0],
        !.size = [a \in Addresses |-> IF a \in heads \cup hdrs THEN m.size[a] ELSE 0]]

-----------------------------------------------------------------------------
Init ==
  /\ mem = NoHeap
  /\ alloc_list = 0 /\ free_list = 0 /\ total = 0
  /\ roots = [r \in Roots |-> 0]
  /\ pc = "run"
  /\ frames = << >> /\ marked = {} /\ starts = {} /\ leaks = NoLeaks /\ cursor = 0

\* ckalloc: a cleared hdr_t in front of the data, at the end of the list.
\* The data keeps what it held before: w stands for a pointer left there.
ckalloc(r, n, w) ==
  /\ pc = "run" /\ total + n <= MaxTotal
  /\ LET nu     == n + 2
         got    == kr_malloc(mem, nu)
         h      == got.block + 1
         fresh  == [got.mem EXCEPT !.ptr[h] = 0, !.size[h] = n,
                                   !.ptr[h + 1] = w, !.ptr[h + n] = w]
         linked == IF total = 0 THEN fresh ELSE [fresh EXCEPT !.ptr[Last] = h]
     IN IF ~CanMalloc(mem, nu)
        THEN pc' = "out of memory" /\ UNCHANGED <<mem, lists, roots>>
        ELSE /\ alloc_list' = IF total = 0 THEN h ELSE alloc_list
             /\ mem' = Tidy(linked, Allocated \cup {h}, Blocks(mem, free_list))
             /\ total' = total + n
             /\ roots' = [roots EXCEPT ![r] = ck_data_start(h)]
             /\ UNCHANGED <<free_list, pc>>
  /\ UNCHANGED collector

\* Mutant: the freed hdr_t no longer leads to the next one.
FreedEnds(h) == [kr_free(Unlinked(mem, h), h - 1) EXCEPT !.ptr[h] = 0]

\* Memory as ckfree of the block h leaves it: off the list and back to
\* kr_free; or at the end of the list of freed blocks.
Freed(h) ==
  LET m    == Unlinked(mem, h)
      last == {b \in Blocks(mem, free_list) : mem.ptr[b] = 0}
  IN  IF ~Quarantine THEN kr_free(m, h - 1)
      ELSE [m EXCEPT !.ptr = [b \in Addresses |->
              CASE b = h -> 0 [] b \in last -> h [] OTHER -> m.ptr[b]]]

\* ckfree: as above, and the bytes are no longer counted.
ckfree(h) ==
  /\ alloc_list' = IF alloc_list = h THEN mem.ptr[h] ELSE alloc_list
  /\ free_list' = IF Quarantine /\ free_list = 0 THEN h ELSE free_list
  /\ total' = total - mem.size[h]
  /\ mem' = Tidy(Freed(h), Allocated \ {h}, Blocks(Freed(h), free_list'))

-----------------------------------------------------------------------------
(* The program. *)

\* Pointers to the freed block are forgotten: they matter only once its
\* units are allocated again, and are then like copies of the new pointer.
Free(r) ==
  /\ pc = "run"
  /\ \E h \in BlockOf(roots[r]) :
       /\ roots[r] = ck_data_start(h)
       /\ ckfree(h)
       /\ roots' = [s \in Roots |->
                     IF roots[s] \in Data(mem, h) THEN 0 ELSE roots[s]]
  /\ UNCHANGED <<pc, collector>>

\* Pointers move between roots and the data of allocated blocks.
Assign(r, w) ==
  /\ pc = "run"
  /\ roots' = [roots EXCEPT ![r] = w]
  /\ UNCHANGED <<mem, lists, pc, collector>>
Store(r, s) ==
  /\ pc = "run"
  /\ BlockOf(roots[r]) # {}
  /\ mem' = [mem EXCEPT !.ptr[roots[r]] = roots[s]]
  /\ UNCHANGED <<lists, roots, pc, collector>>
Load(r, s) == BlockOf(roots[s]) # {} /\ Assign(r, mem.ptr[roots[s]])
Step(r)    == BlockOf(roots[r]) # {} /\ BlockOf(roots[r] + 1) = BlockOf(roots[r])
              /\ Assign(r, roots[r] + 1)
Copy(r, s) == roots[s] # 0 /\ Assign(r, roots[s])
Drop(r)    == roots[r] # 0 /\ Assign(r, 0)

-----------------------------------------------------------------------------
(* The collector. *)

\* ck_gc or ck_find_leaks: mark_all, for which the roots are the range of
\* addresses -NRoots .. -1.
mark_all ==
  /\ pc = "run"
  /\ pc' = "mark"
  /\ marked' = {} /\ starts' = {}
  /\ frames' = <<<<-NRoots, -1>>>>
  /\ UNCHANGED <<mem, lists, roots, leaks, cursor>>

Word(a) == IF a < 0 THEN roots[-a] ELSE mem.ptr[a]

\* Mutant: a pointer to a block's start counts only when it marks the block.
StartRefFirst(w) == {h \in BlockOf(w) \ marked : w = ck_data_start(h)}

\* The block whose refs_start w counts for.
StartRef(w) == {h \in BlockOf(w) : w = ck_data_start(h)}

\* Mutant: blocks found from other blocks are not scanned.
MarkRootsOnly ==
  /\ pc = "mark" /\ frames # << >>
  /\ LET p     == Head(frames)[1]
         e     == Head(frames)[2]
         rest  == (IF p = e THEN << >> ELSE <<<<p + 1, e>>>>) \o Tail(frames)
         new   == BlockOf(Word(p)) \ marked
     IN /\ marked' = marked \cup new
        /\ starts' = starts \cup StartRef(Word(p))
        /\ frames' = IF p > 0 THEN rest
                     ELSE [k \in 1 .. Cardinality(new) |->
                             LET h == CHOOSE h \in new : TRUE
                             IN  <<ck_data_start(h), h + mem.size[h]>>] \o rest
  /\ UNCHANGED <<mem, lists, roots, pc, leaks, cursor>>

\* One word of mark's loop; a block met for the first time is scanned next.
Mark ==
  /\ pc = "mark" /\ frames # << >>
  /\ LET p     == Head(frames)[1]
         e     == Head(frames)[2]
         rest  == (IF p = e THEN << >> ELSE <<<<p + 1, e>>>>) \o Tail(frames)
         new   == BlockOf(Word(p)) \ marked
     IN /\ marked' = marked \cup new
        /\ starts' = starts \cup StartRef(Word(p))
        /\ frames' = [k \in 1 .. Cardinality(new) |->
                        LET h == CHOOSE h \in new : TRUE
                        IN  <<ck_data_start(h), h + mem.size[h]>>] \o rest
  /\ UNCHANGED <<mem, lists, roots, pc, leaks, cursor>>

MarkEnds ==
  /\ pc = "mark" /\ frames = << >>
  /\ pc' = "sweep"
  /\ cursor' = alloc_list
  /\ UNCHANGED <<mem, lists, roots, frames, marked, starts, leaks>>

\* sweep_leak, with warn_no_start_ref_p set: without it, the second of the two
\* is not reported.  Which of its callers called mark_all is settled here.
sweep_leak ==
  /\ pc = "mark" /\ frames = << >>
  /\ pc' = "reported"
  /\ leaks' = [definite |-> Allocated \ marked, maybe |-> (Allocated \cap marked) \ starts]
  /\ UNCHANGED <<mem, lists, roots, frames, marked, starts, cursor>>

\* One turn of sweep_free's loop: next is read after the block was freed.
Sweep ==
  /\ pc = "sweep" /\ cursor # 0
  /\ IF cursor \in marked THEN UNCHANGED <<mem, lists>> ELSE ckfree(cursor)
  /\ cursor' = IF cursor \in marked THEN mem.ptr[cursor] ELSE Freed(cursor).ptr[cursor]
  /\ UNCHANGED <<roots, pc, frames, marked, starts, leaks>>

SweepEnds ==
  /\ pc = "sweep" /\ cursor = 0
  /\ pc' = "swept"
  /\ UNCHANGED <<mem, lists, roots, collector>>

\* ck_gc or ck_find_leaks returns; marks and counts are cleared by the next
\* mark_all only, which nothing looks at before.
Return ==
  /\ pc \in {"swept", "reported"}
  /\ pc' = "run"
  /\ marked' = {} /\ starts' = {} /\ leaks' = NoLeaks
  /\ UNCHANGED <<mem, lists, roots, frames, cursor>>

Leftovers == {0} \cup {ck_data_start(h) : h \in {alloc_list} \ {0}}

Next ==
  \/ \E r \in Roots : \/ \E n \in Sizes, w \in Leftovers : ckalloc(r, n, w)
                      \/ Free(r) \/ Step(r) \/ Drop(r)
                      \/ \E s \in Roots : Store(r, s) \/ Load(r, s) \/ Copy(r, s)
  \/ mark_all \/ Mark \/ MarkEnds \/ Sweep \/ SweepEnds \/ sweep_leak \/ Return

Spec == Init /\ [][Next]_vars

-----------------------------------------------------------------------------
(* Properties. *)

Span(bp)   == bp .. bp + mem.size[bp] - 1
FreeBlocks == LET ring == Ring(mem) IN {ring[k] : k \in 0 .. NUnits} \ {base}
UsedBlocks == {h - 1 : h \in Allocated \cup Blocks(mem, free_list)}

\* Every unit obtained from sbrk lies in exactly one block, free or not:
\* nothing is handed out twice, overlaps, or is lost.
Tiles ==
  /\ \A u \in 1 .. mem.brk - 1 :
       Cardinality({bp \in FreeBlocks \cup UsedBlocks : u \in Span(bp)}) = 1
  /\ FreeBlocks \cap UsedBlocks = {}

\* The free list is one ring in the order of addresses, and no two free
\* blocks touch: kr_free always finds where a block belongs.
FreeListInOrder ==
  /\ base \in {Ring(mem)[k] : k \in 0 .. NUnits}
  /\ \A bp \in FreeBlocks \cup {base} :
       LET next == mem.ptr[bp]
       IN  /\ next = base \/ next > bp + mem.size[bp]
           /\ next = base => \A other \in FreeBlocks : other <= bp

\* The list of allocated blocks has an end, every block on it has room for
\* its data, and the byte count that ckalloc takes for its length is right.
AllocListCounts ==
  /\ Listed(mem, alloc_list)[MaxBlocks + 1] = 0
  /\ \A h \in Allocated : mem.size[h] + 2 <= mem.size[h - 1]
  /\ total = Seen[MaxBlocks + 1]

\* Both allocators' books are right at every moment, between two blocks of a
\* sweep too: every unit is in one block, kr_free finds the place of any block,
\* and ckalloc finds the end of its list by counting bytes.
HeapAccounted == Tiles /\ FreeListInOrder /\ AllocListCounts

\* Blocks that a chain of pointers, to the start or the middle, leads to.
Reachable ==
  LET into(words) == {h \in Allocated : words \cap Data(mem, h) # {}}
      found[k \in 0 .. MaxBlocks] ==
        IF k = 0 THEN into({roots[r] : r \in Roots})
        ELSE found[k-1] \cup into(UNION {{mem.ptr[a] : a \in Data(mem, h)} :
                                           h \in found[k-1]})
  IN  found[MaxBlocks]

\* The collector never frees a block the program can still reach.
GcSafe == [][pc = "sweep" => Reachable \subseteq Allocated']_vars

\* "it should always be the case that after calling ck_gc(), immediately
\* calling ck_find_leaks() should return 0 bytes found" (ckalloc.h).
GcComplete == pc = "swept" => Allocated \subseteq Reachable

\* What ck_find_leaks reports: as lost, just the blocks no chain of pointers
\* leads to; as perhaps lost, just those to whose start none of the words the
\* program can reach points, in whatever order mark came by the words.
LeaksExact ==
  LET words == {roots[r] : r \in Roots} \cup {mem.ptr[a] : a \in UNION {Data(mem, h) : h \in Reachable}}
  IN  pc = "reported" =>
        /\ leaks.definite = Allocated \ Reachable
        /\ leaks.maybe = {h \in Reachable : ck_data_start(h) \notin words}
=============================================================================
