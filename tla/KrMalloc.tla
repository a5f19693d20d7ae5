------------------------------ MODULE KrMalloc ------------------------------
(***************************************************************************)
(* labs/4-malloc+gc/1-malloc/kr-malloc.c: the allocator of Kernighan and   *)
(* Ritchie, as functions from one state of its memory to the next.         *)
(*                                                                         *)
(* Memory is an array of units of sizeof(Header).  A unit has two words:   *)
(* as a header they are s.ptr and s.size; as data the first one may hold a *)
(* pointer.  Addresses count units; unit 0 is the static header base, which*)
(* lies below the heap, and 0 is also NULL.                                *)
(***************************************************************************)
EXTENDS Integers, Sequences, FiniteSetsExt

CONSTANTS
  NUnits,   \* units of the heap: what kmalloc can still give
  NALLOC    \* minimum number of units asked of sbrk

ASSUME KrAssumption == NUnits \in Nat \ {0} /\ NALLOC \in Nat \ {0}

base      == 0
Addresses == 0 .. NUnits

\* Before the first call: kr_malloc makes base a list of its own.
NoHeap == [ptr   |-> [a \in Addresses |-> 0],
           size  |-> [a \in Addresses |-> 0],
           freep |-> base,
           brk   |-> 1]

\* p, p->s.ptr, p->s.ptr->s.ptr, ... from freep on.
Ring(m) == LET p[k \in 0 .. NUnits] == IF k = 0 THEN m.freep ELSE m.ptr[p[k-1]]
           IN  p

\* The test of kr_free's loop: bp belongs between p and its successor.
Belongs(m, p, bp) ==
  \/ bp > p /\ bp < m.ptr[p]
  \/ p >= m.ptr[p] /\ (bp > p \/ bp < m.ptr[p])

\* Mutant: the upper neighbour's successor is not taken over.
kr_freeKeepsUpper(m, bp) ==
  LET ring  == Ring(m)
      p     == ring[Min({k \in 0 .. NUnits : Belongs(m, ring[k], bp)})]
      upper == m.ptr[p]
      joinU == bp + m.size[bp] = upper
      size  == IF joinU THEN m.size[bp] + m.size[upper] ELSE m.size[bp]
      joinL == p + m.size[p] = bp
  IN  [m EXCEPT !.ptr[bp]  = upper, !.ptr[p]   = IF joinL THEN upper ELSE bp,
                !.size[bp] = size,  !.size[p]  = IF joinL THEN @ + size ELSE @,
                !.freep    = p]

\* Put the block bp on the list, joined to its free neighbours.
kr_free(m, bp) ==
  LET ring  == Ring(m)
      p     == ring[Min({k \in 0 .. NUnits : Belongs(m, ring[k], bp)})]
      upper == m.ptr[p]
      joinU == bp + m.size[bp] = upper
      next  == IF joinU THEN m.ptr[upper] ELSE upper
      size  == IF joinU THEN m.size[bp] + m.size[upper] ELSE m.size[bp]
      joinL == p + m.size[p] = bp
  IN  [m EXCEPT !.ptr[bp]  = next, !.ptr[p]   = IF joinL THEN next ELSE bp,
                !.size[bp] = size, !.size[p]  = IF joinL THEN @ + size ELSE @,
                !.freep    = p]

\* What morecore asks of sbrk, and the list with the new block on it.
Asked(nu)       == IF nu < NALLOC THEN NALLOC ELSE nu
HasMore(m, nu)  == m.brk + Asked(nu) <= NUnits + 1
morecore(m, nu) ==
  kr_free([m EXCEPT !.size[m.brk] = Asked(nu), !.brk = @ + Asked(nu)], m.brk)

Fits(m, nu) == LET ring == Ring(m) IN {k \in 1 .. NUnits : m.size[ring[k]] >= nu}

\* The first block after freep that is large enough: all of it, or its tail.
Take(m, nu) ==
  LET ring  == Ring(m)
      k     == Min(Fits(m, nu))
      p     == ring[k]
      prevp == ring[k-1]
      tail  == p + m.size[p] - nu
  IN  IF m.size[p] = nu
      THEN [mem   |-> [m EXCEPT !.ptr[prevp] = m.ptr[p], !.freep = prevp],
            block |-> p]
      ELSE [mem   |-> [m EXCEPT !.size[p] = @ - nu, !.size[tail] = nu,
                                !.freep = prevp],
            block |-> tail]

\* kr_malloc of nu units, when there is room for them: see CanMalloc.
CanMalloc(m, nu) == Fits(m, nu) # {} \/ HasMore(m, nu)
kr_malloc(m, nu) == Take(IF Fits(m, nu) # {} THEN m ELSE morecore(m, nu), nu)
=============================================================================
