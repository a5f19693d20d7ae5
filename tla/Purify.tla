------------------------------- MODULE Purify -------------------------------
(***************************************************************************)
(* labs/13-memcheck/code: the checking allocator ckalloc.c with red zones  *)
(* and quarantine, the memory tracer memtrace.c that traps every access to *)
(* the heap, and the checker checker-purify.c on top of both.  A program   *)
(* runs either traced, allocating through purify.h, or untraced, with the  *)
(* allocator alone (labs/5-debug-alloc has the same one): then stray       *)
(* stores land, and ckfree and ck_heap_errors have to find them.           *)
(*                                                                         *)
(* Memory is a range of bytes, of which it matters whether they hold       *)
(* REDZONE_VAL.  kmalloc hands it out in order and never takes it back.    *)
(* A block is an hdr_t, whose last bytes are rz1 and padding, its data,    *)
(* and the second red zone.  The hdr_t's other fields are in blocks.       *)
(*                                                                         *)
(* An access of several words is taken to fault at its first byte, on the  *)
(* domain as on the watchpoint.                                            *)
(***************************************************************************)
EXTENDS Integers, Sequences, FiniteSets, SequencesExt, FiniteSetsExt

CONSTANTS
  Word,       \* bytes of a word
  Widest,     \* bytes of the widest access: a store multiple of 16 registers
  Header,     \* bytes of hdr_t before rz1
  RedZone,    \* REDZONE_NBYTES
  Padding,    \* bytes of hdr_t after rz1: 2 in the code
  HeapBytes,  \* bound: memory kmalloc may hand out
  MaxBytes,   \* largest size the program asks for
  MaxWild     \* bound: stray bytes an untraced program has written at a time

sizeof_hdr == Header + RedZone + Padding

ASSUME LayoutAssumption ==
  /\ {Word, Widest, Header, RedZone, HeapBytes, MaxBytes} \subseteq Nat \ {0}
  /\ {Padding, MaxWild} \subseteq Nat
  /\ sizeof_hdr % Word = 0 /\ Widest - 1 <= RedZone

VARIABLES
  mem,         \* the bytes that hold REDZONE_VAL
  brk,         \* the next byte of kmalloc
  blocks,      \* hdr_t of each block by block_id: [start, nbytes_alloc, state]
  alloc_list,  \* the allocated blocks as the list links them
  free_list,
  total_bytes_allocated,
  total_bytes_freed,
  tracing,     \* does the program run under purify_init?
  trap,        \* is access to the heap's domain off?
  watch_addr,  \* the watchpoint, or NoAddr
  instr,       \* the program's load or store
  pc,          \* run, access, watchpoint, or how the program ended
  wild,        \* history: bytes the program changed outside live data
  legal        \* history: has the program done nothing wrong?

lists == <<blocks, alloc_list, free_list, total_bytes_allocated, total_bytes_freed, brk>>
tracer == <<trap, watch_addr>>
vars  == <<mem, lists, tracing, tracer, instr, pc, wild, legal>>

Arena   == 0 .. HeapBytes - 1
NoAddr  == -1
NoBlock == 0
NoInstr == [op |-> "none"]

\* Bytes and parts of words, words, and the multiples of strd, stm and ldm.
Sizes  == {n \in 1 .. Widest : Word % n = 0 \/ n % Word = 0}
Stores == [op : {"store"}, addr : Arena, nbytes : Sizes, redzoneVal : BOOLEAN]
Loads  == [op : {"load"}, addr : Arena, nbytes : Sizes]

-----------------------------------------------------------------------------
(* Blocks: ckalloc.h. *)

ck_data_start(b) == blocks[b].start + sizeof_hdr
ck_data_end(b)   == ck_data_start(b) + blocks[b].nbytes_alloc
Data(b)          == ck_data_start(b) .. ck_data_end(b) - 1
Zone(a)          == a .. a + RedZone - 1
RedZones(start, n) == Zone(start + Header) \cup Zone(start + sizeof_hdr + n)
Zones(b)         == RedZones(blocks[b].start, blocks[b].nbytes_alloc)
Fields(b)        == blocks[b].start .. blocks[b].start + Header - 1
BlockIds         == DOMAIN blocks
Live             == {b \in BlockIds : blocks[b].state = "ALLOCED"}
LiveData         == UNION {Data(b) : b \in Live}

\* ck_ptr_is_alloced: the walk stops at the block that holds p, or at one
\* on the list that is not allocated, for which ck_ptr_in_block panics.
Stops(p) == {i \in DOMAIN alloc_list :
              blocks[alloc_list[i]].state # "ALLOCED" \/ p \in Data(alloc_list[i])}
ck_ptr_is_alloced(p) == IF Stops(p) = {} THEN NoBlock ELSE alloc_list[Min(Stops(p))]
Panics(p) == ck_ptr_is_alloced(p) \in BlockIds \ Live

\* Mutant: only the first red zone is looked at.
mem_checkFirst(b, check_data) ==
  ~ Zone(blocks[b].start + Header) \subseteq mem

mem_check(b, check_data) ==
  ~ (Zones(b) \cup (IF check_data THEN Data(b) ELSE {})) \subseteq mem

\* ck_heap_errors: how many blocks of the two lists are corrupted.
ck_heap_errors ==
  Cardinality({i \in DOMAIN alloc_list : mem_check(alloc_list[i], FALSE)})
    + Cardinality({i \in DOMAIN free_list : mem_check(free_list[i], TRUE)})

-----------------------------------------------------------------------------
Init ==
  /\ mem = {} /\ brk = 0
  /\ blocks = << >> /\ alloc_list = << >> /\ free_list = << >>
  /\ total_bytes_allocated = 0 /\ total_bytes_freed = 0
  /\ tracing \in BOOLEAN /\ trap = tracing
  /\ watch_addr = NoAddr /\ instr = NoInstr
  /\ pc = "run" /\ wild = {} /\ legal = TRUE

Stop(how) == pc' = how /\ instr' = NoInstr /\ UNCHANGED <<mem, lists, tracer, wild>>

Aligned(n) == ((n + Word - 1) \div Word) * Word

\* The caller asked for something the allocator is right to refuse.
Blame(guilty) == legal' = (legal /\ ~ guilty) /\ UNCHANGED tracing

\* purify_alloc, or ckalloc: an hdr_t in front of the data, red zones around
\* it, the block at the end of alloc_list.  The trap is off meanwhile and on
\* at the end, which each asserts.  No byte of an empty block is in it, so
\* the assert at the end of ckalloc fails.
Alloc(n) ==
  /\ pc = "run" /\ brk + Aligned(sizeof_hdr + n + RedZone) <= HeapBytes
  /\ Blame(n = 0)
  /\ IF n = 0 \/ (tracing /\ ~ trap) THEN Stop("panic")
     ELSE LET b == Len(blocks) + 1 IN
          /\ blocks' = Append(blocks, [start |-> brk, nbytes_alloc |-> n, state |-> "ALLOCED"])
          /\ brk' = brk + Aligned(sizeof_hdr + n + RedZone)
          /\ mem' = mem \cup RedZones(brk, n)
          /\ alloc_list' = IF total_bytes_allocated = 0 THEN <<b>> ELSE Append(alloc_list, b)
          /\ total_bytes_allocated' = total_bytes_allocated + n
          /\ UNCHANGED <<free_list, total_bytes_freed, tracer, pc, wild, instr>>

\* The first of the list that is b.
PositionOf(b) == Min({k \in DOMAIN alloc_list : alloc_list[k] = b})

\* Mutants: the block stays on alloc_list; it becomes the whole free_list.
UnlinkKeeps(b) ==
  /\ alloc_list' = alloc_list
  /\ free_list' = IF total_bytes_freed = 0 THEN <<b>> ELSE Append(free_list, b)
UnlinkForgets(b) ==
  /\ alloc_list' = RemoveAt(alloc_list, PositionOf(b))
  /\ free_list' = <<b>>

\* ckfree's lists: off the allocated one, at the end of the other.
Unlink(b) ==
  /\ alloc_list' = RemoveAt(alloc_list, PositionOf(b))
  /\ free_list' = IF total_bytes_freed = 0 THEN <<b>> ELSE Append(free_list, b)

\* purify_free, or ckfree: panics unless p starts an allocated block, reboots
\* if a red zone was overwritten; then the block is freed and its data filled.
Free(p) ==
  /\ pc = "run"
  /\ LET b == ck_ptr_is_alloced(p) IN
     /\ Blame(~ \E c \in Live : p = ck_data_start(c))
     /\ \/ /\ \/ tracing /\ ~ trap
              \/ b = NoBlock \/ Panics(p)
              \/ b \in Live /\ ck_data_start(b) # p
           /\ Stop("panic")
        \/ /\ tracing => trap
           /\ b \in Live /\ ck_data_start(b) = p
           /\ IF mem_check(b, FALSE) THEN Stop("reboot")
              ELSE /\ blocks' = [blocks EXCEPT ![b].state = "FREED"]
                   /\ mem' = mem \cup Data(b)
                   /\ Unlink(b)
                   /\ total_bytes_allocated' = total_bytes_allocated - blocks[b].nbytes_alloc
                   /\ total_bytes_freed' = total_bytes_freed + blocks[b].nbytes_alloc
                   /\ UNCHANGED <<brk, tracer, pc, wild, instr>>

-----------------------------------------------------------------------------
(* The program's loads and stores. *)

Touched(i) == i.addr .. i.addr + i.nbytes - 1

\* The stray accesses of the model stay below brk.  Untraced ones also spare
\* the fields of an hdr_t, which the lists are made of; untraced loads change
\* nothing and are left out.
Issue(i) ==
  /\ pc = "run"
  /\ i.addr % (IF i.nbytes < Word THEN i.nbytes ELSE Word) = 0 /\ i.addr + i.nbytes <= brk
  /\ ~ tracing => /\ i.op = "store"
                  /\ Touched(i) \cap UNION {Fields(b) : b \in BlockIds} = {}
                  /\ Cardinality(wild \cup (Touched(i) \ LiveData)) <= MaxWild
  /\ instr' = i /\ pc' = "access"
  /\ Blame(~ \E b \in Live : Touched(i) \subseteq Data(b))
  /\ UNCHANGED <<mem, lists, tracer, wild>>

\* Mutant: the trap stays on while the instruction runs again.
DomainFaultLeavesTrap ==
  /\ pc = "access" /\ trap
  /\ IF Panics(instr.addr) THEN Stop("panic")
     ELSE IF ck_ptr_is_alloced(instr.addr) = NoBlock THEN Stop("reboot")
     ELSE /\ watch_addr' = instr.addr
          /\ UNCHANGED <<mem, lists, trap, wild, instr, pc>>
  /\ UNCHANGED <<tracing, legal>>

\* The trap is on: the access faults and data_fault runs.  It turns the trap
\* off and calls purify_handler, which reboots unless the first byte is in an
\* allocated block, then sets a watchpoint and runs the instruction again.
DomainFault ==
  /\ pc = "access" /\ trap
  /\ IF Panics(instr.addr) THEN Stop("panic")
     ELSE IF ck_ptr_is_alloced(instr.addr) = NoBlock THEN Stop("reboot")
     ELSE /\ trap' = FALSE /\ watch_addr' = instr.addr
          /\ UNCHANGED <<mem, lists, wild, instr, pc>>
  /\ UNCHANGED <<tracing, legal>>

\* The trap is off: the access takes effect, all of its words.  A watchpoint
\* on one of them faults, once, after it.
Access ==
  /\ pc = "access" /\ ~ trap
  /\ pc' = IF /\ watch_addr # NoAddr
              /\ \E a \in Touched(instr) : a \div Word = watch_addr \div Word
           THEN "watchpoint" ELSE "run"
  /\ IF instr.op = "load" THEN UNCHANGED <<mem, wild>>
     ELSE LET stray == Touched(instr) \ LiveData IN
          IF instr.redzoneVal
          THEN mem' = mem \cup Touched(instr) /\ wild' = wild \ stray
          ELSE mem' = mem \ Touched(instr) /\ wild' = wild \cup stray
  /\ instr' = IF pc' = "run" THEN NoInstr ELSE instr
  /\ UNCHANGED <<lists, tracing, tracer, legal>>

\* Mutant: the trap stays off.
WatchpointLeavesOff ==
  /\ pc = "watchpoint"
  /\ IF watch_addr # instr.addr \/ trap THEN Stop("panic")
     ELSE /\ watch_addr' = NoAddr /\ trap' = trap
          /\ pc' = "run" /\ instr' = NoInstr
          /\ UNCHANGED <<mem, lists, wild>>
  /\ UNCHANGED <<tracing, legal>>

\* data_fault again: watchpt_off panics if another address was watched, and
\* the trap, which must be off, is on again.
Watchpoint ==
  /\ pc = "watchpoint"
  /\ IF watch_addr # instr.addr \/ trap THEN Stop("panic")
     ELSE /\ watch_addr' = NoAddr /\ trap' = TRUE
          /\ pc' = "run" /\ instr' = NoInstr
          /\ UNCHANGED <<mem, lists, wild>>
  /\ UNCHANGED <<tracing, legal>>

Next ==
  \/ \E n \in 0 .. MaxBytes : Alloc(n)
  \/ \E p \in Arena : Free(p)
  \/ \E i \in Stores \cup Loads : Issue(i)
  \/ DomainFault
  \/ Access
  \/ Watchpoint

Fairness == WF_vars(DomainFault) /\ WF_vars(Access) /\ WF_vars(Watchpoint)

Spec == Init /\ [][Next]_vars /\ Fairness

-----------------------------------------------------------------------------
\* The handler tests the first byte of an access only (memtrace.c,
\* checker-purify.c).  Whatever the width, what a traced program's store
\* writes astray lies in the second red zone of a block that is still
\* allocated, the one its first byte was in: quarantined memory, every hdr_t
\* and the zone before each block keep what the allocator wrote.
WildIsContained ==
  tracing => \A a \in wild : \E b \in Live :
                a \in ck_data_end(b) .. ck_data_end(b) + Widest - 2

\* Untraced, ck_heap_errors finds an error exactly when a byte of a red zone
\* or of quarantined data is not what the allocator left there: no block has
\* dropped out of both lists, none is checked for what it may hold.
NothingSlips ==
  ~ tracing /\ pc = "run" =>
    (ck_heap_errors > 0 <=> \E b \in BlockIds : \E a \in wild :
                               a \in Zones(b) \cup (IF b \in Live THEN {} ELSE Data(b)))

\* A program that stays inside its live blocks and frees each once is never
\* stopped, whatever order it allocates, frees and accesses in.
LegalProgramsRun == legal => pc \notin {"panic", "reboot"}

\* Every access is over at some time: no fault leads back to itself for ever.
AccessEnds == pc \in {"access", "watchpoint"} ~> pc \notin {"access", "watchpoint"}
=============================================================================
