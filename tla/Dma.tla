-------------------------------- MODULE Dma --------------------------------
(***************************************************************************)
(* labs/17-dma/code: programs made of DMA control blocks.  ctx.h emits the *)
(* blocks one after another; the stamps of 4-dma-inc.c, 5-dma-add.c and    *)
(* 6-dma-blink.c make them compute: a block copies a byte into an address  *)
(* field of a later block, which then reads a table at that index, or goes *)
(* on at the block a table names.  The program has rewritten itself by the *)
(* time it ends and is started again as it is.                             *)
(*                                                                         *)
(* A byte is a digit below Base.  Of a SRC_ADDR the model keeps what it    *)
(* points to and its two low bytes, the ones that programs patch: tables   *)
(* are aligned, so these index them.  A file stamps a program, runs it     *)
(* any number of times and may then stamp the next one; the blocks of one  *)
(* that is not run again are forgotten.                                    *)
(***************************************************************************)
EXTENDS Integers, Sequences, SequencesExt

CONSTANTS
  Base,         \* values of a byte, 256 in the code
  Digits,       \* bytes of the numbers stamp_add32 adds, 4 in the code
  DelayBlocks,  \* blocks one ctx_delay_ms emits
  Capacity      \* what ctx_init was given

ASSUME DmaAssumption ==
  Base \in Nat \ {0, 1} /\ {Digits, DelayBlocks, Capacity} \subseteq Nat \ {0}

Byte  == 0 .. Base - 1
Place == 0 .. Digits - 1

\* What each file stamps, in order.
Files == {<<"inc8">>, <<"add8", "add8_carry", "add32">>, <<"blink">>}

-----------------------------------------------------------------------------
(* Control blocks.  A block is named by its place in the arena, from 1; 0   *)
(* is the null bus address.                                                 *)

Cell(name)            == <<name, 0>>
Number(name)          == [k \in Place |-> <<name, k>>]
bus_rel_fld(cb, f, o) == <<f, cb, o>>

\* ctx_emit_with: block number at.
Emit(at, dst, src) == [dst |-> dst, src |-> src, hi |-> 0, lo |-> 0, nxt |-> at + 1]

\* ctx_branch, ctx_end: the last block emitted goes on at label.
ctx_branch(cbs, label) == [cbs EXCEPT ![Len(cbs)].nxt = label]
ctx_end(cbs) == ctx_branch(cbs, 0)

ctx_noop(at) == <<Emit(at, Cell("temp"), Cell("temp"))>>

stamp_inc8(at, out, in) ==
  << Emit(at, bus_rel_fld(at + 1, "FLD_SRC", 0), in),
     Emit(at + 1, out, Cell("EXAMPLE")) >>

stamp_add8(at, out8, lhs8, rhs8) ==
  << Emit(at, bus_rel_fld(at + 2, "FLD_SRC", 0), rhs8),
     Emit(at + 1, bus_rel_fld(at + 2, "FLD_SRC", 1), lhs8),
     Emit(at + 2, out8, Cell("SUM")) >>

stamp_add8_carry(at, out8, carry8, lhs8, rhs8) ==
  stamp_add8(at, out8, lhs8, rhs8) \o
  << Emit(at + 3, bus_rel_fld(at + 5, "FLD_SRC", 0), rhs8),
     Emit(at + 4, bus_rel_fld(at + 5, "FLD_SRC", 1), lhs8),
     Emit(at + 5, carry8, Cell("CARRY")) >>

\* Mutant: the carry of the second addition is dropped.
CarryDropped(at, out8, carry8, lhs8, rhs8, carryin) ==
  stamp_add8_carry(at, Cell("tempout"), carry8, lhs8, rhs8) \o
  stamp_add8_carry(at + 6, out8, Cell("carry8out2"), carryin, Cell("tempout"))

stamp_add8_carry_full(at, out8, carry8, lhs8, rhs8, carryin) ==
  stamp_add8_carry(at, Cell("tempout"), Cell("carry8out1"), lhs8, rhs8) \o
  stamp_add8_carry(at + 6, out8, Cell("carry8out2"), carryin, Cell("tempout")) \o
  stamp_add8(at + 12, carry8, Cell("carry8out1"), Cell("carry8out2"))

\* A ripple-carry adder: carryout1 is <<"carryout", 0>> here.
stamp_add32(at, out32, lhs32, rhs32) ==
  LET carry == Number("carryout")
      sum[k \in Place] ==
        IF k = 0 THEN stamp_add8_carry(at, out32[0], carry[0], lhs32[0], rhs32[0])
        ELSE sum[k - 1] \o stamp_add8_carry_full(at + Len(sum[k - 1]), out32[k], carry[k],
                                                 lhs32[k], rhs32[k], carry[k - 1])
  IN  sum[Digits - 1]

ctx_delay_ms(at) == [k \in 1 .. DelayBlocks |-> Emit(at + k - 1, Cell("dst"), Cell("temp"))]

\* dma_blink: reads n and i, looks the branch target up, patches it into the
\* NEXT_CB of a no-op; its body counts, and turns the pin on and off.
LoopBlocks == 5
BodyBlocks == 4 + 2 * DelayBlocks
exit(at)   == at + LoopBlocks + BodyBlocks
dma_blink(at, n_times) ==
  LET body == at + LoopBlocks
      off  == body + 3 + DelayBlocks
      loop == << Emit(at, bus_rel_fld(at + 2, "FLD_SRC", 0), n_times),
                 Emit(at + 1, bus_rel_fld(at + 2, "FLD_SRC", 1), Cell("i")),
                 Emit(at + 2, bus_rel_fld(at + 3, "FLD_SRC", 0), Cell("BRANCH_ADDR")),
                 Emit(at + 3, bus_rel_fld(at + 4, "FLD_NXT", 0), Cell("addrs")) >>
              \o ctx_noop(at + 4)
      work == << Emit(body, bus_rel_fld(body + 1, "FLD_SRC", 0), Cell("i")),
                 Emit(body + 1, Cell("i"), Cell("NEXTI")),
                 Emit(body + 2, Cell("GPIO_SET0"), Cell("temp")) >>
              \o ctx_delay_ms(body + 3)
              \o <<Emit(off, Cell("GPIO_CLR0"), Cell("temp"))>>
              \o ctx_delay_ms(off + 1)
  IN  ctx_branch(loop \o work, at) \o ctx_noop(exit(at))

\* What the test functions stamp, ended.
Stamped(kind, at) == ctx_end(
  CASE kind = "inc8"       -> stamp_inc8(at, <<"out", 0>>, <<"lhs", 0>>)
    [] kind = "add8"       -> stamp_add8(at, <<"out", 0>>, <<"lhs", 0>>, <<"rhs", 0>>)
    [] kind = "add8_carry" -> stamp_add8_carry(at, <<"out", 0>>, Cell("carry"), <<"lhs", 0>>, <<"rhs", 0>>)
    [] kind = "add32"      -> stamp_add32(at, Number("out"), Number("lhs"), Number("rhs"))
    [] kind = "blink"      -> dma_blink(at, <<"lhs", 0>>))

Cells == {Number(x)[k] : x \in {"lhs", "rhs", "out", "carryout"}, k \in Place}
           \cup {Cell(x) : x \in {"carry", "tempout", "carry8out1", "carry8out2", "i", "temp", "dst"}}

-----------------------------------------------------------------------------
VARIABLES
  file,     \* the programs still to be stamped
  kind,     \* the program that was stamped last
  first,    \* the number of its first block
  blocks,   \* its blocks
  mem,      \* the bytes that programs read and write
  CB_ADDR,  \* the engine's next block, or 0
  active,   \* CS bit 0
  pc,       \* the processor: idle, wait, done, or the panic that stopped it
  inputs,   \* history: the numbers the run was started with, and i then
  pin,      \* is the pin on?
  blinks    \* history: how often it was turned on in this run

program == <<file, kind, first, blocks>>
vars    == <<program, mem, CB_ADDR, active, pc, inputs, pin, blinks>>

Numbers == [Place -> Byte]
Zero    == [k \in Place |-> 0]
Short   == {x \in Numbers : \A k \in Place \ {0} : x[k] = 0}
\* Bound: for stamp_add32, digits that stop, pass on and produce a carry.
Samples == {x \in Numbers : \A k \in Place : x[k] \in {1, Base - 1}}
             \X {x \in Numbers : \A k \in Place : x[k] \in {0, Base - 1}}
Inputs(p) == CASE p = "add32"            -> Samples
               [] p \in {"inc8", "blink"} -> Short \X {Zero}
               [] OTHER                  -> Short \X Short

Init ==
  /\ file \in Files /\ kind = "none" /\ first = 1 /\ blocks = << >>
  /\ mem = [c \in Cells |-> 0]
  /\ CB_ADDR = 0 /\ active = FALSE
  /\ pc = "idle"
  /\ inputs = [lhs |-> Zero, rhs |-> Zero, i |-> 0]
  /\ pin = FALSE /\ blinks = 0

\* Stamping the file's next program; ctx_emit_with panics when the arena is
\* full.
Stamp ==
  /\ pc = "idle" /\ file # << >>
  /\ LET at  == first + Len(blocks)
         cbs == Stamped(Head(file), at)
     IN  IF at + Len(cbs) - 1 > Capacity
         THEN pc' = "ran out of blocks" /\ UNCHANGED program
         ELSE /\ file' = Tail(file) /\ kind' = Head(file)
              /\ first' = at /\ blocks' = cbs
              /\ UNCHANGED pc
  /\ UNCHANGED <<mem, CB_ADDR, active, inputs, pin, blinks>>

\* A test sets its inputs, clears the outputs and calls dma_initiate.
dma_initiate(lhs, rhs) ==
  /\ pc = "idle" /\ kind # "none"
  /\ mem' = [c \in Cells |-> CASE c \in {<<"lhs", k>> : k \in Place} -> lhs[c[2]]
                               [] c \in {<<"rhs", k>> : k \in Place} -> rhs[c[2]]
                               [] c \in {<<"out", k>> : k \in Place} \cup {Cell("carry")} -> 0
                               [] OTHER -> mem[c]]
  /\ inputs' = [lhs |-> lhs, rhs |-> rhs, i |-> mem[Cell("i")]]
  /\ blinks' = 0
  /\ IF active THEN pc' = "DMA is still running" /\ UNCHANGED <<CB_ADDR, active>>
     ELSE CB_ADDR' = first /\ active' = TRUE /\ pc' = "wait"
  /\ UNCHANGED <<program, pin>>

\* dma_done: the channel is idle, which it may be only at the end of a chain.
dma_done ==
  /\ pc = "wait" /\ ~ active
  /\ pc' = IF CB_ADDR = 0 THEN "done" ELSE "assertion failed"
  /\ UNCHANGED <<program, mem, CB_ADDR, active, inputs, pin, blinks>>

\* dma_wait has polled timeout times.
TimeOut ==
  /\ pc = "wait" /\ active
  /\ pc' = "timed out"
  /\ UNCHANGED <<program, mem, CB_ADDR, active, inputs, pin, blinks>>

\* The test has looked at the result and goes on.
Return ==
  /\ pc = "done" /\ pc' = "idle"
  /\ UNCHANGED <<program, mem, CB_ADDR, active, inputs, pin, blinks>>

-----------------------------------------------------------------------------
(* The engine. *)

\* Mutants: the loop goes on when i = N; it ends one turn early; the carry
\* comes too late.
BranchNever(i, n) == 4
BranchEarly(i, n) == IF n = i \/ n = i + 1 THEN 0 ELSE 4
CarryLate(i, j) == IF i + j > Base THEN 1 ELSE 0

\* The tables.
BRANCH_ADDR(i, n) == IF n = i THEN 0 ELSE 4
CARRY(i, j) == IF i + j >= Base THEN 1 ELSE 0
SUM(i, j) == (i + j) % Base

\* What a block reads.
Read(b) ==
  CASE b.src \in Cells              -> mem[b.src]
    [] b.src = Cell("SUM")          -> SUM(b.hi, b.lo)
    [] b.src = Cell("CARRY")        -> CARRY(b.hi, b.lo)
    [] b.src = Cell("BRANCH_ADDR")  -> BRANCH_ADDR(b.hi, b.lo)
    [] b.src = Cell("addrs")        -> IF b.lo = 0 THEN exit(first) ELSE first + LoopBlocks
    [] OTHER                        -> (b.lo + 1) % Base    \* EXAMPLE, NEXTI

\* What the block does to the program: it may patch a field of a block.
Patched(dst, v) ==
  LET k == dst[2] - first + 1 IN
  IF Len(dst) = 2 THEN blocks
  ELSE IF dst[1] = "FLD_NXT" THEN [blocks EXCEPT ![k].nxt = v]
  ELSE IF dst[3] = 0 THEN [blocks EXCEPT ![k].lo = v]
  ELSE [blocks EXCEPT ![k].hi = v]

\* The engine loads a block, does its transfer and goes on at the NEXT_CB it
\* has loaded; at 0 it stops.
Engine ==
  /\ pc = "wait" /\ active
  /\ CB_ADDR \in first .. first + Len(blocks) - 1
  /\ LET b == blocks[CB_ADDR - first + 1]
         v == Read(b)
     IN  /\ blocks' = Patched(b.dst, v)
         /\ mem' = IF b.dst \in Cells THEN [mem EXCEPT ![b.dst] = v] ELSE mem
         /\ pin' = CASE b.dst = Cell("GPIO_SET0") -> TRUE
                     [] b.dst = Cell("GPIO_CLR0") -> FALSE
                     [] OTHER -> pin
         /\ blinks' = IF ~ pin /\ pin' /\ blinks <= Base THEN blinks + 1 ELSE blinks
         /\ CB_ADDR' = b.nxt /\ active' = (b.nxt # 0)
  /\ UNCHANGED <<file, kind, first, pc, inputs>>

Next ==
  \/ Stamp
  \/ \E x \in Inputs(kind) : dma_initiate(x[1], x[2])
  \/ dma_done \/ TimeOut \/ Return
  \/ Engine

Fairness == WF_vars(Engine) /\ WF_vars(dma_done)

Spec == Init /\ [][Next]_vars /\ Fairness

-----------------------------------------------------------------------------
Value(x, n) == LET v[k \in 0 .. n] == IF k = 0 THEN 0 ELSE v[k - 1] + x[k - 1] * Base ^ (k - 1)
               IN  v[n]
InMem(name) == [k \in Place |-> mem[<<name, k>>]]

\* However often the program was run and whatever addresses and temporaries
\* earlier runs left in it, it ends with the sum of this run's inputs, which
\* it has not changed (5-dma-add.c, 4-dma-inc.c: what the tests check on a
\* handful of inputs).
SumsRight ==
  LET Sum == Value(inputs.lhs, Digits) + Value(inputs.rhs, Digits) IN
  pc = "done" /\ kind # "blink" =>
    /\ InMem("lhs") = inputs.lhs /\ InMem("rhs") = inputs.rhs
    /\ kind = "inc8" => mem[<<"out", 0>>] = (Sum + 1) % Base
    /\ kind \in {"add8", "add8_carry"} => mem[<<"out", 0>>] = Sum % Base
    /\ kind = "add8_carry" => mem[Cell("carry")] = Sum \div Base
    /\ kind = "add32" => Value(InMem("out"), Digits) = Sum % Base ^ Digits

\* A run of the loop turns the pin on as often as i has to be counted up from
\* where the run before left it until it is N, and leaves it off: N times for
\* the first run (6-dma-blink.c; i is never set back).
BlinksCount ==
  pc = "done" /\ kind = "blink" =>
    /\ ~ pin /\ mem[Cell("i")] = inputs.lhs[0]
    /\ blinks = (inputs.lhs[0] - inputs.i) % Base

\* Every chain that is started ends, the loop included.  The engine has no
\* step past the blocks of the program: a NEXT_CB, patched or emitted, that
\* leads out of it ends nothing.
ChainsEnd == active /\ pc = "wait" ~> ~ active \/ pc = "timed out"
=============================================================================
