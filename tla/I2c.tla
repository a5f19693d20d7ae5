-------------------------------- MODULE I2c --------------------------------
(***************************************************************************)
(* final_project/i2c.c with its two devices on one bus: the touch panel    *)
(* that sig_write.c samples and the display it shows a frame on.  The      *)
(* driver polls the controller's status register with unbounded loops;     *)
(* the controller moves the bytes between its FIFO and the device on its   *)
(* own, and may find that the device does not acknowledge (ERR) or holds   *)
(* the clock for too long (CLKT).                                          *)
(*                                                                         *)
(* A driver step ends at an access of a register.  The bits TXE, TXD and   *)
(* RXD of the status are the state of the FIFO: empty, not full, not empty.*)
(***************************************************************************)
EXTENDS Integers, Sequences

CONSTANTS
  FifoSize,   \* bytes the controller's FIFO holds (16)
  FrameSize,  \* bytes of a frame of the display (1025)
  Coords,     \* what the panel can measure of a finger
  Floating,   \* 4095: nothing touches the panel
  Tolerance,  \* 100: how far two measurements may differ
  ShowEvery,  \* 5: points between two frames
  MaxFaults   \* bound: refusals and timeouts on the bus

ASSUME SizesAssumption ==
  /\ {FifoSize, FrameSize, ShowEvery} \subseteq Nat \ {0}
  /\ Floating \in Nat /\ Coords \subseteq 0 .. Floating - 1
  /\ {Tolerance, MaxFaults} \subseteq Nat

Readings == Coords \cup {Floating}

VARIABLES
  pc,      \* where i2c_write or i2c_read is
  call,    \* [op, addr, bytes to write, n] of the call
  i,       \* bytes the driver has put into or taken from the FIFO
  buf,     \* bytes i2c_read has stored
  ret,     \* what the last call returned
  S,       \* TA, DONE, ERR and CLKT of the status register
  fifo,
  wire,    \* the transfer on the bus: where it is, bytes left to move
  moved,   \* the bytes that crossed the bus in this transfer
  latch,   \* the panel's last measurement
  finger,  \* [x, y] of the finger, or Up
  step,    \* the measurement of tsc2007_read_touch that is due
  taken,   \* the measurements so far, each with whether a finger was down
  points,  \* point_count modulo ShowEvery
  sample,  \* the sample just taken: touched or not, and its measurements
  faults

driver == <<pc, call, i, buf, ret>>
bus    == <<S, fifo, wire, moved, latch>>
client == <<step, taken, points, sample>>
vars   == <<driver, bus, finger, client, faults>>

\* tsc2007_read_touch: what it measures, in order.
Commands == << "Z1", "Z2", "X", "Y", "X", "Y", "DOWN" >>

Up      == [x |-> Floating, y |-> Floating]
Fingers == [x : Coords, y : Coords] \cup {Up}
Idle    == [at |-> "none", left |-> 0]
NoCall  == [op |-> "none"]
NoSample == [touched |-> FALSE, taken |-> << >>]

Measured(c) == CASE c = "X" -> finger.x [] c = "Y" -> finger.y [] OTHER -> 0

\* A 12-bit value travels as its upper 8 and its lower 4 bits.
Bytes(m) == << [part |-> "high", m |-> m], [part |-> "low", m |-> m] >>

\* A byte of tsc2007_cmd's buf that nobody has written.
Unset == [part |-> "none", m |-> [v |-> 0, down |-> FALSE]]

Frame == [k \in 1 .. FrameSize |-> k]

\* i2c_init writes the status it reads back with ERR and DONE on, which clears
\* them and, if it was on, CLKT; bytes in the FIFO stay as the program before
\* left them.
Init ==
  /\ pc = "idle" /\ call = NoCall /\ i = 0 /\ buf = << >> /\ ret = 1
  /\ S = {} /\ fifo \in { << >>, << "X" >> } /\ wire = Idle /\ moved = << >>
  /\ finger \in Fingers /\ latch = [v |-> 0, down |-> FALSE]
  /\ step = 1 /\ taken = << >> /\ points = 0
  /\ sample = NoSample
  /\ faults = 0

-----------------------------------------------------------------------------
(* i2c_write and i2c_read. *)

\* Mutant: the status is not tested before a transfer.
RefusedNever == FALSE

\* TXE is off, or CLKT or ERR is on.
Refused == fifo # << >> \/ S \cap {"CLKT", "ERR"} # {}

\* Once no transfer is active, return 0 after an error; otherwise clear
\* DONE and the FIFO and start the transfer.
Start ==
  /\ pc = "wait" /\ "TA" \notin S
  /\ IF Refused
     THEN /\ ret' = 0 /\ pc' = "returned"
          /\ UNCHANGED <<S, fifo, wire, moved>>
     ELSE /\ S' = S \ {"DONE"}
          /\ fifo' = << >> /\ moved' = << >>
          /\ wire' = [at |-> "start", left |-> call.n]
          /\ pc' = "start" /\ UNCHANGED ret
  /\ UNCHANGED <<call, i, buf, latch, finger, client, faults>>

Started ==
  /\ pc = "start" /\ "TA" \in S
  /\ pc' = "move"
  /\ UNCHANGED <<call, i, buf, ret, bus, finger, client, faults>>

\* Mutant: i2c_write does not wait for TXD, and a full FIFO drops the byte.
FillUnchecked ==
  /\ pc = "move" /\ call.op = "write" /\ i < call.n
  /\ fifo' = IF Len(fifo) < FifoSize THEN Append(fifo, call.bytes[i + 1]) ELSE fifo
  /\ i' = i + 1
  /\ UNCHANGED <<pc, call, buf, ret, S, wire, moved, latch, finger, client, faults>>

\* TXD: there is room in the FIFO.
Fill ==
  /\ pc = "move" /\ call.op = "write" /\ i < call.n
  /\ Len(fifo) < FifoSize
  /\ fifo' = Append(fifo, call.bytes[i + 1])
  /\ i' = i + 1
  /\ UNCHANGED <<pc, call, buf, ret, S, wire, moved, latch, finger, client, faults>>

\* RXD: there is a byte in the FIFO.
Drain ==
  /\ pc = "move" /\ call.op = "read" /\ i < call.n
  /\ fifo # << >>
  /\ buf' = [buf EXCEPT ![i + 1] = Head(fifo)]
  /\ fifo' = Tail(fifo)
  /\ i' = i + 1
  /\ UNCHANGED <<pc, call, ret, S, wire, moved, latch, finger, client, faults>>

\* Mutant: a call does not wait for DONE.
FinishWithoutDone ==
  /\ pc = "move" /\ i = call.n
  /\ ret' = (IF "ERR" \in S THEN 0 ELSE 1) /\ pc' = "returned"
  /\ UNCHANGED <<call, i, buf, bus, finger, client, faults>>

\* DONE: TA and ERR decide the result, CLKT does not.
Finish ==
  /\ pc = "move" /\ i = call.n /\ "DONE" \in S
  /\ ret' = (IF S \cap {"TA", "ERR"} # {} THEN 0 ELSE 1)
  /\ pc' = "returned"
  /\ UNCHANGED <<call, i, buf, bus, finger, client, faults>>

-----------------------------------------------------------------------------
(* tsc2007_cmd, tsc2007_read_touch and the loop of notmain; the results of *)
(* i2c_write and i2c_read are not looked at.                               *)

Calls(op, addr, bytes, n) ==
  /\ call' = [op |-> op, addr |-> addr, bytes |-> bytes, n |-> n]
  /\ pc' = "wait" /\ i' = 0
  /\ buf' = IF op = "read" THEN [k \in 1 .. n |-> Unset] ELSE << >>

SendCommand ==
  /\ pc = "idle" /\ step <= Len(Commands)
  /\ Calls("write", "panel", << Commands[step] >>, 1)
  /\ sample' = NoSample
  /\ UNCHANGED <<ret, bus, finger, step, taken, points, faults>>

ReadBack ==
  /\ pc = "returned" /\ call.op = "write" /\ call.addr = "panel"
  /\ Calls("read", "panel", << >>, 2)
  /\ UNCHANGED <<ret, bus, finger, client, faults>>

\* The 12-bit result: what the panel measured, or what was on the stack.
Value == IF Unset \in {buf[1], buf[2]}
         THEN { [v |-> v, down |-> FALSE] : v \in Readings } ELSE {buf[1].m}

Take ==
  /\ pc = "returned" /\ call.op = "read"
  /\ \E m \in Value : taken' = IF Commands[step] \in {"X", "Y"} THEN Append(taken, m) ELSE taken
  /\ step' = step + 1
  /\ pc' = "idle" /\ call' = NoCall /\ buf' = << >> /\ i' = 0
  /\ UNCHANGED <<ret, bus, finger, points, sample, faults>>

Distance(a, b) == IF a >= b THEN a - b ELSE b - a

\* Mutant: a floating line is only looked for in x.
TouchedByX(t) == /\ Distance(t[1].v, t[3].v) <= Tolerance
                 /\ Distance(t[2].v, t[4].v) <= Tolerance
                 /\ t[1].v # Floating

Touched(t) == /\ Distance(t[1].v, t[3].v) <= Tolerance
              /\ Distance(t[2].v, t[4].v) <= Tolerance
              /\ t[1].v # Floating /\ t[2].v # Floating

\* The sample is complete; every ShowEvery points the frame is shown.
Sampled ==
  /\ pc = "idle" /\ step > Len(Commands)
  /\ sample' = [touched |-> Touched(taken), taken |-> taken]
  /\ step' = 1 /\ taken' = << >>
  /\ points' = IF Touched(taken) THEN (points + 1) % ShowEvery ELSE points
  /\ IF Touched(taken) /\ (points + 1) % ShowEvery = 0
     THEN Calls("write", "display", Frame, FrameSize)
     ELSE UNCHANGED <<pc, call, i, buf>>
  /\ UNCHANGED <<ret, bus, finger, faults>>

Shown ==
  /\ pc = "returned" /\ call.addr = "display"
  /\ pc' = "idle" /\ call' = NoCall /\ i' = 0
  /\ UNCHANGED <<buf, ret, bus, finger, client, faults>>

-----------------------------------------------------------------------------
(* The controller and the devices. *)

Begin ==
  /\ wire.at = "start"
  /\ S' = S \cup {"TA"}
  /\ wire' = [wire EXCEPT !.at = "address"]
  /\ UNCHANGED <<driver, fifo, moved, latch, finger, client, faults>>

Acknowledge ==
  /\ wire.at = "address"
  /\ wire' = [wire EXCEPT !.at = "data"]
  /\ UNCHANGED <<driver, S, fifo, moved, latch, finger, client, faults>>

\* The transfer ends with the last byte.
Moved(byte) ==
  /\ moved' = Append(moved, byte)
  /\ wire' = IF wire.left = 1 THEN Idle ELSE [wire EXCEPT !.left = @ - 1]
  /\ S' = IF wire.left = 1 THEN (S \ {"TA"}) \cup {"DONE"} ELSE S

\* A byte of a write; the panel measures when it gets its command.
SendByte ==
  /\ wire.at = "data" /\ call.op = "write" /\ fifo # << >>
  /\ Moved(Head(fifo))
  /\ fifo' = Tail(fifo)
  /\ latch' = IF call.addr = "panel" THEN [v |-> Measured(Head(fifo)), down |-> finger # Up] ELSE latch
  /\ UNCHANGED <<driver, finger, client, faults>>

\* A byte of a read.
ReceiveByte ==
  /\ wire.at = "data" /\ call.op = "read" /\ Len(fifo) < FifoSize
  /\ LET byte == Bytes(latch)[Len(moved) + 1]
     IN  Moved(byte) /\ fifo' = Append(fifo, byte)
  /\ UNCHANGED <<driver, latch, finger, client, faults>>

\* The device does not acknowledge its address or a byte it is sent, or
\* holds the clock: the transfer is over, the FIFO keeps what it has.
Fail ==
  /\ faults < MaxFaults /\ faults' = faults + 1
  /\ \/ wire.at = "address" /\ S' = (S \ {"TA"}) \cup {"DONE", "ERR"}
     \/ /\ wire.at = "data" /\ call.op = "write" /\ fifo # << >>
        /\ S' = (S \ {"TA"}) \cup {"DONE", "ERR"}
     \/ wire.at \in {"address", "data"} /\ S' = (S \ {"TA"}) \cup {"DONE", "CLKT"}
  /\ wire' = Idle
  /\ UNCHANGED <<driver, fifo, moved, latch, finger, client>>

\* The finger moves, comes or goes.
Move ==
  /\ finger' \in Fingers \ {finger}
  /\ UNCHANGED <<driver, bus, client, faults>>

Program == \/ Start \/ Started \/ Fill \/ Drain \/ Finish
           \/ SendCommand \/ ReadBack \/ Take \/ Sampled \/ Shown
Bus     == Begin \/ Acknowledge \/ SendByte \/ ReceiveByte
Next    == Program \/ Bus \/ Fail \/ Move

\* The processor runs on and the controller keeps clocking.
Spec == Init /\ [][Next]_vars /\ WF_vars(Program) /\ WF_vars(Bus)

-----------------------------------------------------------------------------
(* Properties. *)

\* A call that returns 1 has moved all its bytes, in order: i2c_write to the
\* device, i2c_read into the caller's buffer.  Not so after a clock timeout,
\* which is tested before a transfer but not after it.
OneMeansMoved ==
  pc = "returned" /\ ret = 1 /\ "CLKT" \notin S =>
    /\ Len(moved) = call.n
    /\ call.op = "write" => moved = call.bytes
    /\ call.op = "read"  => moved = buf

\* The error bits are never cleared: once a call has returned 0, every later
\* one does, and the bus is silent.
FailureIsForEver == [][ret = 0 => ret' = 0 /\ moved' = moved]_vars

\* As long as no call has returned 0, a touch is reported only where the panel
\* measured a finger in x and in y.
NoPhantomTouch ==
  sample.touched /\ ret = 1 =>
    \A k \in 1 .. 2 : sample.taken[k].down

\* The states a call never leaves: the transfer was over before the driver
\* looked for TA, or it failed while the driver waits for TXD or RXD.
Overtaken   == pc = "start" /\ wire = Idle
Unanswered  == pc = "move" /\ i < call.n /\ S \cap {"ERR", "CLKT"} # {}
CallsReturn == []<>(pc = "idle") \/ <>[](Overtaken \/ Unanswered)
=============================================================================
