----------------------------- MODULE I2cProofs -----------------------------
(***************************************************************************)
(* For every FIFO and frame size, every set of coordinates and any number  *)
(* of faults: a call that returns 1 has moved its bytes, once a call has   *)
(* failed the bus is silent, and a touch reported before that is one.      *)
(***************************************************************************)
EXTENDS I2c, SequenceTheorems, TLAPS

\* An error bit is set.
Failed == S \cap {"CLKT", "ERR"} # {}

\* The driver is in a transfer, or has returned 1 from one.
Active == pc \in {"start", "move"} \/ (pc = "returned" /\ ret = 1)

Measures == [v : Readings \cup {0}, down : BOOLEAN]
OnTheBus == {"Z1", "Z2", "X", "Y", "DOWN"} \cup (1 .. FrameSize)
              \cup [part : {"high", "low"}, m : Measures]

TypeOK ==
  /\ pc \in {"idle", "wait", "start", "move", "returned"}
  /\ i \in Nat /\ ret \in {0, 1}
  /\ S \in SUBSET {"TA", "DONE", "ERR", "CLKT"}
  /\ fifo \in Seq(OnTheBus) /\ moved \in Seq(OnTheBus)
  /\ wire \in [at : {"none", "start", "address", "data"}, left : Nat]
  /\ finger \in Fingers /\ latch \in Measures
  /\ step \in 1 .. 8 /\ taken \in Seq(Measures) /\ points \in Nat
  /\ faults \in Nat

PanelWrite   == [op |-> "write", addr |-> "panel", bytes |-> << Commands[step] >>, n |-> 1]
PanelRead    == [op |-> "read", addr |-> "panel", bytes |-> << >>, n |-> 2]
DisplayWrite == [op |-> "write", addr |-> "display", bytes |-> Frame, n |-> FrameSize]

\* The calls the program makes, and where it makes them.
CallOK ==
  /\ pc = "idle" <=> call = NoCall
  /\ call # NoCall => step <= 7 /\ call \in {PanelWrite, PanelRead, DisplayWrite}
  /\ pc = "wait" => i = 0

\* The status bits tell how the transfer stands.
WireOK ==
  /\ wire.at = "none" => wire = Idle
  /\ "TA" \in S <=> wire.at \in {"address", "data"}
  /\ "DONE" \in S \/ pc \notin {"start", "move"} => wire = Idle
  /\ wire # Idle => ~Failed /\ wire.left > 0 /\ wire.left = call.n - Len(moved)
  /\ Active /\ wire = Idle /\ ~Failed => Len(moved) = call.n
  /\ pc = "returned" /\ ret = 1 => i = call.n /\ "ERR" \notin S

\* A write's bytes that left the driver are on the bus or in the FIFO; a
\* read's bytes that crossed the bus are in the FIFO or in the buffer.
WriteOK ==
  Active /\ call.op = "write" =>
    /\ i = Len(moved) + Len(fifo) /\ i <= call.n
    /\ \A k \in 1 .. Len(moved) : moved[k] = call.bytes[k]
    /\ \A k \in 1 .. Len(fifo) : fifo[k] = call.bytes[Len(moved) + k]
ReadOK ==
  call.op = "read" =>
    /\ i \in 0 .. 2 /\ DOMAIN buf = 1 .. 2
    /\ \A k \in 1 .. 2 : k > i => buf[k] = Unset
    /\ Active => /\ Len(moved) = i + Len(fifo) /\ Len(moved) <= 2
                 /\ \A k \in 1 .. Len(moved) : moved[k] = Bytes(latch)[k]
                 /\ \A k \in 1 .. i : buf[k] = moved[k]
                 /\ \A k \in 1 .. Len(fifo) : fifo[k] = moved[i + k]
    /\ buf \in [1 .. 2 -> {Unset} \cup [part : {"high", "low"}, m : Measures]]

\* What makes a failure last: every later call is refused.
Silent == ret = 0 => pc \notin {"start", "move"} /\ Refused

\* A coordinate measured while nothing touches the panel is Floating.
TrueReading(m) == m.v = Floating \/ m.down

\* The panel's last measurement is the one the current call asks for.
LatchOK ==
  step \in 3 .. 6 =>
    /\ call = PanelWrite /\ Active /\ Len(moved) = 1 => TrueReading(latch)
    /\ call = PanelRead /\ Active => TrueReading(latch)
    /\ call = PanelRead /\ pc = "wait" /\ ret = 1 /\ ~Failed => TrueReading(latch)

\* Coordinates of a sample before measurement s.
Count(s) == CASE s <= 3 -> 0 [] s \in 4 .. 6 -> s - 3 [] s >= 7 -> 4

\* The measurements of a sample are true ones, unless a failure that will
\* stop the next call, before the sample is complete, is already there.
TakenOK ==
  /\ Len(taken) = Count(step)
  /\ \/ \A k \in 1 .. Len(taken) : TrueReading(taken[k])
     \/ ret = 0
     \/ Failed /\ step <= 7 /\ pc \in {"idle", "wait"}

Inv == /\ TypeOK /\ CallOK /\ WireOK /\ WriteOK /\ ReadOK
       /\ Silent /\ LatchOK /\ TakenOK /\ NoPhantomTouch
-----------------------------------------------------------------------------
LEMMA InitInv == Init => Inv
<1>1. SUFFICES ASSUME Init PROVE Inv
  OBVIOUS
<1>2. TypeOK
  <2>1. latch \in Measures /\ finger \in Fingers
    BY <1>1 DEF Init, Measures
  <2>2. fifo \in Seq(OnTheBus) /\ moved \in Seq(OnTheBus) /\ taken \in Seq(Measures)
    <3>1. "X" \in OnTheBus
      BY DEF OnTheBus
    <3>2. << "X" >> \in Seq(OnTheBus)
      BY <3>1
    <3>3. << >> \in Seq(OnTheBus) /\ << >> \in Seq(Measures)
      OBVIOUS
    <3>4. QED
      BY <1>1, <3>2, <3>3 DEF Init
  <2>3. wire \in [at : {"none", "start", "address", "data"}, left : Nat]
    BY <1>1 DEF Init, Idle
  <2>4. QED
    BY <1>1, <2>1, <2>2, <2>3 DEF Init, TypeOK
<1>3. CallOK /\ WireOK /\ WriteOK /\ ReadOK
  BY <1>1 DEF Init, CallOK, WireOK, WriteOK, ReadOK, Active, NoCall, Idle
<1>4. Silent /\ LatchOK /\ TakenOK /\ NoPhantomTouch
  BY <1>1 DEF Init, Silent, LatchOK, TakenOK, NoPhantomTouch, Count, NoSample
<1>5. QED
  BY <1>2, <1>3, <1>4 DEF Inv

\* The call the driver is in is one of the program's three.
LEMMA CallFacts ==
  ASSUME Inv, pc # "idle"
  PROVE  /\ call # NoCall /\ step \in 1 .. 7
         /\ call \in {PanelWrite, PanelRead, DisplayWrite}
         /\ call.n \in Nat \ {0} /\ call.op \in {"read", "write"}
         /\ call.op = "read" => call = PanelRead /\ call.n = 2
         /\ call = PanelWrite => call.op = "write" /\ call.addr = "panel" /\ call.n = 1
         /\ call = PanelRead => call.op = "read" /\ call.addr = "panel"
         /\ call = DisplayWrite => call.op = "write" /\ call.addr = "display"
         /\ call.op = "write" => \A k \in 1 .. call.n : call.bytes[k] \in OnTheBus
<1>1. /\ call # NoCall /\ step \in 1 .. 7
      /\ call \in {PanelWrite, PanelRead, DisplayWrite}
  BY DEF Inv, CallOK, TypeOK
<1>2. CASE call = PanelWrite
  <2>1. Commands[step] \in {"Z1", "Z2", "X", "Y", "DOWN"}
    BY <1>1 DEF Commands
  <2>2. << Commands[step] >>[1] \in OnTheBus
    BY <2>1 DEF OnTheBus
  <2>3. /\ call.op = "write" /\ call.addr = "panel" /\ call.n = 1
        /\ call.bytes = << Commands[step] >>
    BY <1>2 DEF PanelWrite
  <2>4. \A k \in 1 .. call.n : call.bytes[k] \in OnTheBus
    BY <2>2, <2>3
  <2>5. call # PanelRead /\ call # DisplayWrite
    BY <2>3 DEF PanelRead, DisplayWrite
  <2>6. QED
    BY <1>1, <2>3, <2>4, <2>5
<1>3. CASE call = PanelRead
  <2>1. call.op = "read" /\ call.addr = "panel" /\ call.n = 2
    BY <1>3 DEF PanelRead
  <2>2. call # PanelWrite /\ call # DisplayWrite
    BY <2>1 DEF PanelWrite, DisplayWrite
  <2>3. QED
    BY <1>1, <1>3, <2>1, <2>2
<1>4. CASE call = DisplayWrite
  <2>1. /\ call.op = "write" /\ call.addr = "display" /\ call.n = FrameSize
        /\ call.bytes = Frame
    BY <1>4 DEF DisplayWrite
  <2>2. \A k \in 1 .. FrameSize : Frame[k] \in OnTheBus
    BY DEF Frame, OnTheBus
  <2>3. call # PanelWrite /\ call # PanelRead
    BY <2>1 DEF PanelWrite, PanelRead
  <2>4. QED
    BY <1>1, <2>1, <2>2, <2>3, SizesAssumption
<1>5. QED
  BY <1>1, <1>2, <1>3, <1>4

\* While a transfer is on the bus the driver is in it and nothing has failed.
LEMMA WireFacts ==
  ASSUME Inv, wire # Idle
  PROVE  /\ pc \in {"start", "move"} /\ Active /\ ~Failed /\ ret = 1
         /\ "DONE" \notin S /\ wire.left > 0 /\ wire.left = call.n - Len(moved)
BY DEF Inv, TypeOK, WireOK, Active, Silent

LEMMA StartInv == Inv /\ Start => Inv'
<1>1. SUFFICES ASSUME Inv, Start PROVE Inv'
  OBVIOUS
<1> USE DEF Inv, driver, bus, client
<1>2. /\ pc = "wait"
      /\ UNCHANGED <<call, i, buf, latch, finger, step, taken, points, sample, faults>>
  BY <1>1 DEF Start
<1>0. call # NoCall /\ call.n \in Nat \ {0}
  BY <1>1, <1>2, CallFacts
<1>3. CASE Refused
  <2>1. ret' = 0 /\ pc' = "returned" /\ UNCHANGED <<S, fifo, wire, moved>>
    BY <1>1, <1>3 DEF Start
  <2>2. TypeOK' /\ CallOK' /\ WireOK' /\ Silent'
    BY <1>1, <1>2, <1>0, <1>3, <2>1
       DEF TypeOK, CallOK, WireOK, Silent, Refused, Active, Failed, PanelWrite
  <2>3. WriteOK' /\ ReadOK'
    BY <1>1, <1>2, <2>1 DEF WriteOK, ReadOK, Active
  <2>4. LatchOK' /\ TakenOK' /\ NoPhantomTouch'
    BY <1>1, <1>2, <2>1 DEF LatchOK, TakenOK, NoPhantomTouch, Active, PanelWrite
  <2>5. QED
    BY <2>2, <2>3, <2>4
<1>4. CASE ~Refused
  <2>1. /\ S' = S \ {"DONE"} /\ fifo' = << >> /\ moved' = << >>
        /\ wire' = [at |-> "start", left |-> call.n] /\ pc' = "start" /\ ret' = ret
    BY <1>1, <1>4 DEF Start
  <2>2. ret = 1 /\ ~Failed /\ ~Failed' /\ "TA" \notin S
    BY <1>1, <1>4, <2>1 DEF Silent, TypeOK, Refused, Failed, Start
  <2>3. TypeOK'
    BY <1>1, <1>2, <1>0, <2>1 DEF TypeOK
  <2>4. CallOK'
    BY <1>1, <1>2, <2>1 DEF CallOK, PanelWrite
  <2>5. WireOK'
    BY <1>1, <1>2, <1>0, <2>1, <2>2 DEF WireOK, TypeOK, Active, Idle
  <2>6. i' = 0 /\ Len(fifo') = 0 /\ Len(moved') = 0
    BY <1>1, <1>2, <2>1 DEF CallOK
  <2>7. WriteOK' /\ ReadOK'
    BY <1>1, <1>2, <1>0, <2>6 DEF WriteOK, ReadOK
  <2>8. LatchOK'
    BY <1>1, <1>2, <2>1, <2>2 DEF LatchOK, PanelWrite, PanelRead
  <2>9. Silent' /\ TakenOK' /\ NoPhantomTouch'
    BY <1>1, <1>2, <2>1, <2>2 DEF Silent, TakenOK, NoPhantomTouch
  <2>10. QED
    BY <2>3, <2>4, <2>5, <2>7, <2>8, <2>9
<1>5. QED
  BY <1>3, <1>4

LEMMA StartedInv == Inv /\ Started => Inv'
<1>1. SUFFICES ASSUME Inv, Started PROVE Inv'
  OBVIOUS
<1> USE DEF Inv, driver, bus, client
<1>2. /\ pc = "start" /\ pc' = "move" /\ "TA" \in S
      /\ UNCHANGED <<call, i, buf, ret, bus, finger, client, faults>>
  BY <1>1 DEF Started
<1>3. TypeOK' /\ CallOK' /\ WireOK' /\ Silent'
  BY <1>1, <1>2 DEF TypeOK, CallOK, WireOK, Silent, Active, Failed, PanelWrite
<1>4. WriteOK' /\ ReadOK'
  BY <1>1, <1>2 DEF WriteOK, ReadOK, Active
<1>5. LatchOK' /\ TakenOK' /\ NoPhantomTouch'
  BY <1>1, <1>2 DEF LatchOK, TakenOK, NoPhantomTouch, Active, Failed, PanelWrite, CallOK
<1>6. QED
  BY <1>3, <1>4, <1>5

LEMMA FillInv == Inv /\ Fill => Inv'
<1>1. SUFFICES ASSUME Inv, Fill PROVE Inv'
  OBVIOUS
<1> USE DEF Inv, driver, bus, client
<1>2. /\ pc = "move" /\ call.op = "write" /\ i < call.n
      /\ fifo' = Append(fifo, call.bytes[i + 1]) /\ i' = i + 1
      /\ UNCHANGED <<pc, call, buf, ret, S, wire, moved, latch, finger, client, faults>>
  BY <1>1 DEF Fill
<1>3. /\ i \in Nat /\ fifo \in Seq(OnTheBus) /\ moved \in Seq(OnTheBus)
      /\ call.n \in Nat /\ call.bytes[i + 1] \in OnTheBus /\ call # PanelRead
  BY <1>1, <1>2, CallFacts DEF TypeOK, PanelRead
<1>4. /\ fifo' \in Seq(OnTheBus) /\ Len(fifo') = Len(fifo) + 1
      /\ fifo'[Len(fifo) + 1] = call.bytes[i + 1]
      /\ \A k \in 1 .. Len(fifo) : fifo'[k] = fifo[k]
  BY <1>2, <1>3
<1>5. TypeOK'
  BY <1>1, <1>2, <1>3, <1>4 DEF TypeOK
<1>6. CallOK' /\ WireOK' /\ Silent'
  BY <1>1, <1>2 DEF CallOK, WireOK, Silent, Active, Failed, PanelWrite
<1>7. WriteOK'
  <2>1. /\ i = Len(moved) + Len(fifo)
        /\ \A k \in 1 .. Len(moved) : moved[k] = call.bytes[k]
        /\ \A k \in 1 .. Len(fifo) : fifo[k] = call.bytes[Len(moved) + k]
    BY <1>1, <1>2 DEF WriteOK, Active
  <2>2. Len(fifo) \in Nat /\ Len(moved) \in Nat
    BY <1>3
  <2>3. i' = Len(moved') + Len(fifo') /\ i' <= call'.n
    BY <1>2, <1>3, <1>4, <2>1, <2>2
  <2>4. ASSUME NEW k \in 1 .. Len(fifo') PROVE fifo'[k] = call.bytes[Len(moved) + k]
    <3>1. CASE k = Len(fifo) + 1
      BY <1>4, <2>1, <2>2, <3>1
    <3>2. CASE k \in 1 .. Len(fifo)
      BY <1>4, <2>1, <3>2
    <3>3. QED
      BY <1>4, <2>2, <3>1, <3>2
  <2>5. QED
    BY <1>2, <2>1, <2>3, <2>4 DEF WriteOK
<1>8. ReadOK'
  BY <1>2 DEF ReadOK
<1>9. LatchOK' /\ TakenOK' /\ NoPhantomTouch'
  BY <1>1, <1>2, <1>3 DEF LatchOK, TakenOK, NoPhantomTouch, Active, Failed, PanelWrite
<1>10. QED
  BY <1>5, <1>6, <1>7, <1>8, <1>9

LEMMA DrainInv == Inv /\ Drain => Inv'
<1>1. SUFFICES ASSUME Inv, Drain PROVE Inv'
  OBVIOUS
<1> USE DEF Inv, driver, bus, client
<1>2. /\ pc = "move" /\ call.op = "read" /\ i < call.n /\ fifo # << >>
      /\ buf' = [buf EXCEPT ![i + 1] = Head(fifo)] /\ fifo' = Tail(fifo) /\ i' = i + 1
      /\ UNCHANGED <<pc, call, ret, S, wire, moved, latch, finger, client, faults>>
  BY <1>1 DEF Drain
<1>3. /\ i \in Nat /\ fifo \in Seq(OnTheBus) /\ moved \in Seq(OnTheBus)
      /\ call.n = 2 /\ call = PanelRead
  BY <1>1, <1>2, CallFacts DEF TypeOK
<1>4. /\ fifo' \in Seq(OnTheBus) /\ Len(fifo) \in Nat /\ Len(fifo) > 0
      /\ Len(fifo') = Len(fifo) - 1 /\ Head(fifo) = fifo[1]
      /\ \A k \in 1 .. Len(fifo') : fifo'[k] = fifo[k + 1]
  BY <1>2, <1>3
<1>5. TypeOK'
  BY <1>1, <1>2, <1>3, <1>4 DEF TypeOK
<1>6. CallOK' /\ WireOK' /\ Silent'
  BY <1>1, <1>2 DEF CallOK, WireOK, Silent, Active, Failed, PanelWrite
<1>7. WriteOK'
  BY <1>2 DEF WriteOK
<1>8. ReadOK'
  <2>1. /\ i \in 0 .. 2 /\ DOMAIN buf = 1 .. 2
        /\ \A k \in 1 .. 2 : k > i => buf[k] = Unset
        /\ Len(moved) = i + Len(fifo) /\ Len(moved) <= 2
        /\ \A k \in 1 .. Len(moved) : moved[k] = Bytes(latch)[k]
        /\ \A k \in 1 .. i : buf[k] = moved[k]
        /\ \A k \in 1 .. Len(fifo) : fifo[k] = moved[i + k]
        /\ buf \in [1 .. 2 -> {Unset} \cup [part : {"high", "low"}, m : Measures]]
    BY <1>1, <1>2 DEF ReadOK, Active
  <2>2. Head(fifo) = moved[i + 1] /\ Len(moved) \in Nat
    BY <1>3, <1>4, <2>1
  <2>3. Head(fifo) = Bytes(latch)[i + 1] /\ i + 1 \in 1 .. 2
    BY <1>2, <1>3, <1>4, <2>1, <2>2
  <2>4. Head(fifo) \in [part : {"high", "low"}, m : Measures]
    BY <1>1, <2>3 DEF Bytes, TypeOK
  <2>5. /\ i' \in 0 .. 2 /\ DOMAIN buf' = 1 .. 2
        /\ \A k \in 1 .. 2 : k > i' => buf'[k] = Unset
        /\ buf' \in [1 .. 2 -> {Unset} \cup [part : {"high", "low"}, m : Measures]]
    <3>1. i' \in 0 .. 2
      BY <1>2, <2>3
    <3>2. \A k \in 1 .. 2 : buf'[k] = IF k = i + 1 THEN Head(fifo) ELSE buf[k]
      BY <1>2, <2>1
    <3>3. \A k \in 1 .. 2 : k > i' => buf'[k] = Unset
      BY <1>2, <2>1, <3>2
    <3>4. buf' \in [1 .. 2 -> {Unset} \cup [part : {"high", "low"}, m : Measures]]
      BY <1>2, <2>1, <2>4
    <3>5. QED
      BY <3>1, <3>3, <3>4
  <2>6. Len(moved') = i' + Len(fifo') /\ Len(moved') <= 2
    BY <1>2, <1>3, <1>4, <2>1
  <2>7. \A k \in 1 .. Len(moved') : moved'[k] = Bytes(latch)'[k]
    BY <1>2, <2>1 DEF Bytes
  <2>8. \A k \in 1 .. i' : buf'[k] = moved'[k]
    BY <1>2, <1>3, <2>1, <2>2
  <2>9. \A k \in 1 .. Len(fifo') : fifo'[k] = moved'[i' + k]
    BY <1>2, <1>3, <1>4, <2>1
  <2>10. QED
    BY <2>5, <2>6, <2>7, <2>8, <2>9 DEF ReadOK
<1>9. LatchOK' /\ TakenOK' /\ NoPhantomTouch'
  BY <1>1, <1>2 DEF LatchOK, TakenOK, NoPhantomTouch, Active, Failed, PanelWrite, PanelRead
<1>10. QED
  BY <1>5, <1>6, <1>7, <1>8, <1>9

LEMMA FinishInv == Inv /\ Finish => Inv'
<1>1. SUFFICES ASSUME Inv, Finish PROVE Inv'
  OBVIOUS
<1> USE DEF Inv, driver, bus, client
<1>2. /\ pc = "move" /\ pc' = "returned" /\ i = call.n /\ "DONE" \in S
      /\ ret' = (IF S \cap {"TA", "ERR"} # {} THEN 0 ELSE 1)
      /\ UNCHANGED <<call, i, buf, bus, finger, client, faults>>
  BY <1>1 DEF Finish
<1>3. wire = Idle /\ "TA" \notin S /\ ret = 1
  BY <1>1, <1>2 DEF WireOK, Idle, Silent, TypeOK
<1>4. (ret' = 1 /\ "ERR" \notin S) \/ (ret' = 0 /\ "ERR" \in S)
  BY <1>2, <1>3
<1>5. TypeOK' /\ CallOK' /\ WireOK' /\ Silent'
  BY <1>1, <1>2, <1>3, <1>4
     DEF TypeOK, CallOK, WireOK, Silent, Refused, Active, Failed, PanelWrite
<1>6. WriteOK' /\ ReadOK'
  BY <1>1, <1>2 DEF WriteOK, ReadOK, Active
<1>7. LatchOK'
  BY <1>1, <1>2, <1>4 DEF LatchOK, Active, Failed, PanelWrite
<1>8. TakenOK' /\ NoPhantomTouch'
  BY <1>1, <1>2, <1>3, <1>4 DEF TakenOK, NoPhantomTouch
<1>9. QED
  BY <1>5, <1>6, <1>7, <1>8

LEMMA SendCommandInv == Inv /\ SendCommand => Inv'
<1>1. SUFFICES ASSUME Inv, SendCommand PROVE Inv'
  OBVIOUS
<1> USE DEF Inv, driver, bus, client
<1>2. /\ pc = "idle" /\ pc' = "wait" /\ step <= 7
      /\ call' = PanelWrite /\ i' = 0 /\ buf' = << >> /\ sample' = NoSample
      /\ UNCHANGED <<ret, bus, finger, step, taken, points, faults>>
  BY <1>1 DEF SendCommand, Calls, PanelWrite, Commands
<1>3. call'.op = "write" /\ PanelWrite' = PanelWrite /\ call' # NoCall
  BY <1>2 DEF PanelWrite, NoCall
<1>4. TypeOK'
  BY <1>1, <1>2 DEF TypeOK
<1>5. CallOK'
  BY <1>1, <1>2, <1>3 DEF CallOK
<1>6. WireOK' /\ WriteOK' /\ ReadOK' /\ Silent'
  BY <1>1, <1>2, <1>3 DEF WireOK, WriteOK, ReadOK, Silent, Active, Failed, Refused, Idle
<1>7. LatchOK'
  BY <1>1, <1>2, <1>3 DEF LatchOK, Active, PanelRead
<1>8. TakenOK' /\ NoPhantomTouch'
  BY <1>1, <1>2 DEF TakenOK, NoPhantomTouch, NoSample, Failed
<1>9. QED
  BY <1>4, <1>5, <1>6, <1>7, <1>8

LEMMA ReadBackInv == Inv /\ ReadBack => Inv'
<1>1. SUFFICES ASSUME Inv, ReadBack PROVE Inv'
  OBVIOUS
<1> USE DEF Inv, driver, bus, client
<1>2. /\ pc = "returned" /\ pc' = "wait" /\ call.op = "write" /\ call.addr = "panel"
      /\ call' = PanelRead /\ i' = 0 /\ buf' = [k \in 1 .. 2 |-> Unset]
      /\ UNCHANGED <<ret, bus, finger, client, faults>>
  BY <1>1 DEF ReadBack, Calls, PanelRead
<1>3. call'.op = "read" /\ call' # NoCall /\ call' # PanelWrite' /\ call = PanelWrite /\ step <= 7
  BY <1>1, <1>2, CallFacts DEF PanelRead, PanelWrite, NoCall, DisplayWrite
<1>4. TypeOK'
  BY <1>1, <1>2 DEF TypeOK
<1>5. CallOK'
  BY <1>1, <1>2, <1>3 DEF CallOK
<1>6. WireOK' /\ WriteOK' /\ Silent'
  BY <1>1, <1>2, <1>3 DEF WireOK, WriteOK, Silent, Active, Failed, Refused, Idle
<1>7. ReadOK'
  BY <1>2 DEF ReadOK, Active
<1>8. LatchOK'
  <2>1. Active /\ wire = Idle /\ ~Failed => Len(moved) = 1
    BY <1>1, <1>2, <1>3 DEF WireOK, PanelWrite
  <2>2. step \in 3 .. 6 /\ ret = 1 /\ ~Failed => TrueReading(latch)
    BY <1>1, <1>2, <1>3, <2>1 DEF LatchOK, WireOK, Active
  <2>3. QED
    BY <1>2, <1>3, <2>2 DEF LatchOK, Active, Failed, TrueReading
<1>9. TakenOK' /\ NoPhantomTouch'
  BY <1>1, <1>2, <1>3 DEF TakenOK, NoPhantomTouch, Failed
<1>10. QED
  BY <1>4, <1>5, <1>6, <1>7, <1>8, <1>9

LEMMA TakeInv == Inv /\ Take => Inv'
<1>1. SUFFICES ASSUME Inv, Take PROVE Inv'
  OBVIOUS
<1> USE DEF Inv, driver, bus, client
<1>2. PICK m \in Value : taken' = IF Commands[step] \in {"X", "Y"} THEN Append(taken, m) ELSE taken
  BY <1>1 DEF Take
<1>3. /\ pc = "returned" /\ pc' = "idle" /\ call.op = "read" /\ step' = step + 1
      /\ call' = NoCall /\ buf' = << >> /\ i' = 0
      /\ UNCHANGED <<ret, bus, finger, points, sample, faults>>
  BY <1>1 DEF Take
<1>4. step \in 1 .. 7 /\ call = PanelRead /\ call.n = 2 /\ taken \in Seq(Measures)
  BY <1>1, <1>3, CallFacts DEF TypeOK
<1>5. buf \in [1 .. 2 -> {Unset} \cup [part : {"high", "low"}, m : Measures]]
  BY <1>1, <1>3 DEF ReadOK
<1>6. m \in Measures
  <2>1. CASE Unset \in {buf[1], buf[2]}
    <3>1. PICK v \in Readings : m = [v |-> v, down |-> FALSE]
      BY <1>2, <2>1 DEF Value
    <3>2. QED
      BY <3>1 DEF Measures
  <2>2. CASE Unset \notin {buf[1], buf[2]}
    <3>1. buf[1] \in [part : {"high", "low"}, m : Measures] /\ m = buf[1].m
      BY <1>2, <1>5, <2>2 DEF Value
    <3>2. QED
      BY <3>1
  <2>3. QED
    BY <2>1, <2>2
<1>7. /\ Commands[step] \in {"X", "Y"} <=> step \in 3 .. 6
      /\ taken' = IF step \in 3 .. 6 THEN Append(taken, m) ELSE taken
  BY <1>2, <1>4 DEF Commands
<1>8. TypeOK'
  <2>1. taken' \in Seq(Measures)
    BY <1>4, <1>6, <1>7
  <2>2. step' \in 1 .. 8
    BY <1>3, <1>4
  <2>3. QED
    BY <1>1, <1>3, <2>1, <2>2 DEF TypeOK
<1>9. call'.op # "write" /\ call'.op # "read"
  BY <1>3 DEF NoCall
<1>10. CallOK' /\ WireOK' /\ WriteOK' /\ ReadOK' /\ Silent'
  BY <1>1, <1>3, <1>9 DEF CallOK, WireOK, WriteOK, ReadOK, Silent, Active, Failed, Refused, Idle
<1>11. LatchOK'
  BY <1>3, <1>9 DEF LatchOK, PanelRead, PanelWrite
<1>12. Len(taken') = Count(step')
  <2>1. Len(taken) = Count(step)
    BY <1>1 DEF TakenOK
  <2>2. CASE step \in 3 .. 6
    BY <1>3, <1>4, <1>7, <2>1, <2>2 DEF Count
  <2>3. CASE step \notin 3 .. 6
    <3>1. taken' = taken /\ step \in {1, 2, 7}
      BY <1>4, <1>7, <2>3
    <3>2. Count(step') = Count(step)
      BY <1>3, <3>1 DEF Count
    <3>3. QED
      BY <2>1, <3>1, <3>2
  <2>4. QED
    BY <2>2, <2>3
\* What a read that returned 1 hands over, if the clock was never held.
<1>13. ret = 1 /\ "CLKT" \notin S /\ step \in 3 .. 6 => TrueReading(m)
  <2>1. SUFFICES ASSUME ret = 1, "CLKT" \notin S, step \in 3 .. 6 PROVE TrueReading(m)
    OBVIOUS
  <2>2. Active /\ wire = Idle /\ ~Failed /\ i = 2 /\ Len(moved) = 2
    BY <1>1, <1>3, <1>4, <2>1 DEF WireOK, Active, Failed
  <2>3. buf[1] = Bytes(latch)[1] /\ buf[2] = Bytes(latch)[2]
    BY <1>1, <1>3, <2>2 DEF ReadOK
  <2>4. Unset \notin {buf[1], buf[2]} /\ buf[1].m = latch
    BY <2>3 DEF Bytes, Unset
  <2>5. m = latch
    BY <1>2, <2>4 DEF Value
  <2>6. QED
    BY <1>1, <1>4, <2>1, <2>2, <2>5 DEF LatchOK
<1>14. TakenOK'
  <2>1. CASE ret = 0
    BY <1>3, <1>12, <2>1 DEF TakenOK
  <2>2. CASE ret = 1 /\ "CLKT" \in S
    <3>1. CASE step' <= 7
      BY <1>3, <1>12, <2>2, <3>1 DEF TakenOK, Failed
    <3>2. CASE step = 7
      BY <1>1, <1>3, <1>7, <1>12, <3>2, <2>2 DEF TakenOK
    <3>3. QED
      BY <1>3, <1>4, <3>1, <3>2
  <2>3. CASE ret = 1 /\ "CLKT" \notin S
    <3>1. ~Failed
      BY <1>1, <1>3, <2>3 DEF WireOK, Failed
    <3>2. \A k \in 1 .. Len(taken) : TrueReading(taken[k])
      BY <1>1, <1>3, <2>3, <3>1 DEF TakenOK
    <3>3. \A k \in 1 .. Len(taken') : TrueReading(taken'[k])
      BY <1>4, <1>6, <1>7, <1>13, <2>3, <3>2
    <3>4. QED
      BY <1>12, <3>3 DEF TakenOK, TrueReading
  <2>4. QED
    BY <1>1, <2>1, <2>2, <2>3 DEF TypeOK
<1>15. NoPhantomTouch'
  BY <1>1, <1>3 DEF NoPhantomTouch
<1>16. QED
  BY <1>8, <1>10, <1>11, <1>14, <1>15

LEMMA SampledInv == Inv /\ Sampled => Inv'
<1>1. SUFFICES ASSUME Inv, Sampled PROVE Inv'
  OBVIOUS
<1> USE DEF Inv, driver, bus, client
<1> DEFINE Shows == Touched(taken) /\ (points + 1) % ShowEvery = 0
<1>2. /\ pc = "idle" /\ step > 7 /\ step' = 1 /\ taken' = << >>
      /\ sample' = [touched |-> Touched(taken), taken |-> taken]
      /\ points' = IF Touched(taken) THEN (points + 1) % ShowEvery ELSE points
      /\ UNCHANGED <<ret, bus, finger, faults>>
  BY <1>1 DEF Sampled, Commands
<1>3. \/ pc' = "wait" /\ call' = DisplayWrite /\ i' = 0 /\ buf' = << >>
      \/ UNCHANGED <<pc, call, i, buf>>
  BY <1>1 DEF Sampled, Calls, DisplayWrite
<1>4. call = NoCall
  BY <1>1, <1>2 DEF CallOK
<1>5. DisplayWrite.op = "write" /\ DisplayWrite # NoCall /\ NoCall.op = "none"
  BY DEF DisplayWrite, NoCall
<1>6. points' \in Nat
  BY <1>1, <1>2, SizesAssumption DEF TypeOK
<1>7. TypeOK'
  BY <1>1, <1>2, <1>3, <1>6 DEF TypeOK
<1>8. CallOK'
  BY <1>1, <1>2, <1>3, <1>4, <1>5 DEF CallOK, DisplayWrite
<1>9. WireOK' /\ Silent'
  BY <1>1, <1>2, <1>3, <1>5 DEF WireOK, Silent, Active, Failed, Refused, Idle
<1>10. WriteOK' /\ ReadOK'
  BY <1>1, <1>2, <1>3, <1>4, <1>5 DEF WriteOK, ReadOK, Active
<1>11. LatchOK' /\ TakenOK'
  BY <1>2 DEF LatchOK, TakenOK, Count
<1>12. NoPhantomTouch'
  <2>1. SUFFICES ASSUME Touched(taken), ret = 1, NEW k \in 1 .. 2 PROVE taken[k].down
    BY <1>2 DEF NoPhantomTouch
  <2>2. TypeOK /\ TakenOK
    BY <1>1
  <2>3. step = 8 /\ Len(taken) = 4
    <3>1. step = 8
      BY <1>2, <2>2 DEF TypeOK
    <3>2. Count(8) = 4
      BY DEF Count
    <3>3. QED
      BY <2>2, <3>1, <3>2 DEF TakenOK
  <2>4. k \in 1 .. Len(taken) /\ ~(ret = 0) /\ ~(step <= 7)
    BY <1>2, <2>1, <2>3
  <2>5. TrueReading(taken[k])
    BY <2>2, <2>4 DEF TakenOK
  <2>6. QED
    BY <2>1, <2>5 DEF Touched, TrueReading
<1>13. QED
  BY <1>7, <1>8, <1>9, <1>10, <1>11, <1>12

LEMMA ShownInv == Inv /\ Shown => Inv'
<1>1. SUFFICES ASSUME Inv, Shown PROVE Inv'
  OBVIOUS
<1> USE DEF Inv, driver, bus, client
<1>2. /\ pc = "returned" /\ pc' = "idle" /\ call' = NoCall /\ i' = 0
      /\ UNCHANGED <<buf, ret, bus, finger, client, faults>>
  BY <1>1 DEF Shown
<1>3. call'.op = "none" /\ call' # PanelRead' /\ call' # PanelWrite'
  BY <1>2 DEF NoCall, PanelRead, PanelWrite
<1>4. TypeOK' /\ CallOK'
  BY <1>1, <1>2 DEF TypeOK, CallOK
<1>5. WireOK' /\ WriteOK' /\ ReadOK' /\ Silent'
  BY <1>1, <1>2, <1>3 DEF WireOK, WriteOK, ReadOK, Silent, Active, Failed, Refused, Idle
<1>6. LatchOK' /\ TakenOK' /\ NoPhantomTouch'
  BY <1>1, <1>2, <1>3 DEF LatchOK, TakenOK, NoPhantomTouch, Failed
<1>7. QED
  BY <1>4, <1>5, <1>6

LEMMA BeginInv == Inv /\ Begin => Inv'
<1>1. SUFFICES ASSUME Inv, Begin PROVE Inv'
  OBVIOUS
<1> USE DEF Inv, driver, bus, client
<1>2. /\ wire.at = "start" /\ S' = S \cup {"TA"} /\ wire' = [wire EXCEPT !.at = "address"]
      /\ UNCHANGED <<driver, fifo, moved, latch, finger, client, faults>>
  BY <1>1 DEF Begin
<1>3. wire # Idle /\ wire' # Idle /\ wire'.at = "address" /\ wire'.left = wire.left
  BY <1>1, <1>2 DEF TypeOK, Idle
<1>4. TypeOK'
  BY <1>1, <1>2 DEF TypeOK
<1>5. CallOK' /\ Silent' /\ WriteOK' /\ ReadOK'
  BY <1>1, <1>2 DEF CallOK, Silent, Refused, WriteOK, ReadOK, Active, PanelWrite
<1>6. WireOK'
  BY <1>1, <1>2, <1>3, WireFacts DEF WireOK, Active, Failed
<1>7. LatchOK' /\ TakenOK' /\ NoPhantomTouch'
  BY <1>1, <1>2 DEF LatchOK, TakenOK, NoPhantomTouch, Active, Failed, PanelWrite
<1>8. QED
  BY <1>4, <1>5, <1>6, <1>7

LEMMA AcknowledgeInv == Inv /\ Acknowledge => Inv'
<1>1. SUFFICES ASSUME Inv, Acknowledge PROVE Inv'
  OBVIOUS
<1> USE DEF Inv, driver, bus, client
<1>2. /\ wire.at = "address" /\ wire' = [wire EXCEPT !.at = "data"]
      /\ UNCHANGED <<driver, S, fifo, moved, latch, finger, client, faults>>
  BY <1>1 DEF Acknowledge
<1>3. wire # Idle /\ wire' # Idle /\ wire'.at = "data" /\ wire'.left = wire.left
  BY <1>1, <1>2 DEF TypeOK, Idle
<1>4. TypeOK'
  BY <1>1, <1>2 DEF TypeOK
<1>5. CallOK' /\ Silent' /\ WriteOK' /\ ReadOK'
  BY <1>1, <1>2 DEF CallOK, Silent, Refused, WriteOK, ReadOK, Active, PanelWrite
<1>6. WireOK'
  BY <1>1, <1>2, <1>3, WireFacts DEF WireOK, Active, Failed
<1>7. LatchOK' /\ TakenOK' /\ NoPhantomTouch'
  BY <1>1, <1>2 DEF LatchOK, TakenOK, NoPhantomTouch, Active, Failed, PanelWrite
<1>8. QED
  BY <1>4, <1>5, <1>6, <1>7

LEMMA MoveInv == Inv /\ Move => Inv'
<1>1. SUFFICES ASSUME Inv, Move PROVE Inv'
  OBVIOUS
<1> USE DEF Inv, driver, bus, client
<1>2. finger' \in Fingers /\ UNCHANGED <<driver, bus, client, faults>>
  BY <1>1 DEF Move
<1>3. TypeOK' /\ CallOK' /\ WireOK' /\ Silent'
  BY <1>1, <1>2 DEF TypeOK, CallOK, WireOK, Silent, Refused, Active, Failed, PanelWrite
<1>4. WriteOK' /\ ReadOK'
  BY <1>1, <1>2 DEF WriteOK, ReadOK, Active
<1>5. LatchOK' /\ TakenOK' /\ NoPhantomTouch'
  BY <1>1, <1>2 DEF LatchOK, TakenOK, NoPhantomTouch, Active, Failed, PanelWrite
<1>6. QED
  BY <1>3, <1>4, <1>5

LEMMA FailInv == Inv /\ Fail => Inv'
<1>1. SUFFICES ASSUME Inv, Fail PROVE Inv'
  OBVIOUS
<1> USE DEF Inv, driver, bus, client
<1>2. /\ wire.at \in {"address", "data"} /\ wire' = Idle /\ faults' = faults + 1
      /\ \/ S' = (S \ {"TA"}) \cup {"DONE", "ERR"}
         \/ S' = (S \ {"TA"}) \cup {"DONE", "CLKT"}
      /\ UNCHANGED <<driver, fifo, moved, latch, finger, client>>
  BY <1>1 DEF Fail
<1>3. wire # Idle
  BY <1>2 DEF Idle
<1>4. pc \in {"start", "move"} /\ ~Failed /\ Failed' /\ ret = 1 /\ "TA" \notin S'
  BY <1>1, <1>2, <1>3, WireFacts DEF Failed
<1>5. TypeOK'
  <2>0. S \in SUBSET {"TA", "DONE", "ERR", "CLKT"} /\ faults \in Nat
    BY <1>1 DEF TypeOK
  <2>1. S' \in SUBSET {"TA", "DONE", "ERR", "CLKT"}
    BY <1>2, <2>0
  <2>2. wire' \in [at : {"none", "start", "address", "data"}, left : Nat]
    BY <1>2 DEF Idle
  <2>3. QED
    BY <1>1, <1>2, <2>0, <2>1, <2>2 DEF TypeOK
<1>6. CallOK' /\ Silent' /\ WriteOK' /\ ReadOK'
  BY <1>1, <1>2, <1>4 DEF CallOK, Silent, WriteOK, ReadOK, Active, PanelWrite
<1>7. WireOK'
  BY <1>2, <1>4 DEF WireOK, Idle
<1>8. LatchOK' /\ TakenOK' /\ NoPhantomTouch'
  BY <1>1, <1>2, <1>4 DEF LatchOK, TakenOK, NoPhantomTouch, Active, PanelWrite
<1>9. QED
  BY <1>5, <1>6, <1>7, <1>8

\* One byte crosses the bus.
LEMMA MovedFacts ==
  ASSUME Inv, wire.at = "data", NEW byte \in OnTheBus, Moved(byte)
  PROVE  /\ wire # Idle /\ moved' \in Seq(OnTheBus) /\ Len(moved) \in Nat
         /\ Len(moved') = Len(moved) + 1 /\ Len(moved) < call.n
         /\ moved'[Len(moved) + 1] = byte
         /\ \A k \in 1 .. Len(moved) : moved'[k] = moved[k]
         /\ S' \in SUBSET {"TA", "DONE", "ERR", "CLKT"}
         /\ S' \cap {"CLKT", "ERR"} = {}
         /\ wire' \in [at : {"none", "start", "address", "data"}, left : Nat]
         /\ \/ /\ wire' = Idle /\ Len(moved') = call.n
               /\ "TA" \notin S' /\ "DONE" \in S'
            \/ /\ wire' # Idle /\ wire'.at = "data" /\ wire'.left > 0
               /\ wire'.left = call.n - Len(moved')
               /\ "TA" \in S' /\ "DONE" \notin S'
<1> USE DEF Inv
<1>1. wire # Idle
  BY DEF Idle
<1>2. /\ ~Failed /\ "DONE" \notin S /\ "TA" \in S
      /\ wire.left > 0 /\ wire.left = call.n - Len(moved)
      /\ call.n \in Nat /\ call.n > 0
  BY <1>1, WireFacts, CallFacts DEF WireOK
<1>3. /\ moved \in Seq(OnTheBus) /\ S \in SUBSET {"TA", "DONE", "ERR", "CLKT"}
      /\ wire \in [at : {"none", "start", "address", "data"}, left : Nat]
  BY DEF TypeOK
<1>4. /\ moved' \in Seq(OnTheBus) /\ Len(moved) \in Nat
      /\ Len(moved') = Len(moved) + 1
      /\ moved'[Len(moved) + 1] = byte
      /\ \A k \in 1 .. Len(moved) : moved'[k] = moved[k]
  BY <1>3 DEF Moved
<1>5. CASE wire.left = 1
  <2>1. wire' = Idle /\ S' = (S \ {"TA"}) \cup {"DONE"}
    BY <1>5 DEF Moved
  <2>2. wire' \in [at : {"none", "start", "address", "data"}, left : Nat]
    BY <2>1 DEF Idle
  <2>3. S' \in SUBSET {"TA", "DONE", "ERR", "CLKT"} /\ S' \cap {"CLKT", "ERR"} = {}
    BY <1>2, <1>3, <2>1 DEF Failed
  <2>4. Len(moved') = call.n /\ Len(moved) < call.n
    BY <1>2, <1>4, <1>5
  <2>5. QED
    BY <1>1, <1>4, <2>1, <2>2, <2>3, <2>4
<1>6. CASE wire.left # 1
  <2>1. wire' = [wire EXCEPT !.left = @ - 1] /\ S' = S
    BY <1>6 DEF Moved
  <2>2. wire'.at = "data" /\ wire'.left = wire.left - 1
    BY <1>3, <2>1
  <2>3. wire' # Idle
    BY <2>2 DEF Idle
  <2>4. wire'.left \in Nat /\ wire'.left > 0
    BY <1>3, <1>2, <1>6, <2>2
  <2>5. wire' \in [at : {"none", "start", "address", "data"}, left : Nat]
    BY <1>3, <2>1, <2>4
  <2>6. wire'.left = call.n - Len(moved') /\ Len(moved) < call.n
    BY <1>2, <1>3, <1>4, <2>2
  <2>7. S' \cap {"CLKT", "ERR"} = {}
    BY <1>2, <2>1 DEF Failed
  <2>8. QED
    BY <1>1, <1>2, <1>3, <1>4, <2>1, <2>2, <2>3, <2>4, <2>5, <2>6, <2>7
<1>7. QED
  BY <1>5, <1>6

LEMMA SendByteInv == Inv /\ SendByte => Inv'
<1>1. SUFFICES ASSUME Inv, SendByte PROVE Inv'
  OBVIOUS
<1> USE DEF Inv, driver, bus, client
<1>2. /\ wire.at = "data" /\ call.op = "write" /\ fifo # << >>
      /\ Moved(Head(fifo)) /\ fifo' = Tail(fifo)
      /\ latch' = IF call.addr = "panel"
                  THEN [v |-> Measured(Head(fifo)), down |-> finger # Up] ELSE latch
      /\ UNCHANGED <<driver, finger, client, faults>>
  BY <1>1 DEF SendByte
<1>3. /\ fifo \in Seq(OnTheBus) /\ Head(fifo) \in OnTheBus /\ fifo' \in Seq(OnTheBus)
      /\ Len(fifo) \in Nat /\ Len(fifo) > 0 /\ Len(fifo') = Len(fifo) - 1
      /\ Head(fifo) = fifo[1]
      /\ \A k \in 1 .. Len(fifo') : fifo'[k] = fifo[k + 1]
  <2>1. fifo \in Seq(OnTheBus)
    BY <1>1 DEF TypeOK
  <2>2. QED
    BY <1>2, <2>1
<1>4. /\ wire # Idle /\ moved' \in Seq(OnTheBus) /\ Len(moved) \in Nat
      /\ Len(moved') = Len(moved) + 1 /\ Len(moved) < call.n
      /\ moved'[Len(moved) + 1] = Head(fifo)
      /\ \A k \in 1 .. Len(moved) : moved'[k] = moved[k]
      /\ S' \in SUBSET {"TA", "DONE", "ERR", "CLKT"}
      /\ S' \cap {"CLKT", "ERR"} = {}
      /\ wire' \in [at : {"none", "start", "address", "data"}, left : Nat]
      /\ \/ /\ wire' = Idle /\ Len(moved') = call.n
            /\ "TA" \notin S' /\ "DONE" \in S'
         \/ /\ wire' # Idle /\ wire'.at = "data" /\ wire'.left > 0
            /\ wire'.left = call.n - Len(moved')
            /\ "TA" \in S' /\ "DONE" \notin S'
  BY <1>1, <1>2, <1>3, MovedFacts
<1>5. pc \in {"start", "move"} /\ Active /\ ret = 1 /\ ~Failed
  BY <1>1, <1>4, WireFacts
<1>6. /\ call \in {PanelWrite, DisplayWrite} /\ call # PanelRead
      /\ call.addr = "panel" => call = PanelWrite /\ call.n = 1
      /\ call = PanelWrite => call.addr = "panel" /\ call.n = 1
      /\ call.n \in Nat
  BY <1>1, <1>2, <1>5, CallFacts
<1>7. /\ i = Len(moved) + Len(fifo) /\ i <= call.n /\ i \in Nat
      /\ \A k \in 1 .. Len(moved) : moved[k] = call.bytes[k]
      /\ \A k \in 1 .. Len(fifo) : fifo[k] = call.bytes[Len(moved) + k]
  BY <1>1, <1>2, <1>5 DEF WriteOK, TypeOK
<1>8. finger \in Fingers /\ {finger.x, finger.y} \subseteq Readings
  BY <1>1 DEF TypeOK, Fingers, Up, Readings
<1>9. latch' \in Measures
  <2>1. Measured(Head(fifo)) \in Readings \cup {0}
    BY <1>8 DEF Measured
  <2>2. [v |-> Measured(Head(fifo)), down |-> finger # Up] \in Measures
    BY <2>1 DEF Measures
  <2>3. QED
    BY <1>1, <1>2, <2>2 DEF TypeOK
<1>10. TypeOK'
  BY <1>1, <1>2, <1>3, <1>4, <1>9 DEF TypeOK
<1>11. CallOK'
  BY <1>1, <1>2 DEF CallOK, PanelWrite
<1>12. WireOK'
  BY <1>2, <1>4, <1>5 DEF WireOK, Active, Failed, Idle
<1>13. WriteOK'
  <2>1. i' = Len(moved') + Len(fifo') /\ i' <= call'.n
    BY <1>2, <1>3, <1>4, <1>7
  <2>2. ASSUME NEW k \in 1 .. Len(moved') PROVE moved'[k] = call.bytes[k]
    <3>1. CASE k = Len(moved) + 1
      BY <1>3, <1>4, <1>7, <3>1
    <3>2. CASE k \in 1 .. Len(moved)
      BY <1>4, <1>7, <3>2
    <3>3. QED
      BY <1>4, <3>1, <3>2
  <2>3. ASSUME NEW k \in 1 .. Len(fifo') PROVE fifo'[k] = call.bytes[Len(moved') + k]
    <3>1. k + 1 \in 1 .. Len(fifo) /\ fifo'[k] = fifo[k + 1]
      BY <1>3
    <3>2. Len(moved) + (k + 1) = Len(moved') + k
      BY <1>3, <1>4
    <3>3. QED
      BY <1>7, <3>1, <3>2
  <2>4. QED
    BY <1>2, <2>1, <2>2, <2>3 DEF WriteOK
<1>14. ReadOK' /\ Silent'
  BY <1>2, <1>5 DEF ReadOK, Silent
<1>15. LatchOK'
  <2>1. SUFFICES ASSUME step \in 3 .. 6, call = PanelWrite PROVE TrueReading(latch')
    BY <1>2, <1>5, <1>6 DEF LatchOK, PanelRead, PanelWrite, TrueReading
  <2>2. Head(fifo) = call.bytes[1]
    BY <1>3, <1>4, <1>6, <1>7, <2>1
  <2>3. Head(fifo) \in {"X", "Y"}
    BY <2>1, <2>2 DEF PanelWrite, Commands
  <2>4. /\ latch'.v \in {finger.x, finger.y}
        /\ latch'.down = (finger # Up)
    BY <1>2, <1>6, <2>1, <2>3 DEF Measured
  <2>5. CASE finger = Up
    BY <2>4, <2>5 DEF Up, TrueReading
  <2>6. CASE finger # Up
    BY <2>4, <2>6 DEF TrueReading
  <2>7. QED
    BY <2>5, <2>6
<1>16. TakenOK' /\ NoPhantomTouch'
  BY <1>1, <1>2, <1>5 DEF TakenOK, NoPhantomTouch
<1>17. QED
  BY <1>10, <1>11, <1>12, <1>13, <1>14, <1>15, <1>16

LEMMA ReceiveByteInv == Inv /\ ReceiveByte => Inv'
<1>1. SUFFICES ASSUME Inv, ReceiveByte PROVE Inv'
  OBVIOUS
<1> USE DEF Inv, driver, bus, client
<1> DEFINE byte == Bytes(latch)[Len(moved) + 1]
<1>2. /\ wire.at = "data" /\ call.op = "read"
      /\ Moved(byte) /\ fifo' = Append(fifo, byte)
      /\ UNCHANGED <<driver, latch, finger, client, faults>>
  BY <1>1 DEF ReceiveByte
<1>3. wire # Idle
  BY <1>2 DEF Idle
<1>4. /\ pc \in {"start", "move"} /\ Active /\ ret = 1 /\ ~Failed
      /\ wire.left > 0 /\ wire.left = call.n - Len(moved)
  BY <1>1, <1>3, WireFacts
<1>5. call = PanelRead /\ call.n = 2
  BY <1>1, <1>2, <1>4, CallFacts
<1>6. /\ fifo \in Seq(OnTheBus) /\ moved \in Seq(OnTheBus) /\ i \in Nat
      /\ latch \in Measures /\ wire.left \in Nat
  BY <1>1 DEF TypeOK
<1>7. Len(moved) \in 0 .. 1 /\ Len(fifo) \in Nat
  <2> HIDE DEF byte
  <2>1. Len(moved) \in Nat /\ Len(fifo) \in Nat
    BY <1>6
  <2>2. wire.left = 2 - Len(moved) /\ wire.left > 0
    BY <1>4, <1>5
  <2>3. Len(moved) < 2
    BY <2>1, <2>2
  <2>4. \A n \in Nat : n < 2 => n \in 0 .. 1
    OBVIOUS
  <2>5. QED
    BY <2>1, <2>3, <2>4
<1>8. byte \in OnTheBus
  <2>1. byte \in [part : {"high", "low"}, m : Measures]
    <3>1. CASE Len(moved) = 0
      BY <1>6, <3>1 DEF Bytes
    <3>2. CASE Len(moved) = 1
      BY <1>6, <3>2 DEF Bytes
    <3>3. QED
      BY <1>7, <3>1, <3>2
  <2>2. QED
    BY <2>1 DEF OnTheBus
<1>9. /\ moved' \in Seq(OnTheBus)
      /\ Len(moved') = Len(moved) + 1 /\ Len(moved) < call.n
      /\ moved'[Len(moved) + 1] = byte
      /\ \A k \in 1 .. Len(moved) : moved'[k] = moved[k]
      /\ S' \in SUBSET {"TA", "DONE", "ERR", "CLKT"}
      /\ S' \cap {"CLKT", "ERR"} = {}
      /\ wire' \in [at : {"none", "start", "address", "data"}, left : Nat]
      /\ \/ /\ wire' = Idle /\ Len(moved') = call.n
            /\ "TA" \notin S' /\ "DONE" \in S'
         \/ /\ wire' # Idle /\ wire'.at = "data" /\ wire'.left > 0
            /\ wire'.left = call.n - Len(moved')
            /\ "TA" \in S' /\ "DONE" \notin S'
  <2> HIDE DEF byte
  <2>1. QED
    BY <1>1, <1>2, <1>8, MovedFacts
<1>10. /\ fifo' \in Seq(OnTheBus) /\ Len(fifo') = Len(fifo) + 1
       /\ fifo'[Len(fifo) + 1] = byte
       /\ \A k \in 1 .. Len(fifo) : fifo'[k] = fifo[k]
  <2> HIDE DEF byte
  <2>1. QED
    BY <1>2, <1>6, <1>8
<1>11. TypeOK'
  BY <1>1, <1>2, <1>9, <1>10 DEF TypeOK
<1>12. CallOK'
  BY <1>1, <1>2 DEF CallOK, PanelWrite
<1>13. WireOK'
  BY <1>2, <1>4, <1>9 DEF WireOK, Active, Failed, Idle
<1>14. WriteOK' /\ Silent'
  BY <1>2, <1>4 DEF WriteOK, Silent
<1>15. ReadOK'
  <2>1. /\ i \in 0 .. 2 /\ DOMAIN buf = 1 .. 2
        /\ \A k \in 1 .. 2 : k > i => buf[k] = Unset
        /\ Len(moved) = i + Len(fifo)
        /\ \A k \in 1 .. Len(moved) : moved[k] = Bytes(latch)[k]
        /\ \A k \in 1 .. i : buf[k] = moved[k]
        /\ \A k \in 1 .. Len(fifo) : fifo[k] = moved[i + k]
        /\ buf \in [1 .. 2 -> {Unset} \cup [part : {"high", "low"}, m : Measures]]
    BY <1>1, <1>2, <1>4 DEF ReadOK
  <2>2. Len(moved') = i + Len(fifo') /\ Len(moved') <= 2
    BY <1>5, <1>6, <1>7, <1>9, <1>10, <2>1
  <2>3. \A k \in 1 .. Len(moved') : moved'[k] = Bytes(latch)[k]
    BY <1>7, <1>9, <2>1
  <2>4. \A k \in 1 .. i : buf[k] = moved'[k]
    BY <1>6, <1>7, <1>9, <2>1
  <2>5. \A k \in 1 .. Len(fifo') : fifo'[k] = moved'[i + k]
    <3> HIDE DEF byte
    <3>1. ASSUME NEW k \in 1 .. Len(fifo') PROVE fifo'[k] = moved'[i + k]
      <4>1. CASE k = Len(fifo) + 1
        BY <1>6, <1>7, <1>9, <1>10, <2>1, <4>1
      <4>2. CASE k \in 1 .. Len(fifo)
        BY <1>6, <1>7, <1>9, <1>10, <2>1, <4>2
      <4>3. QED
        BY <1>7, <1>10, <4>1, <4>2
    <3>2. QED
      BY <3>1
  <2>6. Bytes(latch)' = Bytes(latch)
    BY <1>2 DEF Bytes
  <2>7. QED
    BY <1>2, <2>1, <2>2, <2>3, <2>4, <2>5, <2>6 DEF ReadOK
<1>16. LatchOK'
  BY <1>1, <1>2, <1>4, <1>5, <1>9 DEF LatchOK, Active, PanelRead, PanelWrite, TrueReading
<1>17. TakenOK' /\ NoPhantomTouch'
  BY <1>1, <1>2, <1>4 DEF TakenOK, NoPhantomTouch
<1>18. QED
  BY <1>11, <1>12, <1>13, <1>14, <1>15, <1>16, <1>17

\* A step of the driver, of the bus or of the finger keeps the invariant.
LEMMA StepInv == Inv /\ [Next]_vars => Inv'
<1>1. SUFFICES ASSUME Inv, [Next]_vars PROVE Inv'
  OBVIOUS
<1>2. CASE Program
  BY <1>1, <1>2, StartInv, StartedInv, FillInv, DrainInv, FinishInv, SendCommandInv,
     ReadBackInv, TakeInv, SampledInv, ShownInv DEF Program
<1>3. CASE Bus
  BY <1>1, <1>3, BeginInv, AcknowledgeInv, SendByteInv, ReceiveByteInv DEF Bus
<1>4. CASE Fail \/ Move
  BY <1>1, <1>4, FailInv, MoveInv
<1>5. CASE UNCHANGED vars
  <2>1. TypeOK' /\ CallOK' /\ WireOK' /\ Silent'
    BY <1>1, <1>5 DEF vars, driver, bus, client, Inv, TypeOK, CallOK, WireOK, Silent,
                      Refused, Active, Failed, PanelWrite
  <2>2. WriteOK' /\ ReadOK'
    BY <1>1, <1>5 DEF vars, driver, bus, client, Inv, WriteOK, ReadOK, Active
  <2>3. LatchOK' /\ TakenOK' /\ NoPhantomTouch'
    BY <1>1, <1>5 DEF vars, driver, bus, client, Inv, LatchOK, TakenOK, NoPhantomTouch,
                      Active, Failed, PanelWrite
  <2>4. QED
    BY <2>1, <2>2, <2>3 DEF Inv
<1>6. QED
  BY <1>1, <1>2, <1>3, <1>4, <1>5 DEF Next

\* The inductive invariant holds whatever the sizes and the faults.
THEOREM InvHolds == Spec => []Inv
<1>1. Init => Inv
  BY InitInv
<1>2. Inv /\ [Next]_vars => Inv'
  BY StepInv
<1>3. QED
  BY <1>1, <1>2, PTL DEF Spec

LEMMA InvGivesOneMeansMoved == Inv => OneMeansMoved
<1>1. SUFFICES ASSUME Inv, pc = "returned", ret = 1, "CLKT" \notin S
               PROVE  /\ Len(moved) = call.n
                      /\ call.op = "write" => moved = call.bytes
                      /\ call.op = "read"  => moved = buf
  BY DEF OneMeansMoved
<1> USE DEF Inv
<1>2. Active /\ wire = Idle /\ ~Failed /\ i = call.n /\ Len(moved) = call.n
  BY <1>1 DEF WireOK, Active, Failed
<1>3. moved \in Seq(OnTheBus) /\ Len(moved) \in Nat
  BY <1>1 DEF TypeOK
<1>4. /\ call \in {PanelWrite, PanelRead, DisplayWrite}
      /\ call.n \in Nat \ {0} /\ call.op \in {"read", "write"}
      /\ call.op = "read" => call = PanelRead /\ call.n = 2
      /\ call = PanelRead => call.op = "read"
  BY <1>1, CallFacts
<1>5. ASSUME call.op = "write" PROVE moved = call.bytes
  <2>1. \A k \in 1 .. Len(moved) : moved[k] = call.bytes[k]
    BY <1>1, <1>2, <1>5 DEF WriteOK
  <2>2. call = PanelWrite \/ call = DisplayWrite
    BY <1>4, <1>5
  <2>3. CASE call = PanelWrite
    <3>1. call.bytes = << Commands[step] >> /\ call.n = 1
      BY <2>3 DEF PanelWrite
    <3>2. Len(moved) = 1 /\ moved[1] = Commands[step]
      BY <1>2, <2>1, <3>1
    <3>3. QED
      BY <1>3, <3>1, <3>2
  <2>4. CASE call = DisplayWrite
    <3>1. call.bytes = Frame /\ call.n = FrameSize
      BY <2>4 DEF DisplayWrite
    <3>2. moved \in [1 .. FrameSize -> OnTheBus]
      BY <1>2, <1>3, <3>1
    <3>3. \A k \in 1 .. FrameSize : moved[k] = Frame[k]
      BY <1>2, <2>1, <3>1
    <3>4. QED
      BY <3>1, <3>2, <3>3 DEF Frame
  <2>5. QED
    BY <2>2, <2>3, <2>4
<1>6. ASSUME call.op = "read" PROVE moved = buf
  <2>1. /\ \A k \in 1 .. i : buf[k] = moved[k]
        /\ buf \in [1 .. 2 -> {Unset} \cup [part : {"high", "low"}, m : Measures]]
    BY <1>1, <1>2, <1>6 DEF ReadOK
  <2>2. i = 2 /\ DOMAIN moved = 1 .. 2 /\ DOMAIN buf = 1 .. 2
    BY <1>2, <1>3, <1>4, <1>6, <2>1
  <2>3. moved \in [1 .. 2 -> OnTheBus]
    BY <1>3, <2>2
  <2>4. QED
    BY <2>1, <2>2, <2>3
<1>7. QED
  BY <1>2, <1>5, <1>6

\* A call that returns 1 with no clock timeout has moved exactly its bytes, for
\* every size of the FIFO and of the frame.
THEOREM OneMeansMovedHolds == Spec => []OneMeansMoved
BY InvHolds, InvGivesOneMeansMoved, PTL

\* A touch reported before any call has failed was measured under a finger.
THEOREM NoPhantomTouchHolds == Spec => []NoPhantomTouch
<1>1. Inv => NoPhantomTouch
  BY DEF Inv
<1>2. QED
  BY <1>1, InvHolds, PTL

\* The error bits outlive every call: after a 0 there are only 0s and silence.
THEOREM FailureIsForeverHolds == Spec => FailureIsForEver
<1>1. Inv /\ [Next]_vars => [ret = 0 => ret' = 0 /\ moved' = moved]_vars
  <2>1. SUFFICES ASSUME Inv, Next, ret = 0 PROVE ret' = 0 /\ moved' = moved
    OBVIOUS
  <2>2. pc \notin {"start", "move"} /\ Refused /\ wire = Idle
    BY <2>1 DEF Inv, Silent, WireOK
  <2>3. wire.at = "none"
    BY <2>2 DEF Idle
  <2>4. CASE Program
    BY <2>1, <2>2, <2>4 DEF Program, Start, Started, Fill, Drain, Finish, SendCommand,
       ReadBack, Take, Sampled, Shown, bus
  <2>5. CASE Bus \/ Fail
    BY <2>3, <2>5 DEF Bus, Begin, Acknowledge, SendByte, ReceiveByte, Fail
  <2>6. CASE Move
    BY <2>1, <2>6 DEF Move, driver, bus
  <2>7. QED
    BY <2>1, <2>4, <2>5, <2>6 DEF Next
<1>2. QED
  BY <1>1, InvHolds, PTL DEF Spec, FailureIsForEver
=============================================================================
