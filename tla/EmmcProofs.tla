----------------------------- MODULE EmmcProofs -----------------------------
(***************************************************************************)
(* For every number of sectors, values, retries and faults: the driver     *)
(* addresses the card the way the card counts, a call that returns has     *)
(* done its work unless the end of a transfer came late, retries absorb    *)
(* faults, and pi_sd_read and pi_sd_write implement the sector store.      *)
(***************************************************************************)
EXTENDS Emmc, TLAPS

Slow   == {"slowCmd", "slowData", "slowBusy"}
Phases == {"cmd", "data", "drain", "fill", "program", "busy", "done"} \cup Slow
Flags  == Errors \cup {"cmd", "readReady", "writeReady", "transfer"}
Places == {"reset", "issue", "command", "clear", "block", "move", "transfer", "end",
           "returned", "idle", "panic"}
Stages == {"goIdle", "ifCond", "opCond", "appOcr", "ocr", "appBusy", "busy", "cid", "rca",
           "select", "blockLen", "appScr", "scr", "run"}
Names  == {"none", "GoIdle", "SendIfCond", "IOSetOpCond", "App", "OcrCheck", "SendCide",
           "SendRelativeAddr", "SelectCard", "SetBlockLen"} \cup Data
Responses == [cmd : Names, ready : BOOLEAN, hc : BOOLEAN]
Stored    == Values \cup {Junk, SCR}
Devices   == [sdhc : BOOLEAN, transfer_blocks : Nat, last_error : SUBSET Errors,
              last_response : Responses, rca : BOOLEAN]
Args      == Nat \cup {"inquiry", "voltage", "voltage and HCS", "rca", "no rca"}
Commands  == [cmd : Names, arg : Args, blocks : Nat, phase : Phases, moved : Nat]
Cards     == [v2 : BOOLEAN, hc : BOOLEAN, asked : Args, powered : BOOLEAN, rca : BOOLEAN]

TypeOK ==
  /\ pc \in Places /\ stage \in Stages
  /\ device \in Devices
  /\ retry_count \in Nat /\ faults \in Nat /\ absorb \in Nat
  /\ block \in Nat /\ success \in BOOLEAN
  /\ int_flags \subseteq Flags /\ intr_val \subseteq Flags
  /\ ctl \in Commands
  /\ fifo = << >> \/ \E v \in Stored : fifo = << v >>
  /\ ctl.phase = "program" => \E v \in Values : fifo = << v >>
  /\ response \in Responses
  /\ card \in Cards
  /\ disk \in [Sectors -> Values]
  /\ late \subseteq Slow

\* What the card says of its capacity is true whenever it says it is ready,
\* and check_sdhc_support believes it only then.
CapacityOK ==
  /\ response.ready => response.hc = card.hc
  /\ device.last_response.ready => device.last_response.hc = card.hc
  /\ stage \in {"cid", "rca", "select", "blockLen", "appScr", "scr", "run"}
       => device.sdhc = card.hc

\* The places of emmc_issue_command, from the write of the registers on.
Moving == {"block", "move", "transfer", "end"}
Trying == {"command", "clear"} \cup Moving

\* A call is in progress exactly while the driver is not idle in stage run.
CallOK ==
  /\ pc = "reset" => stage # "run"
  /\ pc = "idle" => stage = "run"
  /\ stage = "run" => ctl.cmd \in Data
  /\ call # None <=> stage = "run" /\ pc # "idle"
  /\ call # None =>
       /\ call \in Calls /\ call.lba + call.nsec - 1 \in Sectors
       /\ device.transfer_blocks = call.nsec
       /\ buffer \in [1 .. call.nsec -> Stored]
       /\ call.op = "write" => buffer = call.data

\* The flags last read: a subset of those raised, and none outside the three
\* places between a read and its use.
ReadOK ==
  /\ intr_val \subseteq int_flags
  /\ pc \notin {"clear", "move", "end"} => intr_val = {}

\* The reset sequence: no block is ever written, and a stage that needed the
\* end of a transfer leaves the controller at rest.
ResetOK == stage # "run" =>
  /\ pc \in Trying \cup {"returned"} => ctl.cmd = CommandOf[stage]
  /\ ctl.phase \notin {"fill", "program"}
  /\ ctl.phase \in {"data", "slowData", "drain"} => ctl.cmd = "SendSCR"
  /\ ctl.cmd \notin {"WriteBlock", "WriteMultiple", "ReadBlock", "ReadMultiple"}
  /\ ctl.cmd \notin {"SelectCard", "SendSCR"} =>
       ctl.phase \in {"cmd", "slowCmd", "done"} /\ "transfer" \notin int_flags
  /\ "transfer" \in int_flags => ctl.phase = "done"
  /\ ctl.cmd \in {"SelectCard", "SendSCR"} /\ (pc = "issue" \/ (pc = "returned" /\ success)) =>
       ctl.phase = "done" /\ "transfer" \notin int_flags
  /\ ctl.cmd = "SendSCR" /\ fifo # << >> => ctl.phase = "drain"

\* The command on the controller is the one the call asks for.
TryOK == stage = "run" /\ pc \in Trying =>
  /\ ctl.cmd = DataCommand(call) /\ ctl.arg = DataArg(call) /\ ctl.blocks = call.nsec
  /\ block <= call.nsec \/ pc \in {"command", "clear"}
  /\ pc = "move" => block < call.nsec
  /\ ctl.phase \in {"fill", "program"} => call.op = "write"
  /\ ctl.phase = "drain" => call.op = "read" /\ fifo = << disk[call.lba + ctl.moved] >>
  /\ call.op = "read" /\ fifo # << >> => ctl.phase = "drain"
  /\ ctl.phase \in {"data", "slowData", "drain", "fill", "program"} => ctl.moved < call.nsec
  /\ ctl.phase \in {"busy", "slowBusy"} => ctl.moved = call.nsec
  /\ ctl.moved <= call.nsec
  /\ ctl.phase \in {"cmd", "slowCmd"} => ctl.moved = 0

\* Blocks the driver has transferred that are on the card or on their way.
Passed == ctl.moved + (IF ctl.phase = "program" THEN 1 ELSE 0)

\* The first n sectors of the call and the first n blocks of the buffer agree.
Agree(n) == \A k \in 1 .. n : disk[call.lba + k - 1] = buffer[k]

\* As long as no end of a transfer came late, "transfer" is raised only for
\* the try that is under way and only when all its blocks have passed.
EndOK == stage = "run" /\ "slowBusy" \notin late =>
  /\ pc \in {"command", "clear"} =>
       ctl.moved = 0 /\ ctl.phase \notin {"program", "busy", "slowBusy"}
  /\ pc \notin Moving => "transfer" \notin int_flags
  /\ pc \in {"end", "returned", "issue", "idle", "panic"} => ctl.phase \notin {"program", "busy"}
  /\ pc \in Moving =>
       /\ Passed <= block
       /\ Passed = block =>
            Agree(ctl.moved) /\ (ctl.phase = "program" => fifo = << buffer[block] >>)
       /\ "transfer" \in int_flags => ctl.phase = "done" /\ ctl.moved = call.nsec
       /\ int_flags \cap Errors # {} => ctl.phase = "done"
  /\ pc = "returned" /\ success => ctl.phase = "done" /\ Agree(call.nsec)

\* As long as nothing came late at all, the flags belong to the phase the
\* controller is in, and a try leaves none behind.
FlagsOK == stage = "run" /\ late = {} =>
  /\ pc \notin Trying => int_flags = {} /\ ctl.phase \in Slow \cup {"done"}
  /\ pc \in Trying =>
       /\ ctl.phase \in {"cmd", "slowCmd"} => int_flags = {} /\ pc = "command"
       /\ ctl.phase \in {"data", "slowData", "program", "busy", "slowBusy"} => int_flags \subseteq {"cmd"}
       /\ ctl.phase \in {"drain", "fill"} =>
            Ready(ctl.cmd) \in int_flags /\ int_flags \subseteq {"cmd", Ready(ctl.cmd)}
       /\ ctl.phase = "drain" => fifo # << >>
       /\ ctl.phase = "done" => int_flags \subseteq Errors \cup {"cmd", "transfer"}
  /\ pc \in {"command", "clear"} =>
       /\ ctl.phase \notin {"cmd", "slowCmd", "done"} => "cmd" \in int_flags
       /\ ctl.phase = "done" => int_flags \cap Errors # {}
  /\ pc = "clear" => intr_val \cap (Errors \cup {"cmd"}) # {}
  /\ pc \in Moving =>
       /\ "cmd" \notin int_flags
       /\ ctl.phase # "done" => Passed = block
  /\ pc \in {"move", "end"} => intr_val = int_flags
  /\ pc = "move" => ctl.phase \in {"drain", "fill", "done"} \cup Slow
  /\ pc = "transfer" => ctl.phase \in {"program", "busy", "done"} \cup Slow
  /\ pc = "transfer" /\ ctl.phase = "program" => block = call.nsec
  /\ pc = "end" => ctl.phase \in {"done"} \cup Slow

\* The try has met no fault: nothing is slow, nothing is wrong, and a
\* controller at rest has said so.
Unharmed == /\ ctl.phase \notin Slow
            /\ int_flags \cap Errors = {}
            /\ ctl.phase = "done" => "transfer" \in int_flags

\* Each try that has failed met a fault of its own.
AbsorbOK == stage = "run" =>
  /\ pc = "panic" => retry_count >= MaxRetries
  /\ late = {} /\ pc # "idle" =>
       /\ absorb >= retry_count
       /\ pc \in Trying => Unharmed \/ absorb >= retry_count + 1
       /\ pc = "returned" => success \/ absorb >= retry_count + 1

Inv == /\ TypeOK
       /\ CapacityOK
       /\ CallOK
       /\ ReadOK
       /\ ResetOK
       /\ TryOK
       /\ EndOK
       /\ FlagsOK
       /\ AbsorbOK

-----------------------------------------------------------------------------
(* Lemmas. *)

\* The records of the model, one field changed.
LEMMA CommandFields ==
  ASSUME NEW c \in Commands
  PROVE  /\ \A p \in Phases :
              /\ [c EXCEPT !.phase = p] \in Commands
              /\ [c EXCEPT !.phase = p].phase = p
              /\ [c EXCEPT !.phase = p].cmd = c.cmd
              /\ [c EXCEPT !.phase = p].arg = c.arg
              /\ [c EXCEPT !.phase = p].blocks = c.blocks
              /\ [c EXCEPT !.phase = p].moved = c.moved
         /\ c.phase \in Phases /\ c.moved \in Nat /\ c.blocks \in Nat
BY DEF Commands

LEMMA MovedFields ==
  ASSUME NEW c \in Commands, NEW p \in Phases
  PROVE  /\ [c EXCEPT !.moved = @ + 1, !.phase = p] \in Commands
         /\ [c EXCEPT !.moved = @ + 1, !.phase = p].phase = p
         /\ [c EXCEPT !.moved = @ + 1, !.phase = p].cmd = c.cmd
         /\ [c EXCEPT !.moved = @ + 1, !.phase = p].arg = c.arg
         /\ [c EXCEPT !.moved = @ + 1, !.phase = p].blocks = c.blocks
         /\ [c EXCEPT !.moved = @ + 1, !.phase = p].moved = c.moved + 1
<1>1. PICK d : d = [c EXCEPT !.moved = c.moved + 1]
  OBVIOUS
<1>2. /\ d \in Commands /\ d.cmd = c.cmd /\ d.arg = c.arg /\ d.blocks = c.blocks
      /\ d.moved = c.moved + 1
  BY <1>1 DEF Commands
<1>3. QED
  BY <1>1, <1>2, CommandFields

LEMMA ArgsTyped ==
  /\ Nat \subseteq Args
  /\ {"inquiry", "voltage", "voltage and HCS", "rca", "no rca"} \subseteq Args
BY DEF Args

LEMMA NoCmdTyped ==
  /\ NoCmd \in Commands /\ NoCmd.cmd = "none" /\ NoCmd.phase = "done"
  /\ NoCmd.blocks = 0 /\ NoCmd.moved = 0
<1>1. 0 \in Args
  BY ArgsTyped
<1>2. "done" \in Phases
  BY DEF Phases
<1>3. "none" \in Names
  BY DEF Names
<1>4. QED
  BY <1>1, <1>2, <1>3 DEF NoCmd, Commands

\* A flag that comes after its deadline is noted.
LEMMA NotedIs == Noted => late' = IF ctl.phase \in Slow THEN late \cup {ctl.phase} ELSE late
<1>1. CASE ctl.phase \in Slow
  <2>1. {ctl.phase} \cap {"slowCmd", "slowData", "slowBusy"} = {ctl.phase}
    BY <1>1 DEF Slow
  <2>2. QED
    BY <1>1, <2>1 DEF Noted
<1>2. CASE ctl.phase \notin Slow
  <2>1. {ctl.phase} \cap {"slowCmd", "slowData", "slowBusy"} = {}
    BY <1>2 DEF Slow
  <2>2. late \cup {} = late
    OBVIOUS
  <2>3. QED
    BY <1>2, <2>1, <2>2 DEF Noted
<1>3. QED
  BY <1>1, <1>2

LEMMA DeviceFields ==
  ASSUME NEW d \in Devices
  PROVE  /\ \A e \in SUBSET Errors :
              /\ [d EXCEPT !.last_error = e] \in Devices
              /\ [d EXCEPT !.last_error = e].sdhc = d.sdhc
              /\ [d EXCEPT !.last_error = e].transfer_blocks = d.transfer_blocks
              /\ [d EXCEPT !.last_error = e].last_response = d.last_response
         /\ \A r \in Responses :
              /\ [d EXCEPT !.last_response = r] \in Devices
              /\ [d EXCEPT !.last_response = r].sdhc = d.sdhc
              /\ [d EXCEPT !.last_response = r].transfer_blocks = d.transfer_blocks
              /\ [d EXCEPT !.last_response = r].last_response = r
         /\ \A n \in Nat :
              /\ [d EXCEPT !.transfer_blocks = n] \in Devices
              /\ [d EXCEPT !.transfer_blocks = n].sdhc = d.sdhc
              /\ [d EXCEPT !.transfer_blocks = n].transfer_blocks = n
              /\ [d EXCEPT !.transfer_blocks = n].last_response = d.last_response
         /\ d.transfer_blocks \in Nat /\ d.sdhc \in BOOLEAN
BY DEF Devices

LEMMA CardFields ==
  ASSUME NEW c \in Cards
  PROVE  /\ [c EXCEPT !.powered = TRUE] \in Cards
         /\ [c EXCEPT !.powered = TRUE].hc = c.hc
         /\ \A a \in Args :   /\ [c EXCEPT !.asked = a] \in Cards
                               /\ [c EXCEPT !.asked = a].hc = c.hc
                               /\ [c EXCEPT !.asked = a, !.powered = FALSE, !.rca = FALSE] \in Cards
                               /\ [c EXCEPT !.asked = a, !.powered = FALSE, !.rca = FALSE].hc = c.hc
         /\ [c EXCEPT !.rca = TRUE] \in Cards
         /\ [c EXCEPT !.rca = TRUE].hc = c.hc
         /\ c.hc \in BOOLEAN /\ c.powered \in BOOLEAN
BY DEF Cards

\* A call asks for at least one sector, and its command is one of four.
LEMMA CallFacts ==
  ASSUME NEW c \in Calls
  PROVE  /\ c.op \in {"read", "write"} /\ c # None
         /\ c.lba \in Sectors /\ c.lba \in Nat /\ c.nsec \in Nat \ {0}
         /\ c.op = "write" => c.data \in [1 .. c.nsec -> Values]
         /\ DataCommand(c) \in {"ReadBlock", "ReadMultiple", "WriteBlock", "WriteMultiple"}
         /\ DataCommand(c) \in Reads <=> c.op = "read"
         /\ DataCommand(c) \in Multiple <=> c.nsec > 1
<1>1. \/ c \in [op : {"read"}, lba : Sectors, nsec : 1 .. MaxSectors, data : {<< >>}]
      \/ \E n \in 1 .. MaxSectors :
           c \in [op : {"write"}, lba : Sectors, nsec : {n}, data : [1 .. n -> Values]]
  BY DEF Calls
<1>2. Sectors \subseteq Nat /\ MaxSectors \in Nat
  BY SizesAssumption DEF Sectors
<1>3. /\ c.op \in {"read", "write"} /\ c.lba \in Sectors /\ c.nsec \in 1 .. MaxSectors
      /\ c.op = "write" => c.data \in [1 .. c.nsec -> Values]
  <2>1. CASE c \in [op : {"read"}, lba : Sectors, nsec : 1 .. MaxSectors, data : {<< >>}]
    BY <2>1
  <2>2. ASSUME NEW n \in 1 .. MaxSectors,
               c \in [op : {"write"}, lba : Sectors, nsec : {n}, data : [1 .. n -> Values]]
        PROVE  /\ c.op = "write" /\ c.lba \in Sectors /\ c.nsec = n
               /\ c.data \in [1 .. n -> Values]
    BY <2>2
  <2>3. QED
    BY <1>1, <2>1, <2>2
<1>4. c # None
  BY <1>3 DEF None
<1>5. c.nsec \in Nat \ {0}
  BY <1>2, <1>3
<1>6. /\ DataCommand(c) \in {"ReadBlock", "ReadMultiple", "WriteBlock", "WriteMultiple"}
      /\ DataCommand(c) \in Reads <=> c.op = "read"
      /\ DataCommand(c) \in Multiple <=> c.nsec > 1
  <2>1. c.nsec = 1 \/ c.nsec > 1
    BY <1>5
  <2>2. CASE c.op = "read"
    BY <1>5, <2>1, <2>2 DEF DataCommand, Reads, Multiple
  <2>3. CASE c.op = "write"
    BY <1>5, <2>1, <2>3 DEF DataCommand, Reads, Multiple
  <2>4. QED
    BY <1>3, <2>2, <2>3
<1>7. QED
  BY <1>2, <1>3, <1>4, <1>5, <1>6

\* The card takes the argument for the sector the driver meant.
LEMMA ArgumentMeansSector ==
  ASSUME Inv, stage = "run", call \in Calls
  PROVE  Addressed(DataArg(call)) = call.lba
<1>1. call.lba \in Nat /\ device.sdhc = card.hc /\ card.hc \in BOOLEAN
  BY CallFacts, CardFields DEF Inv, CapacityOK, TypeOK
<1>2. CASE card.hc
  BY <1>1, <1>2 DEF Addressed, DataArg
<1>3. CASE ~card.hc
  <2>1. DataArg(call) = call.lba * 512
    BY <1>1, <1>3 DEF DataArg, SectorSize
  <2>2. (call.lba * 512) % 512 = 0 /\ (call.lba * 512) \div 512 = call.lba
    BY <1>1
  <2>3. QED
    BY <1>3, <2>1, <2>2 DEF Addressed, SectorSize
<1>4. QED
  BY <1>1, <1>2, <1>3

\* During a try of a call, before its last block, the controller is at the
\* sector of the call that comes next.
LEMMA TargetInCall ==
  ASSUME Inv, stage = "run", pc \in Trying
  PROVE  /\ call \in Calls /\ call # None
         /\ ctl.cmd = DataCommand(call) /\ ctl.blocks = call.nsec
         /\ ctl.moved < call.nsec => Target = call.lba + ctl.moved /\ Target \in Sectors
<1>1. call # None /\ call \in Calls /\ call.lba + call.nsec - 1 \in Sectors
  BY DEF Inv, CallOK, Trying, Moving
<1>2. ctl.cmd = DataCommand(call) /\ ctl.arg = DataArg(call) /\ ctl.blocks = call.nsec
  BY DEF Inv, TryOK
<1>3. Target = call.lba + ctl.moved
  BY <1>1, <1>2, ArgumentMeansSector DEF Target
<1>4. ctl.moved \in Nat /\ call.lba \in Nat /\ call.nsec \in Nat
  BY <1>1, CallFacts, CommandFields DEF Inv, TypeOK
<1>5. ASSUME ctl.moved < call.nsec PROVE Target \in Sectors
  BY <1>1, <1>3, <1>4, <1>5, SizesAssumption DEF Sectors
<1>6. QED
  BY <1>1, <1>2, <1>3, <1>5

\* A fault is counted, and for a call that is under way on its account.
LEMMA FaultIs ==
  ASSUME TypeOK, Fault
  PROVE  faults' \in Nat /\ absorb' \in Nat /\ (stage = "run" => absorb' = absorb + 1)
BY DEF TypeOK, Fault

-----------------------------------------------------------------------------
(* The controller and the card. *)

LEMMA RespondInv == Inv /\ Respond => Inv'
<1> SUFFICES ASSUME Inv, Respond PROVE Inv'
  OBVIOUS
<1>1. UNCHANGED <<pc, stage, device, v2_card, tries, call, retry_count, buffer, block, intr_val,
                  success, result, fifo, disk, faults, absorb>>
  BY DEF Respond, driver, issue
<1>2. PICK p \in {"data", "busy", "done"} :
        /\ ctl' = [ctl EXCEPT !.phase = p]
        /\ p = IF ctl.cmd \in Data THEN "data" ELSE IF ctl.cmd \in Busy THEN "busy" ELSE "done"
  BY DEF Respond, Phase
<1>3. /\ ctl' \in Commands /\ ctl'.phase = p /\ ctl'.cmd = ctl.cmd /\ ctl'.arg = ctl.arg
      /\ ctl'.blocks = ctl.blocks /\ ctl'.moved = ctl.moved
  <2>1. p \in Phases /\ ctl \in Commands
    BY DEF Inv, TypeOK, Phases
  <2>2. QED
    BY <1>2, <2>1, CommandFields
<1>4. int_flags' = int_flags \cup {"cmd"}
  BY DEF Respond, Raise
<1>5. \/ ctl.phase = "cmd" /\ late' = late
      \/ ctl.phase = "slowCmd" /\ pc # "command" /\ late' = late \cup {"slowCmd"}
  <2>1. Noted /\ (ctl.phase = "cmd" \/ (ctl.phase = "slowCmd" /\ pc # "command"))
    BY DEF Respond
  <2>2. "cmd" \notin Slow /\ "slowCmd" \in Slow
    BY DEF Slow
  <2>3. CASE ctl.phase = "cmd"
    BY <2>1, <2>2, <2>3, NotedIs
  <2>4. CASE ctl.phase = "slowCmd" /\ pc # "command"
    BY <2>1, <2>2, <2>4, NotedIs
  <2>5. QED
    BY <2>1, <2>3, <2>4
<1>6. card' \in Cards /\ card'.hc = card.hc
  <2>1. card \in Cards
    BY DEF Inv, TypeOK
  <2>2. ctl.arg \in Args /\ "inquiry" \in Args
    BY ArgsTyped DEF Inv, TypeOK, Commands
  <2>3. QED
    BY <2>1, <2>2, CardFields DEF Respond
<1>7. response' \in Responses /\ (response'.ready => response'.hc = card.hc)
  <2>1. card.powered \in BOOLEAN /\ card.hc \in BOOLEAN /\ ctl.cmd \in Names
    BY CardFields DEF Inv, TypeOK, Commands
  <2>2. QED
    BY <2>1 DEF Respond, Responses
<1>8. TypeOK'
  BY <1>1, <1>2, <1>3, <1>4, <1>5, <1>6, <1>7 DEF Inv, TypeOK, Flags, Slow
<1>9. CapacityOK' /\ CallOK' /\ ReadOK'
  BY <1>1, <1>3, <1>4, <1>6, <1>7 DEF Inv, CapacityOK, CallOK, ReadOK
<1>10. ResetOK'
  BY <1>1, <1>2, <1>3, <1>4, <1>5 DEF Inv, ResetOK, Data, Reads, Busy
<1>11. stage = "run" /\ pc \in Trying => p = "data"
  BY <1>2, TargetInCall, CallFacts DEF Data, Reads
<1>12. TryOK'
  <2>1. SUFFICES ASSUME stage = "run", pc \in Trying PROVE TryOK'
    BY <1>1 DEF TryOK
  <2>2. call \in Calls /\ call.nsec \in Nat \ {0}
    BY <2>1, TargetInCall, CallFacts
  <2>3. DataArg(call)' = DataArg(call)
    BY <1>1 DEF DataArg
  <2>4. QED
    BY <1>1, <1>3, <1>5, <1>11, <2>1, <2>2, <2>3 DEF Inv, TryOK
<1>13. EndOK'
  <2>1. Agree(ctl.moved)' = Agree(ctl.moved) /\ Agree(call.nsec)' = Agree(call.nsec)
    BY <1>1, <1>3 DEF Agree
  <2>2. stage = "run" => Passed' = Passed
    BY <1>2, <1>3, <1>5 DEF Passed
  <2>3. SUFFICES ASSUME stage = "run", "slowBusy" \notin late' PROVE EndOK'
    BY <1>1 DEF EndOK
  <2>4. /\ "slowBusy" \notin late /\ ctl.phase \in {"cmd", "slowCmd"}
        /\ pc \in Trying => ctl'.phase = "data"
        /\ "transfer" \in int_flags' <=> "transfer" \in int_flags
        /\ int_flags' \cap Errors = int_flags \cap Errors
    BY <1>3, <1>4, <1>5, <1>11, <2>3 DEF Errors
  <2>5. pc \in Moving => "transfer" \notin int_flags /\ int_flags \cap Errors = {}
    BY <2>3, <2>4 DEF Inv, EndOK
  <2>6. pc \notin Trying => pc \notin Moving /\ pc \notin {"command", "clear", "end"}
    BY DEF Trying, Moving
  <2>7. pc = "returned" => ~success
    BY <2>3, <2>4 DEF Inv, EndOK
  <2>8. CASE pc \in Trying
    BY <1>1, <1>3, <2>1, <2>2, <2>3, <2>4, <2>5, <2>7, <2>8 DEF Inv, EndOK, Trying, Moving
  <2>10. ctl'.phase \in {"data", "done"}
    BY <1>2, <1>3, <2>3 DEF Inv, CallOK
  <2>9. CASE pc \notin Trying
    BY <1>1, <1>3, <2>3, <2>4, <2>6, <2>7, <2>9, <2>10 DEF Inv, EndOK
  <2>11. QED
    BY <2>8, <2>9
<1>14. FlagsOK'
  <2>1. SUFFICES ASSUME stage = "run", late' = {} PROVE FlagsOK'
    BY <1>1 DEF FlagsOK
  <2>2. late = {} /\ ctl.phase = "cmd"
    BY <1>5, <2>1
  <2>3. pc = "command" /\ int_flags = {}
    BY <2>1, <2>2 DEF Inv, FlagsOK, Trying, Slow
  <2>4. p = "data"
    BY <1>11, <2>1, <2>3 DEF Trying
  <2>5. QED
    BY <1>1, <1>3, <1>4, <2>3, <2>4 DEF FlagsOK, Trying, Moving
<1>15. AbsorbOK'
  <2>1. SUFFICES ASSUME stage = "run", late' = {} PROVE AbsorbOK'
    BY <1>1 DEF Inv, AbsorbOK
  <2>2. late = {} /\ ctl.phase = "cmd"
    BY <1>5, <2>1
  <2>3. pc = "command" /\ int_flags = {}
    BY <2>1, <2>2 DEF Inv, FlagsOK, Trying, Slow
  <2>4. p = "data"
    BY <1>11, <2>1, <2>3 DEF Trying
  <2>5. Unharmed'
    BY <1>3, <1>4, <2>3, <2>4 DEF Unharmed, Slow, Errors
  <2>6. QED
    BY <1>1, <2>2, <2>3, <2>5 DEF Inv, AbsorbOK
<1>16. QED
  BY <1>8, <1>9, <1>10, <1>12, <1>13, <1>14, <1>15 DEF Inv

LEMMA NoAnswerInv == Inv /\ NoAnswer => Inv'
<1> SUFFICES ASSUME Inv, NoAnswer PROVE Inv'
  OBVIOUS
<1>1. UNCHANGED <<pc, stage, device, v2_card, tries, call, retry_count, buffer, block, intr_val,
                  success, result, fifo, response, card, disk, faults, absorb, late>>
  BY DEF NoAnswer, driver, issue, history
<1>2. ctl' = [ctl EXCEPT !.phase = "done"] /\ int_flags' = int_flags \cup {"cmdTimeout"}
      /\ ctl.phase = "cmd" /\ ~Answers
  BY DEF NoAnswer, Phase, Raise
<1>3. /\ ctl' \in Commands /\ ctl'.phase = "done" /\ ctl'.cmd = ctl.cmd /\ ctl'.arg = ctl.arg
      /\ ctl'.blocks = ctl.blocks /\ ctl'.moved = ctl.moved
  BY <1>2, CommandFields DEF Inv, TypeOK, Phases
<1>4. ~(stage = "run" /\ pc \in Trying)
  BY <1>2, TargetInCall, CallFacts DEF Answers
<1>5. TypeOK'
  BY <1>1, <1>2, <1>3 DEF Inv, TypeOK, Flags, Errors
<1>6. CapacityOK' /\ CallOK' /\ ReadOK'
  BY <1>1, <1>2, <1>3 DEF Inv, CapacityOK, CallOK, ReadOK
<1>7. ResetOK'
  BY <1>1, <1>2, <1>3 DEF Inv, ResetOK
<1>8. TryOK'
  BY <1>1, <1>4 DEF TryOK
<1>9. EndOK'
  BY <1>1, <1>2, <1>3, <1>4 DEF Inv, EndOK, Agree, Trying, Moving
<1>10. FlagsOK' /\ AbsorbOK'
  BY <1>1, <1>2, <1>3, <1>4 DEF Inv, FlagsOK, AbsorbOK, Trying, Moving, Slow
<1>11. QED
  BY <1>5, <1>6, <1>7, <1>8, <1>9, <1>10 DEF Inv

LEMMA PowerUpInv == Inv /\ PowerUp => Inv'
<1> SUFFICES ASSUME Inv, PowerUp PROVE Inv'
  OBVIOUS
<1>1. UNCHANGED <<pc, stage, device, v2_card, tries, call, retry_count, buffer, block, intr_val,
                  success, result, int_flags, ctl, fifo, response, disk, faults, absorb, late>>
  BY DEF PowerUp, driver, issue, history
<1>2. card' \in Cards /\ card'.hc = card.hc
  BY CardFields DEF Inv, TypeOK, PowerUp
<1>3. TypeOK' /\ CapacityOK'
  BY <1>1, <1>2 DEF Inv, TypeOK, CapacityOK
<1>4. CallOK' /\ ReadOK' /\ ResetOK' /\ AbsorbOK'
  BY <1>1 DEF Inv, CallOK, ReadOK, ResetOK, AbsorbOK, Unharmed
<1>5. TryOK' /\ EndOK' /\ FlagsOK'
  BY <1>1 DEF Inv, TryOK, EndOK, FlagsOK, DataArg, Passed, Agree
<1>6. QED
  BY <1>3, <1>4, <1>5 DEF Inv

LEMMA BlockReadyInv == Inv /\ BlockReady => Inv'
<1> SUFFICES ASSUME Inv, BlockReady PROVE Inv'
  OBVIOUS
<1>1. UNCHANGED <<pc, stage, device, v2_card, tries, call, retry_count, buffer, block, intr_val,
                  success, result, response, card, disk, faults, absorb>>
  BY DEF BlockReady, driver, issue
<1>2. /\ ctl \in Commands /\ disk \in [Sectors -> Values] /\ card \in Cards
      /\ fifo = << >> \/ \E v \in Stored : fifo = << v >>
  BY DEF Inv, TypeOK
<1>3. PICK p \in {"done", "drain", "fill"} : ctl' = [ctl EXCEPT !.phase = p]
        /\ \/ /\ p = "done" /\ int_flags' = int_flags \cup {"dataTimeout"} /\ fifo' = fifo
              /\ ctl.cmd # "SendSCR" /\ Target \notin Sectors
           \/ /\ p = "drain" /\ int_flags' = int_flags \cup {"readReady"} /\ ctl.cmd \in Reads
              /\ ctl.cmd # "SendSCR" => Target \in Sectors /\ fifo' = << disk[Target] >>
              /\ ctl.cmd = "SendSCR" => fifo' = << SCR >>
           \/ /\ p = "fill" /\ int_flags' = int_flags \cup {"writeReady"} /\ fifo' = fifo
              /\ ctl.cmd \notin Reads
  <2>1. CASE ctl.cmd # "SendSCR" /\ Target \notin Sectors
    BY <2>1 DEF BlockReady, Raise, Phase
  <2>2. CASE ctl.cmd = "SendSCR" \/ (ctl.cmd \in Reads /\ Target \in Sectors)
    BY <2>2 DEF BlockReady, Raise, Phase, Reads
  <2>3. CASE ctl.cmd \notin Reads /\ Target \in Sectors
    BY <2>3 DEF BlockReady, Raise, Phase, Reads
  <2>4. QED
    BY <2>1, <2>2, <2>3
<1>4. /\ ctl' \in Commands /\ ctl'.phase = p /\ ctl'.cmd = ctl.cmd /\ ctl'.arg = ctl.arg
      /\ ctl'.blocks = ctl.blocks /\ ctl'.moved = ctl.moved
  <2>1. p \in Phases
    BY DEF Phases
  <2>2. QED
    BY <1>2, <1>3, <2>1, CommandFields
<1>5. \/ ctl.phase = "data" /\ late' = late
      \/ ctl.phase = "slowData" /\ pc # "block" /\ late' = late \cup {"slowData"}
  <2>1. Noted /\ (ctl.phase = "data" \/ (ctl.phase = "slowData" /\ pc # "block"))
    BY DEF BlockReady
  <2>2. "data" \notin Slow /\ "slowData" \in Slow
    BY DEF Slow
  <2>3. CASE ctl.phase = "data"
    BY <2>1, <2>2, <2>3, NotedIs
  <2>4. CASE ctl.phase = "slowData" /\ pc # "block"
    BY <2>1, <2>2, <2>4, NotedIs
  <2>5. QED
    BY <2>1, <2>3, <2>4
<1>6. TypeOK'
  <2>1. fifo' = << >> \/ \E v \in Stored : fifo' = << v >>
    BY <1>2, <1>3 DEF Stored
  <2>2. int_flags' \subseteq Flags /\ late' \subseteq Slow /\ ctl'.phase # "program"
    BY <1>3, <1>4, <1>5 DEF Inv, TypeOK, Flags, Errors, Slow
  <2>3. QED
    BY <1>1, <1>4, <2>1, <2>2 DEF Inv, TypeOK
<1>7. CapacityOK' /\ CallOK' /\ ReadOK'
  BY <1>1, <1>3, <1>4 DEF Inv, CapacityOK, CallOK, ReadOK
<1>8. ResetOK'
  BY <1>1, <1>3, <1>4, <1>5 DEF Inv, ResetOK, Reads
<1>9. stage = "run" /\ pc \in Trying =>
        /\ call \in Calls /\ ctl.cmd = DataCommand(call) /\ ctl.cmd # "SendSCR"
        /\ ctl.moved < call.nsec /\ Target = call.lba + ctl.moved
        /\ Target \in Sectors /\ p = IF call.op = "read" THEN "drain" ELSE "fill"
  <2>1. SUFFICES ASSUME stage = "run", pc \in Trying
                 PROVE  /\ call \in Calls /\ ctl.cmd = DataCommand(call) /\ ctl.cmd # "SendSCR"
                        /\ ctl.moved < call.nsec /\ Target = call.lba + ctl.moved
                        /\ Target \in Sectors /\ p = IF call.op = "read" THEN "drain" ELSE "fill"
    OBVIOUS
  <2>2. ctl.moved < call.nsec
    BY <1>5, <2>1 DEF Inv, TryOK
  <2>3. call \in Calls /\ ctl.cmd = DataCommand(call) /\ Target = call.lba + ctl.moved
        /\ Target \in Sectors
    BY <2>1, <2>2, TargetInCall
  <2>4. QED
    BY <1>3, <2>2, <2>3, CallFacts
<1>10. TryOK'
  <2>1. SUFFICES ASSUME stage = "run", pc \in Trying PROVE TryOK'
    BY <1>1 DEF TryOK
  <2>2. call.op \in {"read", "write"} /\ DataArg(call)' = DataArg(call)
    BY <1>1, <1>9, <2>1, CallFacts DEF DataArg
  <2>3. CASE call.op = "read"
    <3>1. p = "drain" /\ fifo' = << disk[call.lba + ctl.moved] >>
      BY <1>3, <1>9, <2>1, <2>3
    <3>2. QED
      BY <1>1, <1>4, <1>9, <2>1, <2>2, <2>3, <3>1 DEF Inv, TryOK
  <2>4. CASE call.op = "write"
    BY <1>1, <1>4, <1>9, <2>1, <2>2, <2>4 DEF Inv, TryOK
  <2>5. QED
    BY <2>2, <2>3, <2>4
<1>11. EndOK'
  <2>1. SUFFICES ASSUME stage = "run", "slowBusy" \notin late' PROVE EndOK'
    BY <1>1 DEF EndOK
  <2>2. "slowBusy" \notin late /\ ctl.phase \in {"data", "slowData"}
    BY <1>5, <2>1
  <2>3. Agree(ctl.moved)' = Agree(ctl.moved) /\ Agree(call.nsec)' = Agree(call.nsec)
    BY <1>1, <1>4 DEF Agree
  <2>4. Passed' = Passed
    BY <1>3, <1>4, <2>2 DEF Passed
  <2>5. ctl'.phase \in {"drain", "fill", "done"}
    BY <1>4
  <2>6. "transfer" \in int_flags' <=> "transfer" \in int_flags
    BY <1>3
  <2>7. pc \in Moving => /\ ctl'.phase \in {"drain", "fill"} /\ "transfer" \notin int_flags
                         /\ int_flags \cap Errors = {} /\ int_flags' \cap Errors = {}
    BY <1>3, <1>4, <1>9, <2>1, <2>2 DEF Inv, EndOK, Trying, Errors
  <2>8. pc = "returned" => ~success
    BY <2>1, <2>2 DEF Inv, EndOK
  <2>9. QED
    BY <1>1, <1>4, <2>1, <2>2, <2>3, <2>4, <2>5, <2>6, <2>7, <2>8 DEF Inv, EndOK
<1>12. stage = "run" /\ late' = {} =>
         /\ late = {} /\ ctl.phase = "data" /\ pc \in {"command", "clear", "block"}
         /\ p \in {"drain", "fill"} /\ int_flags \subseteq {"cmd"}
         /\ int_flags' = int_flags \cup {Ready(ctl.cmd)}
         /\ p = "drain" => fifo' # << >>
  <2>1. SUFFICES ASSUME stage = "run", late' = {}
                 PROVE /\ late = {} /\ ctl.phase = "data" /\ pc \in {"command", "clear", "block"}
                       /\ p \in {"drain", "fill"} /\ int_flags \subseteq {"cmd"}
                       /\ int_flags' = int_flags \cup {Ready(ctl.cmd)}
                       /\ p = "drain" => fifo' # << >>
    OBVIOUS
  <2>2. late = {} /\ ctl.phase = "data"
    BY <1>5, <2>1
  <2>3. pc \in Trying /\ int_flags \subseteq {"cmd"}
    BY <2>1, <2>2 DEF Inv, FlagsOK, Slow
  <2>4. pc \in {"command", "clear", "block"}
    BY <2>1, <2>2, <2>3 DEF Inv, FlagsOK, Slow, Trying, Moving
  <2>5. QED
    BY <1>3, <1>9, <2>1, <2>2, <2>3, <2>4 DEF Ready
<1>13. FlagsOK'
  <2>1. SUFFICES ASSUME stage = "run", late' = {} PROVE FlagsOK'
    BY <1>1 DEF FlagsOK
  <2>2. Passed' = Passed
    BY <1>4, <1>12, <2>1 DEF Passed
  <2>3. Ready(ctl.cmd)' = Ready(ctl.cmd) /\ Ready(ctl.cmd) \notin Errors \cup {"cmd"}
    BY <1>4 DEF Ready, Errors
  <2>4. QED
    BY <1>1, <1>4, <1>12, <2>1, <2>2, <2>3 DEF Inv, FlagsOK, Trying, Moving, Slow
<1>14. AbsorbOK'
  <2>1. SUFFICES ASSUME stage = "run", late' = {} PROVE AbsorbOK'
    BY <1>1 DEF Inv, AbsorbOK
  <2>2. Unharmed'
    BY <1>4, <1>12, <2>1 DEF Unharmed, Slow, Errors, Ready
  <2>3. QED
    BY <1>1, <1>12, <2>1, <2>2 DEF Inv, AbsorbOK
<1>15. QED
  BY <1>6, <1>7, <1>8, <1>10, <1>11, <1>13, <1>14 DEF Inv

LEMMA ProgramInv == Inv /\ Program => Inv'
<1> SUFFICES ASSUME Inv, Program PROVE Inv'
  OBVIOUS
<1>1. UNCHANGED <<pc, stage, device, v2_card, tries, call, retry_count, buffer, block, intr_val,
                  success, result, int_flags, fifo, response, card, faults, absorb, late>>
  BY DEF Program, driver, issue, history
<1>2. /\ ctl \in Commands /\ ctl.phase = "program" /\ disk \in [Sectors -> Values]
      /\ stage = "run"
  BY DEF Inv, TypeOK, Program, ResetOK
<1>3. PICK v \in Values : fifo = << v >>
  BY <1>2 DEF Inv, TypeOK
<1>4. disk' = [disk EXCEPT ![Target] = v] /\ disk' \in [Sectors -> Values]
  <2>1. Head(fifo) = v
    BY <1>3
  <2>2. disk' = [disk EXCEPT ![Target] = v]
    BY <2>1 DEF Program
  <2>3. QED
    BY <1>2, <2>2
<1>5. PICK p \in {"busy", "data"} :
        /\ ctl' = [ctl EXCEPT !.moved = @ + 1, !.phase = p]
        /\ p = IF ctl.moved + 1 = ctl.blocks THEN "busy" ELSE "data"
  BY DEF Program
<1>6. /\ ctl' \in Commands /\ ctl'.phase = p /\ ctl'.cmd = ctl.cmd /\ ctl'.arg = ctl.arg
      /\ ctl'.blocks = ctl.blocks /\ ctl'.moved = ctl.moved + 1 /\ ctl.moved \in Nat
  <2>1. p \in Phases
    BY DEF Phases
  <2>2. ctl.moved \in Nat
    BY <1>2, CommandFields
  <2>3. PICK d : d = [ctl EXCEPT !.moved = @ + 1, !.phase = p]
    OBVIOUS
  <2>4. /\ d \in Commands /\ d.phase = p /\ d.cmd = ctl.cmd /\ d.arg = ctl.arg
        /\ d.blocks = ctl.blocks /\ d.moved = ctl.moved + 1
    BY <1>2, <2>1, <2>3, MovedFields
  <2>5. ctl' = d
    BY <1>5, <2>3
  <2>6. QED
    BY <2>2, <2>4, <2>5
<1>7. TypeOK'
  BY <1>1, <1>4, <1>6 DEF Inv, TypeOK
<1>8. CapacityOK' /\ CallOK' /\ ReadOK' /\ ResetOK'
  BY <1>1, <1>2, <1>6 DEF Inv, CapacityOK, CallOK, ReadOK, ResetOK
<1>9. pc \in Trying =>
        /\ call \in Calls /\ call.op = "write" /\ ctl.moved < call.nsec /\ call.nsec \in Nat
        /\ ctl.blocks = call.nsec /\ Target = call.lba + ctl.moved /\ Target \in Sectors
        /\ call.lba \in Nat
  BY <1>2, TargetInCall, CallFacts DEF Inv, TryOK
<1>10. TryOK'
  <2>1. SUFFICES ASSUME pc \in Trying PROVE TryOK'
    BY <1>1 DEF TryOK
  <2>2. DataArg(call)' = DataArg(call)
    BY <1>1 DEF DataArg
  <2>3. QED
    BY <1>1, <1>2, <1>5, <1>6, <1>9, <2>1, <2>2 DEF Inv, TryOK
<1>11. EndOK'
  <2>1. SUFFICES ASSUME "slowBusy" \notin late PROVE EndOK'
    BY <1>1 DEF EndOK
  <2>2. /\ pc \in Moving /\ pc # "end" /\ Passed <= block /\ "transfer" \notin int_flags
        /\ Passed = block => Agree(ctl.moved) /\ v = buffer[block]
        /\ int_flags \cap Errors = {}
    <3>1. pc \notin {"command", "clear", "end", "returned", "issue", "idle", "panic"}
      BY <1>2, <2>1 DEF Inv, EndOK
    <3>2. pc \in Moving
      BY <1>2, <3>1 DEF Inv, TypeOK, CallOK, Moving, Places
    <3>3. QED
      BY <1>2, <1>3, <2>1, <3>1, <3>2 DEF Inv, EndOK
  <2>3. pc \in Trying
    BY <2>2 DEF Trying
  <2>4. Passed' = Passed /\ Passed = ctl.moved + 1
    BY <1>2, <1>6 DEF Passed
  <2>5. ASSUME Passed = block PROVE Agree(ctl.moved)'
    <3>1. SUFFICES ASSUME NEW k \in 1 .. ctl.moved + 1
                   PROVE  disk'[call.lba + k - 1] = buffer[k]
      BY <1>1, <1>6 DEF Agree
    <3>2. CASE k = ctl.moved + 1
      <4>1. call.lba + k - 1 = Target
        BY <1>6, <1>9, <2>3, <3>2
      <4>2. QED
        BY <1>2, <1>4, <1>9, <2>2, <2>3, <2>4, <2>5, <3>2, <4>1
    <3>3. CASE k \in 1 .. ctl.moved
      <4>1. call.lba + k - 1 # Target /\ call.lba + k - 1 \in Sectors
        BY <1>6, <1>9, <2>3, <3>3, SizesAssumption DEF Sectors
      <4>2. disk[call.lba + k - 1] = buffer[k]
        BY <2>2, <2>5, <3>3 DEF Agree
      <4>3. QED
        BY <1>2, <1>4, <4>1, <4>2
    <3>4. QED
      BY <1>6, <3>2, <3>3
  <2>6. QED
    BY <1>1, <1>2, <1>6, <2>1, <2>2, <2>4, <2>5 DEF Inv, EndOK, Moving
<1>12. FlagsOK'
  <2>1. SUFFICES ASSUME late = {} PROVE FlagsOK'
    BY <1>1 DEF FlagsOK
  <2>2. pc \in Trying /\ Passed' = Passed
    BY <1>2, <1>6, <2>1 DEF Inv, FlagsOK, Passed, Slow
  <2>3. pc \in {"block", "transfer"}
    <3>1. pc \notin {"command", "clear"}
      BY <1>2, <2>1 DEF Inv, EndOK
    <3>2. pc \notin {"move", "end"}
      BY <1>2, <2>1 DEF Inv, FlagsOK, Slow
    <3>3. QED
      BY <2>2, <3>1, <3>2 DEF Trying, Moving
  <2>4. pc = "transfer" => p = "busy"
    <3>1. SUFFICES ASSUME pc = "transfer" PROVE ctl.moved + 1 = ctl.blocks
      BY <1>5
    <3>2. block = call.nsec
      BY <1>2, <2>1, <2>2, <3>1 DEF Inv, FlagsOK
    <3>3. QED
      BY <1>2, <1>6, <1>9, <2>1, <2>2, <2>3, <3>1, <3>2 DEF Inv, FlagsOK, Passed, Moving
  <2>5. QED
    BY <1>1, <1>2, <1>6, <2>1, <2>2, <2>3, <2>4 DEF Inv, FlagsOK, Trying, Moving, Slow
<1>13. AbsorbOK'
  <2>1. SUFFICES ASSUME late = {} PROVE AbsorbOK'
    BY <1>1 DEF Inv, AbsorbOK
  <2>2. Unharmed => Unharmed'
    BY <1>1, <1>6 DEF Unharmed, Slow
  <2>3. QED
    BY <1>1, <2>1, <2>2 DEF Inv, AbsorbOK
<1>14. QED
  BY <1>7, <1>8, <1>10, <1>11, <1>12, <1>13 DEF Inv

LEMMA TransferDoneInv == Inv /\ TransferDone => Inv'
<1> SUFFICES ASSUME Inv, TransferDone PROVE Inv'
  OBVIOUS
<1>1. UNCHANGED <<pc, stage, device, v2_card, tries, call, retry_count, buffer, block, intr_val,
                  success, result, fifo, response, card, disk, faults, absorb>>
  BY DEF TransferDone, driver, issue
<1>2. ctl' = [ctl EXCEPT !.phase = "done"] /\ int_flags' = int_flags \cup {"transfer"}
  BY DEF TransferDone, Phase, Raise
<1>3. /\ ctl' \in Commands /\ ctl'.phase = "done" /\ ctl'.cmd = ctl.cmd /\ ctl'.arg = ctl.arg
      /\ ctl'.blocks = ctl.blocks /\ ctl'.moved = ctl.moved
  BY <1>2, CommandFields DEF Inv, TypeOK, Phases
<1>4. \/ ctl.phase = "busy" /\ late' = late
      \/ ctl.phase = "slowBusy" /\ pc # "transfer" /\ late' = late \cup {"slowBusy"}
  <2>1. Noted /\ (ctl.phase = "busy" \/ (ctl.phase = "slowBusy" /\ pc # "transfer"))
    BY DEF TransferDone
  <2>2. "busy" \notin Slow /\ "slowBusy" \in Slow
    BY DEF Slow
  <2>3. CASE ctl.phase = "busy"
    BY <2>1, <2>2, <2>3, NotedIs
  <2>4. CASE ctl.phase = "slowBusy" /\ pc # "transfer"
    BY <2>1, <2>2, <2>4, NotedIs
  <2>5. QED
    BY <2>1, <2>3, <2>4
<1>5. TypeOK'
  BY <1>1, <1>2, <1>3, <1>4 DEF Inv, TypeOK, Flags, Slow
<1>6. CapacityOK' /\ CallOK' /\ ReadOK'
  BY <1>1, <1>2, <1>3 DEF Inv, CapacityOK, CallOK, ReadOK
<1>7. ResetOK'
  BY <1>1, <1>2, <1>3, <1>4 DEF Inv, ResetOK
<1>8. TryOK'
  BY <1>1, <1>3, <1>4 DEF Inv, TryOK, DataArg
<1>9. EndOK'
  <2>1. SUFFICES ASSUME stage = "run", "slowBusy" \notin late' PROVE EndOK'
    BY <1>1 DEF EndOK
  <2>2. "slowBusy" \notin late /\ ctl.phase = "busy"
    BY <1>4, <2>1
  <2>3. pc \in Moving
    <3>1. pc \notin {"command", "clear", "end", "returned", "issue", "idle", "panic"}
      BY <2>1, <2>2 DEF Inv, EndOK
    <3>2. QED
      BY <2>1, <3>1 DEF Inv, TypeOK, CallOK, Moving, Places
  <2>4. ctl.moved = call.nsec
    BY <2>1, <2>2, <2>3 DEF Inv, TryOK, Trying
  <2>5. Passed' = Passed /\ (Agree(ctl.moved)' <=> Agree(ctl.moved))
    BY <1>1, <1>3, <2>2 DEF Passed, Agree
  <2>6. QED
    BY <1>1, <1>3, <2>1, <2>2, <2>3, <2>4, <2>5 DEF Inv, EndOK, Moving
<1>10. stage = "run" /\ late' = {} =>
         late = {} /\ ctl.phase = "busy" /\ pc \in {"block", "transfer"} /\ int_flags = {}
  <2>1. SUFFICES ASSUME stage = "run", late' = {}
                 PROVE  late = {} /\ ctl.phase = "busy" /\ pc \in {"block", "transfer"} /\ int_flags = {}
    OBVIOUS
  <2>2. late = {} /\ ctl.phase = "busy"
    BY <1>4, <2>1
  <2>3. pc \in Trying /\ pc \notin {"command", "clear", "move", "end"}
    BY <2>1, <2>2 DEF Inv, FlagsOK, EndOK, Slow
  <2>4. QED
    BY <2>1, <2>2, <2>3 DEF Inv, FlagsOK, Trying, Moving
<1>11. FlagsOK'
  <2>1. SUFFICES ASSUME stage = "run", late' = {} PROVE FlagsOK'
    BY <1>1 DEF FlagsOK
  <2>2. QED
    BY <1>1, <1>2, <1>3, <1>10, <2>1 DEF FlagsOK, Trying, Moving
<1>12. AbsorbOK'
  <2>1. SUFFICES ASSUME stage = "run", late' = {} PROVE AbsorbOK'
    BY <1>1 DEF Inv, AbsorbOK
  <2>2. Unharmed'
    BY <1>2, <1>3, <1>10, <2>1 DEF Unharmed, Slow, Errors
  <2>3. QED
    BY <1>1, <1>10, <2>1, <2>2 DEF Inv, AbsorbOK
<1>13. QED
  BY <1>5, <1>6, <1>7, <1>8, <1>9, <1>11, <1>12 DEF Inv

LEMMA HardwareErrorInv == Inv /\ HardwareError => Inv'
<1> SUFFICES ASSUME Inv, HardwareError PROVE Inv'
  OBVIOUS
<1>1. UNCHANGED <<pc, stage, device, v2_card, tries, call, retry_count, buffer, block, intr_val,
                  success, result, fifo, response, card, disk, late>>
  BY DEF HardwareError, driver, issue
<1>2. /\ faults' \in Nat /\ absorb' \in Nat
      /\ stage = "run" => absorb' = absorb + 1
  BY FaultIs DEF HardwareError, Inv
<1>3. PICK raised \in SUBSET (Errors \cup {"transfer"}) :
        /\ int_flags' = int_flags \cup raised
        /\ raised \cap Errors # {}
        /\ ctl.phase \in {"cmd", "data", "program", "busy"}
        /\ "transfer" \in raised => ctl.phase = "busy"
  <2>1. CASE ctl.phase = "cmd" /\ \E e \in {"cmdTimeout", "cmdCrc"} : Raise({e})
    <3>1. PICK e \in {"cmdTimeout", "cmdCrc"} : int_flags' = int_flags \cup {e}
      BY <2>1 DEF Raise
    <3>2. {e} \in SUBSET (Errors \cup {"transfer"}) /\ {e} \cap Errors # {} /\ "transfer" \notin {e}
      BY DEF Errors
    <3>3. QED
      BY <2>1, <3>1, <3>2
  <2>2. CASE ctl.phase \in {"data", "program"} /\ \E e \in {"dataTimeout", "dataCrc"} : Raise({e})
    <3>1. PICK e \in {"dataTimeout", "dataCrc"} : int_flags' = int_flags \cup {e}
      BY <2>2 DEF Raise
    <3>2. {e} \in SUBSET (Errors \cup {"transfer"}) /\ {e} \cap Errors # {} /\ "transfer" \notin {e}
      BY DEF Errors
    <3>3. QED
      BY <2>2, <3>1, <3>2
  <2>3. CASE ctl.phase = "busy" /\ Raise({"transfer", "dataTimeout"})
    BY <2>3 DEF Raise, Errors
  <2>4. QED
    BY <2>1, <2>2, <2>3 DEF HardwareError
<1>4. ctl' = [ctl EXCEPT !.phase = "done"]
  BY DEF HardwareError, Phase
<1>5. /\ ctl' \in Commands /\ ctl'.phase = "done" /\ ctl'.cmd = ctl.cmd /\ ctl'.arg = ctl.arg
      /\ ctl'.blocks = ctl.blocks /\ ctl'.moved = ctl.moved /\ ctl.moved \in Nat
  BY <1>4, CommandFields DEF Inv, TypeOK, Phases
<1>6. TypeOK'
  <2>1. int_flags' \subseteq Flags
    BY <1>3 DEF Inv, TypeOK, Flags
  <2>2. QED
    BY <1>1, <1>2, <1>5, <2>1 DEF Inv, TypeOK
<1>7. CapacityOK' /\ CallOK' /\ ReadOK'
  BY <1>1, <1>3, <1>5 DEF Inv, CapacityOK, CallOK, ReadOK
<1>8. ResetOK'
  BY <1>1, <1>3, <1>5 DEF Inv, ResetOK
<1>9. TryOK'
  BY <1>1, <1>3, <1>5 DEF Inv, TryOK, DataArg
<1>10. EndOK'
  <2>1. SUFFICES ASSUME stage = "run", "slowBusy" \notin late PROVE EndOK'
    BY <1>1 DEF EndOK
  <2>2. pc \in {"command", "clear", "end", "returned", "issue", "idle", "panic"} => ctl.phase # "busy"
    BY <2>1 DEF Inv, EndOK
  <2>3. pc = "returned" => ~success
    BY <1>3, <2>1 DEF Inv, EndOK
  <2>4. Agree(ctl.moved)' <=> Agree(ctl.moved)
    BY <1>1, <1>5 DEF Agree
  <2>5. /\ Passed' = ctl.moved
        /\ Passed = IF ctl.phase = "program" THEN ctl.moved + 1 ELSE ctl.moved
    BY <1>5 DEF Passed
  <2>6. CASE pc \in Moving
    <3>1. Passed <= block /\ (Passed = block => Agree(ctl.moved)) /\ block \in Nat
          /\ "transfer" \notin int_flags
      BY <1>3, <2>1, <2>6 DEF Inv, EndOK, TypeOK
    <3>2. Passed' <= block /\ (Passed' = block => Agree(ctl.moved))
      BY <1>5, <2>5, <3>1
    <3>3. ctl.phase = "busy" => ctl.moved = call.nsec
      BY <2>1, <2>6 DEF Inv, TryOK, Trying
    <3>4. "transfer" \in int_flags' => ctl.moved = call.nsec
      BY <1>3, <3>1, <3>3
    <3>5. QED
      BY <1>1, <1>5, <2>3, <2>4, <2>6, <3>2, <3>4 DEF EndOK, Moving
  <2>7. CASE pc \notin Moving
    <3>1. pc \in {"command", "clear", "returned", "issue", "idle", "panic"}
      BY <2>1, <2>7 DEF Inv, TypeOK, CallOK, Moving, Places
    <3>2. "transfer" \notin int_flags'
      BY <1>3, <2>1, <2>2, <2>7, <3>1 DEF Inv, EndOK
    <3>3. QED
      BY <1>1, <1>5, <2>1, <2>3, <2>7, <3>2 DEF Inv, EndOK
  <2>8. QED
    BY <2>6, <2>7
<1>11. stage = "run" /\ late = {} =>
         /\ pc \in {"command", "clear", "block", "transfer"}
         /\ int_flags \subseteq {"cmd"}
         /\ pc \in {"command", "clear"} => ctl.phase # "busy"
  <2>1. SUFFICES ASSUME stage = "run", late = {}
                 PROVE  /\ pc \in {"command", "clear", "block", "transfer"}
                        /\ int_flags \subseteq {"cmd"}
                        /\ pc \in {"command", "clear"} => ctl.phase # "busy"
    OBVIOUS
  <2>2. pc \in Trying
    BY <1>3, <2>1 DEF Inv, FlagsOK, Slow
  <2>3. pc \notin {"move", "end"}
    BY <1>3, <2>1 DEF Inv, FlagsOK, Slow
  <2>4. int_flags \subseteq {"cmd"}
    BY <1>3, <2>1, <2>2 DEF Inv, FlagsOK
  <2>5. pc \in {"command", "clear"} => ctl.phase # "busy"
    BY <2>1 DEF Inv, EndOK
  <2>6. QED
    BY <2>2, <2>3, <2>4, <2>5 DEF Trying, Moving
<1>12. FlagsOK'
  <2>1. SUFFICES ASSUME stage = "run", late = {} PROVE FlagsOK'
    BY <1>1 DEF FlagsOK
  <2>2. int_flags' \subseteq Errors \cup {"cmd", "transfer"}
    BY <1>3, <1>11, <2>1
  <2>3. int_flags' \cap Errors # {}
    BY <1>3
  <2>4. pc \in Moving => "cmd" \notin int_flags'
    BY <1>3, <2>1 DEF Inv, FlagsOK, Errors
  <2>5. pc = "clear" => intr_val' \cap (Errors \cup {"cmd"}) # {}
    BY <1>1, <2>1 DEF Inv, FlagsOK
  <2>6. QED
    BY <1>1, <1>5, <1>11, <2>1, <2>2, <2>3, <2>4, <2>5 DEF FlagsOK, Trying, Moving
<1>13. AbsorbOK'
  BY <1>1, <1>2, <1>11 DEF Inv, AbsorbOK, TypeOK
<1>14. QED
  BY <1>6, <1>7, <1>8, <1>9, <1>10, <1>12, <1>13 DEF Inv

LEMMA MissesDeadlineInv == Inv /\ MissesDeadline => Inv'
<1> SUFFICES ASSUME Inv, MissesDeadline PROVE Inv'
  OBVIOUS
<1>1. UNCHANGED <<pc, stage, device, v2_card, tries, call, retry_count, buffer, block, intr_val,
                  success, result, int_flags, fifo, response, card, disk, late>>
  BY DEF MissesDeadline, driver, issue
<1>2. /\ faults' \in Nat /\ absorb' \in Nat
      /\ stage = "run" => absorb' = absorb + 1
  BY FaultIs DEF MissesDeadline, Inv
<1>3. PICK p \in {"slowCmd", "slowData", "slowBusy"} :
        /\ ctl' = [ctl EXCEPT !.phase = p]
        /\ \/ p = "slowCmd" /\ ctl.phase = "cmd"
           \/ p = "slowData" /\ ctl.phase = "data"
           \/ p = "slowBusy" /\ ctl.phase = "busy"
  BY DEF MissesDeadline, Phase
<1>4. /\ ctl' \in Commands /\ ctl'.phase = p /\ ctl'.cmd = ctl.cmd /\ ctl'.arg = ctl.arg
      /\ ctl'.blocks = ctl.blocks /\ ctl'.moved = ctl.moved
  <2>1. p \in Phases
    BY DEF Phases, Slow
  <2>2. QED
    BY <1>3, <2>1, CommandFields DEF Inv, TypeOK
<1>5. TypeOK'
  BY <1>1, <1>2, <1>4 DEF Inv, TypeOK
<1>6. CapacityOK' /\ CallOK' /\ ReadOK'
  BY <1>1, <1>4 DEF Inv, CapacityOK, CallOK, ReadOK
<1>7. ResetOK'
  BY <1>1, <1>3, <1>4 DEF Inv, ResetOK
<1>8. TryOK'
  BY <1>1, <1>3, <1>4 DEF Inv, TryOK, DataArg
<1>9. EndOK'
  <2>1. SUFFICES ASSUME stage = "run", "slowBusy" \notin late PROVE EndOK'
    BY <1>1 DEF EndOK
  <2>2. Passed' = Passed /\ (Agree(ctl.moved)' <=> Agree(ctl.moved))
    BY <1>1, <1>3, <1>4 DEF Passed, Agree
  <2>3. pc = "returned" => ~success
    BY <1>3, <2>1 DEF Inv, EndOK
  <2>4. QED
    BY <1>1, <1>3, <1>4, <2>1, <2>2, <2>3 DEF Inv, EndOK
<1>10. FlagsOK'
  <2>1. SUFFICES ASSUME stage = "run", late = {} PROVE FlagsOK'
    BY <1>1 DEF FlagsOK
  <2>2. Passed' = Passed
    BY <1>3, <1>4 DEF Passed
  <2>3. QED
    BY <1>1, <1>3, <1>4, <2>1, <2>2 DEF Inv, FlagsOK, Slow
<1>11. stage = "run" /\ late = {} => pc \in Trying
  BY <1>3 DEF Inv, FlagsOK, Slow
<1>12. AbsorbOK'
  BY <1>1, <1>2, <1>11 DEF Inv, AbsorbOK, TypeOK, Trying, Moving
<1>13. QED
  BY <1>5, <1>6, <1>7, <1>8, <1>9, <1>10, <1>12 DEF Inv

-----------------------------------------------------------------------------
(* emmc_issue_command. *)

LEMMA IssueInv == Inv /\ Issue => Inv'
<1> SUFFICES ASSUME Inv, Issue PROVE Inv'
  OBVIOUS
<1>1. /\ UNCHANGED <<stage, device, v2_card, tries, call, retry_count, buffer, block, intr_val,
                     success, result, int_flags, response, card, disk, faults, absorb, late>>
      /\ pc = "issue" /\ pc' = "command" /\ fifo' = << >>
  BY DEF Issue, driver, history
<1>2. PICK cmd : cmd = IF stage = "run" THEN DataCommand(call) ELSE CommandOf[stage]
  OBVIOUS
<1>3. ctl' = [cmd    |-> cmd,
              arg    |-> IF stage = "run" THEN DataArg(call) ELSE StageArg,
              blocks |-> IF cmd \in Multiple THEN device.transfer_blocks ELSE 1,
              phase  |-> "cmd", moved |-> 0]
  BY <1>2 DEF Issue
<1>4. stage = "run" =>
        /\ call \in Calls /\ call # None /\ device.transfer_blocks = call.nsec
        /\ call.nsec \in Nat \ {0} /\ call.lba \in Nat /\ call.op \in {"read", "write"}
        /\ cmd \in {"ReadBlock", "ReadMultiple", "WriteBlock", "WriteMultiple"}
        /\ cmd \in Multiple <=> call.nsec > 1
  BY <1>1, <1>2, CallFacts DEF Inv, CallOK
<1>5. stage # "run" =>
        /\ cmd = CommandOf[stage] /\ cmd \in Names
        /\ cmd \notin {"ReadBlock", "ReadMultiple", "WriteBlock", "WriteMultiple"}
  BY <1>2 DEF Inv, TypeOK, Stages, CommandOf, Names, Data, Reads
<1>6. cmd \in Names /\ (stage = "run" => cmd \in Data)
  BY <1>4, <1>5 DEF Names, Data, Reads
<1>7. stage = "run" => (IF cmd \in Multiple THEN device.transfer_blocks ELSE 1) = call.nsec
  BY <1>4
<1>8. /\ ctl'.cmd = cmd /\ ctl'.phase = "cmd" /\ ctl'.moved = 0
      /\ stage = "run" => ctl'.arg = DataArg(call) /\ ctl'.blocks = call.nsec
  BY <1>3, <1>7
<1>9. ctl' \in Commands
  <2>1. (IF stage = "run" THEN DataArg(call) ELSE StageArg) \in Args
    <3>1. CASE stage = "run"
      <4>1. DataArg(call) \in Nat
        BY <1>4, <3>1 DEF DataArg, SectorSize
      <4>2. QED
        BY <3>1, <4>1, ArgsTyped
    <3>2. CASE stage # "run"
      <4>1. StageArg \in {"inquiry", "voltage", "voltage and HCS", "rca", "no rca"}
        BY DEF StageArg, OcrArg
      <4>2. QED
        BY <3>2, <4>1, ArgsTyped
    <3>3. QED
      BY <3>1, <3>2
  <2>2. (IF cmd \in Multiple THEN device.transfer_blocks ELSE 1) \in Nat
    BY DeviceFields DEF Inv, TypeOK
  <2>3. "cmd" \in Phases /\ 0 \in Nat
    BY DEF Phases
  <2>4. QED
    BY <1>3, <1>6, <2>1, <2>2, <2>3 DEF Commands
<1>10. TypeOK'
  BY <1>1, <1>8, <1>9 DEF Inv, TypeOK, Places
<1>11. CapacityOK' /\ CallOK' /\ ReadOK'
  BY <1>1, <1>6, <1>8 DEF Inv, CapacityOK, CallOK, ReadOK
<1>12. ResetOK'
  BY <1>1, <1>5, <1>8 DEF Inv, ResetOK, Trying
<1>13. TryOK'
  <2>1. SUFFICES ASSUME stage = "run" PROVE TryOK'
    BY <1>1 DEF TryOK
  <2>2. DataArg(call)' = DataArg(call) /\ cmd = DataCommand(call)
    BY <1>1, <1>2, <2>1 DEF DataArg
  <2>3. QED
    BY <1>1, <1>4, <1>8, <2>1, <2>2 DEF TryOK
<1>14. EndOK'
  BY <1>1, <1>8 DEF Inv, EndOK, Moving
<1>15. FlagsOK'
  BY <1>1, <1>8 DEF Inv, FlagsOK, Trying, Moving
<1>16. AbsorbOK'
  <2>1. late = {} /\ stage = "run" => int_flags = {}
    BY <1>1 DEF Inv, FlagsOK, Trying, Moving
  <2>2. late = {} /\ stage = "run" => Unharmed'
    BY <1>1, <1>8, <2>1 DEF Unharmed, Slow
  <2>3. QED
    BY <1>1, <2>2 DEF Inv, AbsorbOK
<1>17. QED
  BY <1>10, <1>11, <1>12, <1>13, <1>14, <1>15, <1>16 DEF Inv

LEMMA AwaitCommandInv == Inv /\ AwaitCommand => Inv'
<1> SUFFICES ASSUME Inv, AwaitCommand PROVE Inv'
  OBVIOUS
<1>1. /\ UNCHANGED <<stage, device, v2_card, tries, call, retry_count, buffer, block, success,
                     result, int_flags, ctl, fifo, response, card, disk, faults, absorb, late>>
      /\ pc = "command" /\ pc' = "clear" /\ intr_val' = int_flags
      /\ int_flags \cap (Errors \cup {"cmd"}) # {}
  BY DEF AwaitCommand, driver, hardware, history
<1>2. TypeOK' /\ CapacityOK' /\ CallOK' /\ ReadOK'
  BY <1>1 DEF Inv, TypeOK, CapacityOK, CallOK, ReadOK, Places
<1>3. ResetOK'
  BY <1>1 DEF Inv, ResetOK, Trying
<1>4. TryOK'
  BY <1>1 DEF Inv, TryOK, Trying, DataArg
<1>5. EndOK'
  BY <1>1 DEF Inv, EndOK, Moving
<1>6. FlagsOK'
  BY <1>1 DEF Inv, FlagsOK, Trying, Moving
<1>7. AbsorbOK'
  BY <1>1 DEF Inv, AbsorbOK, Trying, Unharmed
<1>8. QED
  BY <1>2, <1>3, <1>4, <1>5, <1>6, <1>7 DEF Inv

\* As long as nothing was late, a command is given up only if the card has
\* missed its deadline, and no flag is left behind.
LEMMA GiveUpCommandInv == Inv /\ GiveUpCommand => Inv'
<1> SUFFICES ASSUME Inv, GiveUpCommand PROVE Inv'
  OBVIOUS
<1>1. /\ UNCHANGED <<stage, device, v2_card, tries, call, retry_count, buffer, block, intr_val,
                     result, int_flags, ctl, fifo, response, card, disk, faults, absorb, late>>
      /\ pc = "command" /\ pc' = "returned" /\ success' = FALSE
      /\ int_flags \cap (Errors \cup {"cmd"}) = {}
      /\ ctl.phase \notin {"cmd", "data", "program", "busy"}
  BY DEF GiveUpCommand, driver, hardware, history, WaitRunsOut
<1>2. TypeOK' /\ CapacityOK' /\ CallOK' /\ ReadOK'
  BY <1>1 DEF Inv, TypeOK, CapacityOK, CallOK, ReadOK, Places
<1>3. ResetOK'
  BY <1>1 DEF Inv, ResetOK, Trying
<1>4. TryOK'
  BY <1>1 DEF TryOK, Trying, Moving
<1>5. EndOK'
  BY <1>1 DEF Inv, EndOK, Moving
<1>6. stage = "run" /\ late = {} => ctl.phase = "slowCmd" /\ int_flags = {}
  <2>1. SUFFICES ASSUME stage = "run", late = {} PROVE ctl.phase = "slowCmd" /\ int_flags = {}
    OBVIOUS
  <2>2. ctl.phase \in {"slowCmd", "done"} \/ "cmd" \in int_flags
    BY <1>1, <2>1 DEF Inv, FlagsOK
  <2>3. ctl.phase = "done" => int_flags \cap Errors # {}
    BY <1>1, <2>1 DEF Inv, FlagsOK
  <2>4. ctl.phase = "slowCmd"
    BY <1>1, <2>2, <2>3
  <2>5. QED
    BY <1>1, <2>1, <2>4 DEF Inv, FlagsOK, Trying
<1>7. FlagsOK'
  BY <1>1, <1>6 DEF FlagsOK, Trying, Moving, Slow
<1>8. AbsorbOK'
  BY <1>1, <1>6 DEF Inv, AbsorbOK, Trying, Moving, Unharmed, Slow
<1>9. QED
  BY <1>2, <1>3, <1>4, <1>5, <1>7, <1>8 DEF Inv

\* The two outcomes of the test after the wait for the command.
LEMMA ClearCommandInv == Inv /\ ClearCommand => Inv'
<1> SUFFICES ASSUME Inv, ClearCommand PROVE Inv'
  OBVIOUS
<1>1. /\ UNCHANGED <<stage, v2_card, tries, call, retry_count, buffer, result, ctl, fifo,
                     response, card, disk, faults, absorb, late>>
      /\ pc = "clear" /\ intr_val' = {} /\ int_flags' = int_flags \ (Errors \cup {"cmd"})
  BY DEF ClearCommand, history, Cleared
<1>2. \/ /\ intr_val \cap (Errors \cup {"cmd"}) # {"cmd"}
         /\ pc' = "returned" /\ success' = FALSE /\ block' = block
      \/ /\ intr_val \cap (Errors \cup {"cmd"}) = {"cmd"}
         /\ success' = TRUE /\ block' = 0
         /\ pc' = IF ctl.cmd \in Data THEN "block"
                  ELSE IF ctl.cmd \in Busy THEN "transfer" ELSE "returned"
  BY DEF ClearCommand
<1>3. /\ device' \in Devices /\ device'.sdhc = device.sdhc
      /\ device'.transfer_blocks = device.transfer_blocks
      /\ \/ device'.last_response = device.last_response
         \/ device'.last_response = response
  <2>1. device \in Devices /\ response \in Responses /\ intr_val \cap Errors \in SUBSET Errors
    BY DEF Inv, TypeOK
  <2>2. \/ device' = [device EXCEPT !.last_error = intr_val \cap Errors]
        \/ device' = device
        \/ device' = [device EXCEPT !.last_response = response]
    BY DEF ClearCommand
  <2>3. CASE device' = [device EXCEPT !.last_error = intr_val \cap Errors]
    BY <2>1, <2>3, DeviceFields
  <2>4. CASE device' = [device EXCEPT !.last_response = response]
    BY <2>1, <2>4, DeviceFields
  <2>5. QED
    BY <2>1, <2>2, <2>3, <2>4
<1>4. TypeOK'
  <2>1. pc' \in Places /\ success' \in BOOLEAN /\ block' \in Nat
    <3>1. pc' \in Places
      BY <1>2 DEF Places
    <3>2. success' \in BOOLEAN
      BY <1>2
    <3>3. block' \in Nat
      BY <1>2 DEF Inv, TypeOK
    <3>4. QED
      BY <3>1, <3>2, <3>3
  <2>2. int_flags' \subseteq Flags /\ intr_val' \subseteq Flags
    BY <1>1 DEF Inv, TypeOK
  <2>3. QED
    BY <1>1, <1>3, <2>1, <2>2 DEF Inv, TypeOK
<1>5. CapacityOK' /\ CallOK' /\ ReadOK'
  BY <1>1, <1>2, <1>3 DEF Inv, CapacityOK, CallOK, ReadOK
<1>6. ResetOK'
  BY <1>1, <1>2 DEF Inv, ResetOK, Trying, Moving, Data, Reads, Busy
<1>7. stage = "run" => pc' \in {"returned", "block"} /\ (pc' = "block" => block' = 0 /\ success')
  BY <1>1, <1>2 DEF Inv, CallOK
<1>8. TryOK'
  <2>1. SUFFICES ASSUME stage = "run", pc' = "block" PROVE TryOK'
    BY <1>1, <1>7 DEF TryOK, Trying, Moving
  <2>2. DataArg(call)' = DataArg(call) /\ call.nsec \in Nat
    BY <1>1, <1>3, <2>1, TargetInCall, CallFacts DEF DataArg, Trying
  <2>3. QED
    BY <1>1, <1>7, <2>1, <2>2 DEF Inv, TryOK, Trying, Moving
<1>9. EndOK'
  <2>1. SUFFICES ASSUME stage = "run", "slowBusy" \notin late PROVE EndOK'
    BY <1>1 DEF EndOK
  <2>2. /\ ctl.moved = 0 /\ ctl.phase \notin {"program", "busy", "slowBusy"}
        /\ "transfer" \notin int_flags'
    BY <1>1, <2>1 DEF Inv, EndOK, Moving
  <2>3. CASE pc' = "returned"
    BY <1>1, <1>2, <1>7, <2>1, <2>2, <2>3 DEF EndOK, Moving, Inv, CallOK
  <2>4. CASE pc' = "block"
    <3>1. Passed' = 0 /\ Agree(ctl.moved)' /\ ctl'.phase # "program"
      BY <1>1, <2>2 DEF Passed, Agree
    <3>2. int_flags' \cap Errors = {}
      BY <1>1
    <3>3. QED
      BY <1>1, <1>7, <2>2, <2>4, <3>1, <3>2 DEF EndOK, Moving
  <2>5. QED
    BY <1>7, <2>1, <2>3, <2>4
<1>10. stage = "run" /\ late = {} =>
         /\ ctl.phase \notin {"cmd", "slowCmd", "program", "busy", "slowBusy"}
         /\ "transfer" \notin int_flags /\ ctl.moved = 0
         /\ pc' = "returned" => ctl.phase = "done" /\ int_flags \cap Errors # {}
  <2>1. SUFFICES ASSUME stage = "run", late = {}
                 PROVE  /\ ctl.phase \notin {"cmd", "slowCmd", "program", "busy", "slowBusy"}
                        /\ "transfer" \notin int_flags /\ ctl.moved = 0
                        /\ pc' = "returned" => ctl.phase = "done" /\ int_flags \cap Errors # {}
    OBVIOUS
  <2>2. /\ ctl.phase \notin {"program", "busy", "slowBusy"}
        /\ "transfer" \notin int_flags /\ ctl.moved = 0
    BY <1>1, <2>1 DEF Inv, EndOK, Moving
  <2>3. ctl.phase \notin {"cmd", "slowCmd"}
    BY <1>1, <2>1 DEF Inv, FlagsOK, Trying
  <2>4. ASSUME pc' = "returned" PROVE ctl.phase = "done" /\ int_flags \cap Errors # {}
    <3>1. intr_val \cap (Errors \cup {"cmd"}) # {"cmd"}
      BY <1>2, <2>1, <2>4 DEF Inv, CallOK
    <3>2. intr_val \cap (Errors \cup {"cmd"}) # {} /\ intr_val \subseteq int_flags
      BY <1>1, <2>1 DEF Inv, FlagsOK, ReadOK
    <3>3. int_flags \cap Errors # {}
      BY <3>1, <3>2
    <3>4. ctl.phase = "done"
      <4>1. ctl.phase \in {"data", "slowData"} => int_flags \cap Errors = {}
        BY <1>1, <2>1 DEF Inv, FlagsOK, Trying, Errors
      <4>2. ctl.phase \in {"drain", "fill"} => int_flags \cap Errors = {}
        BY <1>1, <2>1 DEF Inv, FlagsOK, Trying, Errors, Ready
      <4>3. QED
        BY <2>2, <2>3, <3>3, <4>1, <4>2 DEF Inv, TypeOK, Phases, Slow, Commands
    <3>5. QED
      BY <3>3, <3>4
  <2>5. QED
    BY <2>2, <2>3, <2>4
<1>11. FlagsOK'
  <2>1. SUFFICES ASSUME stage = "run", late = {} PROVE FlagsOK'
    BY <1>1 DEF FlagsOK
  <2>2. CASE pc' = "returned"
    <3>1. int_flags' = {}
      BY <1>1, <1>10, <2>1, <2>2 DEF Inv, FlagsOK, Trying
    <3>2. QED
      BY <1>1, <1>10, <2>1, <2>2, <3>1 DEF FlagsOK, Trying, Moving
  <2>3. CASE pc' = "block"
    <3>1. Passed' = 0 /\ block' = 0
      BY <1>1, <1>7, <1>10, <2>1, <2>3 DEF Passed
    <3>2. Ready(ctl.cmd)' = Ready(ctl.cmd) /\ Ready(ctl.cmd) \notin Errors \cup {"cmd"}
      BY <1>1 DEF Ready, Errors
    <3>3. QED
      BY <1>1, <1>10, <2>1, <2>3, <3>1, <3>2 DEF Inv, FlagsOK, Trying, Moving
  <2>4. QED
    BY <1>7, <2>1, <2>2, <2>3
<1>12. AbsorbOK'
  <2>1. SUFFICES ASSUME stage = "run", late = {} PROVE AbsorbOK'
    BY <1>1, <1>7 DEF AbsorbOK
  <2>2. absorb >= retry_count /\ (Unharmed \/ absorb >= retry_count + 1)
    BY <1>1, <2>1 DEF Inv, AbsorbOK, Trying
  <2>3. CASE pc' = "returned"
    BY <1>1, <1>10, <2>1, <2>2, <2>3 DEF AbsorbOK, Unharmed, Trying, Moving
  <2>4. CASE pc' = "block"
    <3>1. Unharmed => Unharmed'
      BY <1>1 DEF Unharmed, Errors
    <3>2. QED
      BY <1>1, <2>1, <2>2, <2>4, <3>1 DEF AbsorbOK
  <2>5. QED
    BY <1>7, <2>1, <2>3, <2>4
<1>13. QED
  BY <1>4, <1>5, <1>6, <1>8, <1>9, <1>11, <1>12 DEF Inv

-----------------------------------------------------------------------------
(* do_data_transfer and the end of the transfer. *)

LEMMA AwaitBlockInv == Inv /\ AwaitBlock => Inv'
<1> SUFFICES ASSUME Inv, AwaitBlock PROVE Inv'
  OBVIOUS
<1>1. /\ UNCHANGED <<stage, device, v2_card, tries, call, retry_count, buffer, block, success,
                     result, int_flags, ctl, fifo, response, card, disk, faults, absorb, late>>
      /\ pc = "block"
  BY DEF AwaitBlock, driver, hardware, history
<1>2. \/ /\ block = device.transfer_blocks /\ pc' = "transfer" /\ intr_val' = intr_val
      \/ /\ block # device.transfer_blocks /\ pc' = "move" /\ intr_val' = int_flags
         /\ \/ int_flags \cap (Errors \cup {Ready(ctl.cmd)}) # {}
            \/ ctl.phase \notin {"cmd", "data", "program", "busy"}
  BY DEF AwaitBlock, WaitRunsOut
<1>3. TypeOK'
  BY <1>1, <1>2 DEF Inv, TypeOK, Places
<1>4. CapacityOK' /\ CallOK'
  BY <1>1, <1>2 DEF Inv, CapacityOK, CallOK
<1>5. ReadOK'
  BY <1>1, <1>2 DEF Inv, ReadOK
<1>6. ResetOK'
  BY <1>1, <1>2 DEF Inv, ResetOK, Trying, Moving
<1>7. stage = "run" => /\ device.transfer_blocks = call.nsec /\ block <= call.nsec
                       /\ block \in Nat /\ call.nsec \in Nat /\ ctl.moved \in Nat
  BY <1>1, TargetInCall, CallFacts, CommandFields
  DEF Inv, TypeOK, CallOK, TryOK, Trying, Moving
<1>8. TryOK'
  <2>1. SUFFICES ASSUME stage = "run" PROVE TryOK'
    BY <1>1 DEF TryOK
  <2>2. pc' = "move" => block < call.nsec
    BY <1>2, <1>7, <2>1
  <2>3. DataArg(call)' = DataArg(call)
    BY <1>1 DEF DataArg
  <2>4. QED
    BY <1>1, <1>2, <2>1, <2>2, <2>3 DEF Inv, TryOK, Trying, Moving
<1>9. EndOK'
  <2>1. SUFFICES ASSUME stage = "run", "slowBusy" \notin late PROVE EndOK'
    BY <1>1 DEF EndOK
  <2>2. Passed' = Passed /\ (Agree(ctl.moved)' <=> Agree(ctl.moved))
    BY <1>1 DEF Passed, Agree
  <2>3. QED
    BY <1>1, <1>2, <2>1, <2>2 DEF Inv, EndOK, Moving
<1>10. FlagsOK'
  <2>1. SUFFICES ASSUME stage = "run", late = {} PROVE FlagsOK'
    BY <1>1 DEF FlagsOK
  <2>2. Passed' = Passed /\ Ready(ctl.cmd)' = Ready(ctl.cmd)
    BY <1>1 DEF Passed, Ready
  <2>3. /\ ctl.phase \in Phases /\ ctl.phase \notin {"cmd", "slowCmd"} /\ "cmd" \notin int_flags
        /\ ctl.phase # "done" => Passed = block
        /\ ctl.phase \in {"data", "slowData", "program", "busy", "slowBusy"} => int_flags = {}
        /\ ctl.phase = "done" => Ready(ctl.cmd) \notin int_flags
    BY <1>1, <2>1, CommandFields DEF Inv, FlagsOK, TypeOK, Trying, Moving, Ready, Errors
  <2>4. CASE pc' = "transfer"
    <3>1. block = call.nsec
      BY <1>2, <1>7, <2>1, <2>4
    <3>2. ctl.phase \notin {"data", "slowData", "drain", "fill"}
      BY <1>1, <1>7, <2>1, <2>3, <3>1 DEF Inv, TryOK, Trying, Moving, Passed
    <3>3. QED
      BY <1>1, <2>1, <2>2, <2>3, <2>4, <3>1, <3>2 DEF Inv, FlagsOK, Trying, Moving, Phases
  <2>5. CASE pc' = "move"
    <3>1. ctl.phase \in {"drain", "fill", "done"} \cup Slow
      BY <1>2, <2>3, <2>5 DEF Phases
    <3>2. intr_val' = int_flags
      BY <1>2, <2>5
    <3>3. QED
      BY <1>1, <2>1, <2>2, <2>5, <3>1, <3>2 DEF Inv, FlagsOK, Trying, Moving
  <2>6. QED
    BY <1>2, <2>4, <2>5
<1>11. AbsorbOK'
  BY <1>1, <1>2 DEF Inv, AbsorbOK, Trying, Moving, Unharmed
<1>12. QED
  BY <1>3, <1>4, <1>5, <1>6, <1>8, <1>9, <1>10, <1>11 DEF Inv

\* What the two outcomes of a wait for a block have in common.
LEMMA MoveFailsInv == Inv /\ MoveFails => Inv'
<1> SUFFICES ASSUME Inv, MoveFails PROVE Inv'
  OBVIOUS
<1>1. /\ UNCHANGED <<stage, v2_card, tries, call, retry_count, buffer, result, block, success,
                     ctl, fifo, response, card, disk, faults, absorb, late>>
      /\ pc = "move" /\ pc' = "transfer" /\ intr_val' = {}
      /\ int_flags' = int_flags \ {Ready(ctl.cmd)}
      /\ intr_val \cap (Errors \cup {Ready(ctl.cmd)}) # {Ready(ctl.cmd)}
  BY DEF MoveFails, history
<1>2. /\ device' \in Devices /\ device'.sdhc = device.sdhc
      /\ device'.transfer_blocks = device.transfer_blocks
      /\ device'.last_response = device.last_response
  <2>1. device \in Devices /\ intr_val \cap Errors \in SUBSET Errors
    BY DEF Inv, TypeOK
  <2>2. device' = [device EXCEPT !.last_error = intr_val \cap Errors]
    BY DEF MoveFails
  <2>3. QED
    BY <2>1, <2>2, DeviceFields
<1>3. Ready(ctl.cmd) \in {"readReady", "writeReady"}
  BY DEF Ready
<1>4. TypeOK'
  BY <1>1, <1>2 DEF Inv, TypeOK, Places
<1>5. CapacityOK' /\ CallOK' /\ ReadOK'
  BY <1>1, <1>2 DEF Inv, CapacityOK, CallOK, ReadOK
<1>6. ResetOK'
  BY <1>1, <1>3 DEF Inv, ResetOK, Trying, Moving
<1>7. TryOK'
  BY <1>1, <1>2 DEF Inv, TryOK, Trying, Moving, DataArg
<1>8. EndOK'
  <2>1. SUFFICES ASSUME stage = "run", "slowBusy" \notin late PROVE EndOK'
    BY <1>1 DEF EndOK
  <2>2. Passed' = Passed /\ (Agree(ctl.moved)' <=> Agree(ctl.moved))
    BY <1>1 DEF Passed, Agree
  <2>3. int_flags' \subseteq int_flags
    BY <1>1
  <2>4. QED
    BY <1>1, <2>1, <2>2, <2>3 DEF Inv, EndOK, Moving
<1>9. FlagsOK'
  <2>1. SUFFICES ASSUME stage = "run", late = {} PROVE FlagsOK'
    BY <1>1 DEF FlagsOK
  <2>2. Passed' = Passed
    BY <1>1 DEF Passed
  <2>3. intr_val = int_flags /\ ctl.phase \in {"drain", "fill", "done"} \cup Slow
    BY <1>1, <2>1 DEF Inv, FlagsOK
  <2>4. ctl.phase \notin {"drain", "fill"}
    <3>1. SUFFICES ASSUME ctl.phase \in {"drain", "fill"} PROVE FALSE
      OBVIOUS
    <3>2. Ready(ctl.cmd) \in int_flags /\ int_flags \subseteq {"cmd", Ready(ctl.cmd)}
      BY <1>1, <2>1, <3>1 DEF Inv, FlagsOK, Trying, Moving
    <3>3. int_flags \cap (Errors \cup {Ready(ctl.cmd)}) = {Ready(ctl.cmd)}
      BY <3>2 DEF Errors
    <3>4. QED
      BY <1>1, <2>3, <3>3
  <2>5. QED
    BY <1>1, <1>3, <2>1, <2>2, <2>3, <2>4 DEF Inv, FlagsOK, Trying, Moving, Slow
<1>10. AbsorbOK'
  <2>1. SUFFICES ASSUME stage = "run", late = {} PROVE AbsorbOK'
    BY <1>1 DEF Inv, AbsorbOK
  <2>2. /\ intr_val = int_flags /\ ctl.phase \in {"drain", "fill", "done"} \cup Slow
        /\ ctl.phase \in {"drain", "fill"} => Ready(ctl.cmd) \in int_flags
    BY <1>1, <2>1 DEF Inv, FlagsOK, Trying, Moving
  <2>3. ~Unharmed
    <3>1. SUFFICES ASSUME Unharmed PROVE FALSE
      OBVIOUS
    <3>2. ctl.phase = "done"
      BY <1>1, <2>2, <3>1 DEF Unharmed
    <3>3. ctl.moved = call.nsec /\ Passed <= block /\ Passed = ctl.moved
      <4>1. ctl.moved = call.nsec /\ Passed <= block
        BY <1>1, <2>1, <3>1, <3>2 DEF Inv, EndOK, Moving, Unharmed
      <4>2. ctl.moved \in Nat
        BY CommandFields DEF Inv, TypeOK
      <4>3. QED
        BY <3>2, <4>1, <4>2 DEF Passed
    <3>4. block < call.nsec /\ block \in Nat /\ call.nsec \in Nat
      BY <1>1, <2>1, TargetInCall, CallFacts DEF Inv, TryOK, TypeOK, Trying, Moving
    <3>5. QED
      BY <3>3, <3>4
  <2>4. QED
    BY <1>1, <2>1, <2>3 DEF Inv, AbsorbOK, Trying, Moving
<1>11. QED
  BY <1>4, <1>5, <1>6, <1>7, <1>8, <1>9, <1>10 DEF Inv

\* A block moves: Passed and block grow together, unless the flag was stale
\* and the controller had nothing to give or to take.
LEMMA MoveBlockInv == Inv /\ MoveBlock => Inv'
<1> SUFFICES ASSUME Inv, MoveBlock PROVE Inv'
  OBVIOUS
<1>1. /\ UNCHANGED <<stage, device, v2_card, tries, call, retry_count, result, success,
                     response, card, disk, faults, absorb, late>>
      /\ pc = "move" /\ pc' = "block" /\ intr_val' = {} /\ block' = block + 1
      /\ int_flags' = int_flags \ {Ready(ctl.cmd)}
      /\ Ready(ctl.cmd) \in intr_val /\ intr_val \cap Errors = {}
  <2>1. Ready(ctl.cmd) \notin Errors
    BY DEF Ready, Errors
  <2>2. QED
    BY <2>1 DEF MoveBlock, history
<1>2. /\ ctl.cmd \in Reads /\ fifo # << >> =>
           /\ \E v \in Stored : fifo = << v >> /\ buffer' = IF ctl.cmd = "SendSCR" THEN buffer
                                                             ELSE [buffer EXCEPT ![block + 1] = v]
           /\ fifo' = << >>
           /\ ctl' = [ctl EXCEPT !.moved = @ + 1,
                                 !.phase = IF ctl.moved + 1 = ctl.blocks THEN "busy" ELSE "data"]
      /\ ctl.cmd \in Reads /\ fifo = << >> =>
           /\ fifo' = fifo /\ ctl' = ctl
           /\ buffer' = IF ctl.cmd = "SendSCR" THEN buffer ELSE [buffer EXCEPT ![block + 1] = Junk]
      /\ ctl.cmd \notin Reads => buffer' = buffer
      /\ ctl.cmd \notin Reads /\ ctl.phase = "fill" =>
           ctl' = [ctl EXCEPT !.phase = "program"] /\ fifo' = << buffer[block + 1] >>
      /\ ctl.cmd \notin Reads /\ ctl.phase # "fill" => ctl' = ctl /\ fifo' = fifo
  <2>1. fifo = << >> \/ \E v \in Stored : fifo = << v >> /\ Head(fifo) = v
    BY DEF Inv, TypeOK
  <2>2. ASSUME ctl.cmd \in Reads, fifo # << >>
        PROVE  /\ \E v \in Stored : fifo = << v >> /\ buffer' = IF ctl.cmd = "SendSCR" THEN buffer
                                                               ELSE [buffer EXCEPT ![block + 1] = v]
               /\ fifo' = << >>
               /\ ctl' = [ctl EXCEPT !.moved = @ + 1,
                                     !.phase = IF ctl.moved + 1 = ctl.blocks THEN "busy" ELSE "data"]
    BY <2>1, <2>2 DEF MoveBlock
  <2>3. QED
    BY <2>2 DEF MoveBlock
<1>3. /\ ctl \in Commands /\ ctl.moved \in Nat /\ ctl.phase \in Phases /\ block \in Nat
      /\ int_flags' \subseteq int_flags
  BY <1>1, CommandFields DEF Inv, TypeOK
<1>4. /\ ctl' \in Commands /\ ctl'.cmd = ctl.cmd /\ ctl'.arg = ctl.arg /\ ctl'.blocks = ctl.blocks
      /\ \/ /\ ctl.cmd \in Reads /\ fifo # << >> /\ ctl'.moved = ctl.moved + 1
            /\ ctl'.phase = IF ctl.moved + 1 = ctl.blocks THEN "busy" ELSE "data"
         \/ ctl.cmd \in Reads /\ fifo = << >> /\ ctl' = ctl
         \/ /\ ctl.cmd \notin Reads /\ ctl.phase = "fill" /\ ctl'.moved = ctl.moved
            /\ ctl'.phase = "program"
         \/ ctl.cmd \notin Reads /\ ctl.phase # "fill" /\ ctl' = ctl
  <2>1. {"busy", "data", "program"} \subseteq Phases
    BY DEF Phases
  <2>2. CASE ctl.cmd \in Reads /\ fifo # << >>
    <3>1. PICK p \in {"busy", "data"} :
            p = IF ctl.moved + 1 = ctl.blocks THEN "busy" ELSE "data"
      OBVIOUS
    <3>2. ctl' = [ctl EXCEPT !.moved = @ + 1, !.phase = p]
      BY <1>2, <2>2, <3>1
    <3>3. p \in Phases
      BY <2>1
    <3>4. /\ ctl' \in Commands /\ ctl'.cmd = ctl.cmd /\ ctl'.arg = ctl.arg
          /\ ctl'.blocks = ctl.blocks /\ ctl'.moved = ctl.moved + 1 /\ ctl'.phase = p
      BY <1>3, <3>2, <3>3, MovedFields
    <3>5. QED
      BY <2>2, <3>1, <3>4
  <2>3. CASE ctl.cmd \in Reads /\ fifo = << >>
    BY <1>2, <1>3, <2>3
  <2>4. CASE ctl.cmd \notin Reads /\ ctl.phase = "fill"
    <3>1. ctl' = [ctl EXCEPT !.phase = "program"]
      BY <1>2, <2>4
    <3>2. QED
      BY <1>3, <2>1, <2>4, <3>1, CommandFields
  <2>5. CASE ctl.cmd \notin Reads /\ ctl.phase # "fill"
    BY <1>2, <1>3, <2>5
  <2>6. QED
    BY <2>2, <2>3, <2>4, <2>5
<1>5. stage = "run" =>
        /\ call \in Calls /\ call # None /\ call.nsec \in Nat /\ block < call.nsec
        /\ call.op \in {"read", "write"} /\ (ctl.cmd \in Reads <=> call.op = "read")
        /\ ctl.cmd # "SendSCR" /\ ctl.blocks = call.nsec
        /\ buffer \in [1 .. call.nsec -> Stored]
        /\ call.op = "write" => buffer = call.data /\ buffer \in [1 .. call.nsec -> Values]
  <2>1. SUFFICES ASSUME stage = "run"
                 PROVE  /\ call \in Calls /\ call # None /\ call.nsec \in Nat /\ block < call.nsec
                        /\ call.op \in {"read", "write"} /\ (ctl.cmd \in Reads <=> call.op = "read")
                        /\ ctl.cmd # "SendSCR" /\ ctl.blocks = call.nsec
                        /\ buffer \in [1 .. call.nsec -> Stored]
                        /\ call.op = "write" => buffer = call.data /\ buffer \in [1 .. call.nsec -> Values]
    OBVIOUS
  <2>2. pc \in Trying
    BY <1>1 DEF Trying, Moving
  <2>3. /\ call \in Calls /\ call # None /\ ctl.cmd = DataCommand(call)
        /\ ctl.blocks = call.nsec
    BY <2>1, <2>2, TargetInCall
  <2>4. block < call.nsec
    BY <1>1, <2>1, <2>2 DEF Inv, TryOK
  <2>5. /\ buffer \in [1 .. call.nsec -> Stored]
        /\ call.op = "write" => buffer = call.data
    BY <2>3 DEF Inv, CallOK
  <2>6. QED
    BY <2>3, <2>4, <2>5, CallFacts
<1>6. stage = "run" /\ ctl.cmd \in Reads /\ fifo # << >> =>
        /\ ctl.phase = "drain" /\ fifo = << disk[call.lba + ctl.moved] >>
        /\ ctl.moved < call.nsec
        /\ buffer' = [buffer EXCEPT ![block + 1] = disk[call.lba + ctl.moved]]
  <2>1. SUFFICES ASSUME stage = "run", ctl.cmd \in Reads, fifo # << >>
                 PROVE  /\ ctl.phase = "drain" /\ fifo = << disk[call.lba + ctl.moved] >>
                        /\ ctl.moved < call.nsec
                        /\ buffer' = [buffer EXCEPT ![block + 1] = disk[call.lba + ctl.moved]]
    OBVIOUS
  <2>2. ctl.phase = "drain"
    BY <1>1, <1>5, <2>1 DEF Inv, TryOK, Trying, Moving
  <2>3. fifo = << disk[call.lba + ctl.moved] >> /\ ctl.moved < call.nsec
    BY <1>1, <1>5, <2>1, <2>2 DEF Inv, TryOK, Trying, Moving
  <2>4. PICK v \in Stored : fifo = << v >> /\ buffer' = [buffer EXCEPT ![block + 1] = v]
    BY <1>2, <1>5, <2>1
  <2>5. v = fifo[1] /\ disk[call.lba + ctl.moved] = fifo[1]
    BY <2>3, <2>4
  <2>6. QED
    BY <2>2, <2>3, <2>4, <2>5
<1>7. TypeOK'
  <2>1. fifo' = << >> \/ \E v \in Stored : fifo' = << v >>
    <3>1. CASE ctl.cmd \notin Reads /\ ctl.phase = "fill"
      <4>1. stage = "run"
        BY <3>1 DEF Inv, ResetOK
      <4>2. fifo' = << buffer[block + 1] >> /\ buffer[block + 1] \in Stored
        BY <1>2, <1>3, <1>5, <3>1, <4>1
      <4>3. QED
        BY <4>2
    <3>2. CASE ~(ctl.cmd \notin Reads /\ ctl.phase = "fill")
      BY <1>2, <3>2 DEF Inv, TypeOK
    <3>3. QED
      BY <3>1, <3>2
  <2>2. ctl'.phase = "program" => \E v \in Values : fifo' = << v >>
    <3>1. CASE ctl.cmd \notin Reads /\ ctl.phase = "fill"
      <4>1. stage = "run"
        BY <3>1 DEF Inv, ResetOK
      <4>2. fifo' = << buffer[block + 1] >> /\ buffer[block + 1] \in Values
        BY <1>2, <1>3, <1>5, <3>1, <4>1
      <4>3. QED
        BY <4>2
    <3>2. CASE ~(ctl.cmd \notin Reads /\ ctl.phase = "fill")
      BY <1>2, <1>4, <3>2 DEF Inv, TypeOK
    <3>3. QED
      BY <3>1, <3>2
  <2>3. QED
    BY <1>1, <1>3, <1>4, <2>1, <2>2 DEF Inv, TypeOK, Places
<1>8. CallOK'
  <2>1. call # None => call \in Calls /\ stage = "run"
    BY DEF Inv, CallOK
  <2>2. stage = "run" => /\ buffer' \in [1 .. call.nsec -> Stored]
                         /\ call.op = "write" => buffer' = call.data
    <3>1. Junk \in Stored
      BY DEF Stored
    <3>2. CASE ctl.cmd \in Reads
      BY <1>2, <1>5, <3>1, <3>2
    <3>3. CASE ctl.cmd \notin Reads
      BY <1>2, <1>5, <3>3
    <3>4. QED
      BY <3>2, <3>3
  <2>3. QED
    BY <1>1, <1>4, <2>1, <2>2 DEF Inv, CallOK
<1>9. CapacityOK' /\ ReadOK'
  BY <1>1 DEF Inv, CapacityOK, ReadOK
<1>10. ResetOK'
  <2>1. SUFFICES ASSUME stage # "run" PROVE ResetOK'
    BY <1>1 DEF ResetOK
  <2>2. CASE ctl.cmd \in Reads /\ fifo # << >>
    <3>1. ctl.cmd = "SendSCR" /\ ctl.phase = "drain" /\ fifo' = << >> /\ ctl'.phase \in {"busy", "data"}
      BY <1>2, <1>4, <2>1, <2>2 DEF Inv, ResetOK, Reads
    <3>2. "transfer" \notin int_flags'
      BY <1>3, <2>1, <3>1 DEF Inv, ResetOK
    <3>3. QED
      BY <1>1, <1>4, <2>1, <3>1, <3>2 DEF Inv, ResetOK, Trying, Moving
  <2>3. CASE ~(ctl.cmd \in Reads /\ fifo # << >>)
    <3>1. ctl' = ctl /\ fifo' = fifo
      BY <1>2, <2>1, <2>3 DEF Inv, ResetOK
    <3>2. QED
      BY <1>1, <1>3, <2>1, <3>1 DEF Inv, ResetOK, Trying, Moving
  <2>4. QED
    BY <2>2, <2>3
<1>11. TryOK'
  <2>1. SUFFICES ASSUME stage = "run" PROVE TryOK'
    BY <1>1 DEF TryOK
  <2>2. DataArg(call)' = DataArg(call) /\ block' <= call.nsec
    BY <1>1, <1>3, <1>5, <2>1 DEF DataArg
  <2>3. pc \in Trying /\ pc' = "block"
    BY <1>1 DEF Trying, Moving
  <2>4. /\ ctl.cmd = DataCommand(call) /\ ctl.arg = DataArg(call) /\ ctl.blocks = call.nsec
        /\ ctl.moved <= call.nsec
    BY <2>1, <2>3 DEF Inv, TryOK
  <2>5. CASE ctl.cmd \in Reads /\ fifo # << >>
    <3>1. /\ ctl.moved < call.nsec /\ fifo' = << >> /\ ctl'.moved = ctl.moved + 1
          /\ ctl'.phase = IF ctl.moved + 1 = call.nsec THEN "busy" ELSE "data"
      BY <1>2, <1>4, <1>6, <2>1, <2>4, <2>5
    <3>2. QED
      BY <1>1, <1>3, <1>4, <1>5, <2>1, <2>2, <2>4, <3>1 DEF TryOK
  <2>6. CASE ctl.cmd \notin Reads /\ ctl.phase = "fill"
    <3>1. ctl'.moved = ctl.moved /\ ctl'.phase = "program" /\ ctl.moved < call.nsec
      BY <1>4, <2>1, <2>3, <2>6 DEF Inv, TryOK
    <3>2. QED
      BY <1>1, <1>3, <1>4, <1>5, <2>1, <2>2, <2>4, <2>6, <3>1 DEF TryOK
  <2>7. CASE ctl' = ctl /\ fifo' = fifo
    BY <1>1, <1>3, <1>5, <2>1, <2>2, <2>3, <2>7 DEF Inv, TryOK
  <2>8. QED
    BY <1>2, <2>5, <2>6, <2>7
<1>12. EndOK'
  <2>1. SUFFICES ASSUME stage = "run", "slowBusy" \notin late PROVE EndOK'
    BY <1>1 DEF EndOK
  <2>2. /\ Passed <= block /\ (Passed = block => Agree(ctl.moved)
             /\ (ctl.phase = "program" => fifo = << buffer[block] >>))
        /\ "transfer" \in int_flags => ctl.phase = "done" /\ ctl.moved = call.nsec
        /\ int_flags \cap Errors # {} => ctl.phase = "done"
    BY <1>1, <2>1 DEF Inv, EndOK, Moving
  <2>3. CASE ctl.cmd \in Reads /\ fifo # << >>
    <3>1. ctl.phase = "drain" /\ ctl'.phase \in {"busy", "data"} /\ ctl'.moved = ctl.moved + 1
      BY <1>4, <1>6, <2>1, <2>3
    <3>2. Passed = ctl.moved /\ Passed' = ctl.moved + 1
      BY <1>3, <3>1 DEF Passed
    <3>3. "transfer" \notin int_flags' /\ int_flags' \cap Errors = {}
      BY <1>3, <2>2, <3>1
    <3>4. ASSUME Passed' = block' PROVE Agree(ctl.moved)'
      <4>1. ctl.moved = block /\ Agree(ctl.moved)
        BY <1>1, <1>3, <2>2, <3>2, <3>4
      <4>2. SUFFICES ASSUME NEW k \in 1 .. ctl.moved + 1
                     PROVE  disk[call.lba + k - 1] = buffer'[k]
        BY <1>1, <3>1 DEF Agree
      <4>3. CASE k = block + 1
        <5>1. call.lba + k - 1 = call.lba + ctl.moved
          BY <1>3, <1>5, <2>1, <4>1, <4>3, CallFacts
        <5>2. k \in 1 .. call.nsec
          BY <1>3, <1>5, <2>1, <4>3
        <5>3. QED
          BY <1>5, <1>6, <2>1, <2>3, <4>3, <5>1, <5>2
      <4>4. CASE k \in 1 .. ctl.moved
        <5>1. k # block + 1 /\ k \in 1 .. call.nsec
          BY <1>3, <1>5, <2>1, <4>1, <4>4
        <5>2. disk[call.lba + k - 1] = buffer[k]
          BY <4>1, <4>4 DEF Agree
        <5>3. QED
          BY <1>5, <1>6, <2>1, <2>3, <5>1, <5>2
      <4>5. QED
        BY <1>3, <4>1, <4>3, <4>4
    <3>5. Passed' <= block'
      BY <1>1, <1>3, <2>2, <3>2
    <3>6. QED
      BY <1>1, <3>1, <3>3, <3>4, <3>5 DEF EndOK, Moving
  <2>4. CASE ctl.cmd \in Reads /\ fifo = << >>
    <3>1. ctl' = ctl /\ ctl.phase # "program"
      BY <1>1, <1>4, <1>5, <2>1, <2>4 DEF Inv, TryOK, Trying, Moving
    <3>2. Passed' = Passed /\ Passed = ctl.moved
      BY <1>3, <3>1 DEF Passed
    <3>3. Passed' <= block' /\ Passed' # block'
      BY <1>1, <1>3, <2>2, <3>2
    <3>4. QED
      BY <1>1, <1>3, <2>1, <2>2, <3>1, <3>3 DEF EndOK, Moving
  <2>5. CASE ctl.cmd \notin Reads /\ ctl.phase = "fill"
    <3>1. ctl'.phase = "program" /\ ctl'.moved = ctl.moved /\ fifo' = << buffer'[block'] >>
      BY <1>1, <1>2, <1>4, <2>5
    <3>2. Passed = ctl.moved /\ Passed' = ctl.moved + 1
      BY <1>3, <2>5, <3>1 DEF Passed
    <3>3. Passed' <= block' /\ (Passed' = block' => Agree(ctl.moved))
      BY <1>1, <1>3, <2>2, <3>2
    <3>4. Agree(ctl.moved)' <=> Agree(ctl.moved)
      BY <1>1, <1>2, <2>5, <3>1 DEF Agree
    <3>5. "transfer" \notin int_flags' /\ int_flags' \cap Errors = {}
      BY <1>3, <2>2, <2>5
    <3>6. QED
      BY <1>1, <3>1, <3>3, <3>4, <3>5 DEF EndOK, Moving
  <2>6. CASE ctl.cmd \notin Reads /\ ctl.phase # "fill"
    <3>1. ctl' = ctl
      BY <1>4, <2>6
    <3>2. Passed' = Passed /\ Passed \in Nat
      BY <1>3, <3>1 DEF Passed
    <3>3. Passed' <= block' /\ Passed' # block'
      BY <1>1, <1>3, <2>2, <3>2
    <3>4. QED
      BY <1>1, <1>3, <2>1, <2>2, <3>1, <3>3 DEF EndOK, Moving
  <2>7. QED
    BY <2>3, <2>4, <2>5, <2>6
<1>13. stage = "run" /\ late = {} =>
         /\ intr_val = int_flags /\ int_flags' = {} /\ Passed' = block'
         /\ ctl'.phase \in {"data", "busy", "program"}
  <2>1. SUFFICES ASSUME stage = "run", late = {}
                 PROVE  /\ intr_val = int_flags /\ int_flags' = {} /\ Passed' = block'
                        /\ ctl'.phase \in {"data", "busy", "program"}
    OBVIOUS
  <2>2. /\ intr_val = int_flags /\ ctl.phase \in {"drain", "fill", "done"} \cup Slow
        /\ "cmd" \notin int_flags /\ (ctl.phase # "done" => Passed = block)
    BY <1>1, <2>1 DEF Inv, FlagsOK, Moving
  <2>3. Ready(ctl.cmd) \in int_flags /\ Ready(ctl.cmd) \notin Errors \cup {"cmd", "transfer"}
    BY <1>1, <2>2 DEF Ready, Errors
  <2>4. ctl.phase \in {"drain", "fill"}
    <3>1. ctl.phase # "done"
      BY <1>1, <2>1, <2>3 DEF Inv, FlagsOK, Trying, Moving
    <3>2. ctl.phase \in Slow => int_flags \subseteq {"cmd"}
      BY <1>1, <2>1 DEF Inv, FlagsOK, Trying, Moving, Slow
    <3>3. QED
      BY <2>2, <2>3, <3>1, <3>2
  <2>5. int_flags \subseteq {"cmd", Ready(ctl.cmd)} /\ (ctl.phase = "drain" => fifo # << >>)
    BY <1>1, <2>1, <2>4 DEF Inv, FlagsOK, Trying, Moving
  <2>6. int_flags' = {}
    BY <1>1, <2>2, <2>5
  <2>7. Passed = block /\ Passed = ctl.moved
    BY <1>3, <2>2, <2>4 DEF Passed
  <2>8. CASE ctl.phase = "drain"
    <3>1. ctl.cmd \in Reads
      BY <1>1, <1>5, <2>1, <2>8 DEF Inv, TryOK, Trying, Moving
    <3>2. ctl'.moved = ctl.moved + 1 /\ ctl'.phase \in {"busy", "data"}
      BY <1>4, <2>5, <2>8, <3>1
    <3>3. QED
      BY <1>1, <2>2, <2>6, <2>7, <3>2 DEF Passed
  <2>9. CASE ctl.phase = "fill"
    <3>1. ctl.cmd \notin Reads
      BY <1>1, <1>5, <2>1, <2>9 DEF Inv, TryOK, Trying, Moving
    <3>2. ctl'.moved = ctl.moved /\ ctl'.phase = "program"
      BY <1>4, <2>9, <3>1
    <3>3. QED
      BY <1>1, <2>2, <2>6, <2>7, <3>2 DEF Passed
  <2>10. QED
    BY <2>4, <2>8, <2>9
<1>14. FlagsOK'
  <2>1. SUFFICES ASSUME stage = "run", late = {} PROVE FlagsOK'
    BY <1>1 DEF FlagsOK
  <2>2. QED
    BY <1>1, <1>13, <2>1 DEF FlagsOK, Trying, Moving
<1>15. AbsorbOK'
  <2>1. SUFFICES ASSUME stage = "run", late = {} PROVE AbsorbOK'
    BY <1>1 DEF Inv, AbsorbOK
  <2>2. Unharmed'
    BY <1>13, <2>1 DEF Unharmed, Slow
  <2>3. QED
    BY <1>1, <2>1, <2>2 DEF Inv, AbsorbOK, Trying, Moving
<1>16. QED
  BY <1>7, <1>8, <1>9, <1>10, <1>11, <1>12, <1>14, <1>15 DEF Inv

\* The wait for the end is over when the end is there, an error is, or
\* nothing more can come.
LEMMA AwaitTransferInv == Inv /\ AwaitTransfer => Inv'
<1> SUFFICES ASSUME Inv, AwaitTransfer PROVE Inv'
  OBVIOUS
<1>1. /\ UNCHANGED <<stage, device, v2_card, tries, call, retry_count, buffer, block, success,
                     result, int_flags, ctl, fifo, response, card, disk, faults, absorb, late>>
      /\ pc = "transfer" /\ pc' = "end" /\ intr_val' = int_flags
      /\ \/ int_flags \cap (Errors \cup {"transfer"}) # {}
         \/ ctl.phase \notin {"cmd", "data", "program", "busy"}
  BY DEF AwaitTransfer, WaitRunsOut, driver, hardware, history
<1>2. TypeOK' /\ CapacityOK' /\ CallOK' /\ ReadOK'
  BY <1>1 DEF Inv, TypeOK, CapacityOK, CallOK, ReadOK, Places
<1>3. ResetOK'
  BY <1>1 DEF Inv, ResetOK, Trying, Moving
<1>4. TryOK'
  BY <1>1 DEF Inv, TryOK, Trying, Moving, DataArg
<1>5. stage = "run" /\ "slowBusy" \notin late => ctl.phase \notin {"cmd", "data", "program", "busy"}
  BY <1>1 DEF Inv, EndOK, Moving
<1>6. EndOK'
  <2>1. SUFFICES ASSUME stage = "run", "slowBusy" \notin late PROVE EndOK'
    BY <1>1 DEF EndOK
  <2>2. Passed' = Passed /\ (Agree(ctl.moved)' <=> Agree(ctl.moved))
    BY <1>1 DEF Passed, Agree
  <2>3. QED
    BY <1>1, <1>5, <2>1, <2>2 DEF Inv, EndOK, Moving
<1>7. FlagsOK'
  <2>1. SUFFICES ASSUME stage = "run", late = {} PROVE FlagsOK'
    BY <1>1 DEF FlagsOK
  <2>2. Passed' = Passed /\ Ready(ctl.cmd)' = Ready(ctl.cmd)
    BY <1>1 DEF Passed, Ready
  <2>3. ctl.phase \in {"done"} \cup Slow
    BY <1>1, <1>5, <2>1 DEF Inv, FlagsOK
  <2>4. QED
    BY <1>1, <2>1, <2>2, <2>3 DEF Inv, FlagsOK, Trying, Moving
<1>8. AbsorbOK'
  BY <1>1 DEF Inv, AbsorbOK, Trying, Moving, Unharmed
<1>9. QED
  BY <1>2, <1>3, <1>4, <1>6, <1>7, <1>8 DEF Inv

\* The end counts only with the transfer flag set, and that flag, unless it is
\* a late one, says that every block has passed.
LEMMA EndCommandInv == Inv /\ EndCommand => Inv'
<1> SUFFICES ASSUME Inv, EndCommand PROVE Inv'
  OBVIOUS
<1>1. /\ UNCHANGED <<stage, v2_card, tries, call, retry_count, buffer, result, block, ctl, fifo,
                     response, card, disk, faults, absorb, late>>
      /\ pc = "end" /\ pc' = "returned" /\ intr_val' = {}
      /\ int_flags' = int_flags \ (Errors \cup {"transfer"})
      /\ success' = TransferEnded
  BY DEF EndCommand, history
<1>2. /\ device' \in Devices /\ device'.sdhc = device.sdhc
      /\ device'.transfer_blocks = device.transfer_blocks
      /\ device'.last_response = device.last_response
  <2>1. device \in Devices /\ intr_val \cap Errors \in SUBSET Errors
    BY DEF Inv, TypeOK
  <2>2. device' = device \/ device' = [device EXCEPT !.last_error = intr_val \cap Errors]
    BY DEF EndCommand
  <2>3. CASE device' = [device EXCEPT !.last_error = intr_val \cap Errors]
    BY <2>1, <2>3, DeviceFields
  <2>4. QED
    BY <2>1, <2>2, <2>3
<1>3. success' \in BOOLEAN
  BY <1>1 DEF TransferEnded
<1>4. success' => "transfer" \in int_flags
  <2>1. SUFFICES ASSUME success' PROVE "transfer" \in int_flags
    OBVIOUS
  <2>2. "transfer" \in intr_val
    BY <1>1, <2>1 DEF TransferEnded
  <2>3. QED
    BY <2>2 DEF Inv, ReadOK
<1>5. TypeOK'
  BY <1>1, <1>2, <1>3 DEF Inv, TypeOK, Places
<1>6. CapacityOK' /\ CallOK' /\ ReadOK'
  BY <1>1, <1>2 DEF Inv, CapacityOK, CallOK, ReadOK
<1>7. ResetOK'
  <2>1. SUFFICES ASSUME stage # "run" PROVE ResetOK'
    BY <1>1 DEF ResetOK
  <2>2. "transfer" \notin int_flags' /\ (success' => ctl.phase = "done")
    BY <1>1, <1>4, <2>1 DEF Inv, ResetOK
  <2>3. ctl.cmd = CommandOf[stage]
    BY <1>1, <2>1 DEF Inv, ResetOK, Trying, Moving
  <2>4. QED
    BY <1>1, <2>1, <2>2, <2>3 DEF Inv, ResetOK
<1>8. TryOK'
  BY <1>1 DEF TryOK, Trying, Moving
<1>9. EndOK'
  <2>1. SUFFICES ASSUME stage = "run", "slowBusy" \notin late PROVE EndOK'
    BY <1>1 DEF EndOK
  <2>2. "transfer" \notin int_flags' /\ ctl.phase \notin {"program", "busy"}
    BY <1>1, <2>1 DEF Inv, EndOK
  <2>3. ASSUME success' PROVE ctl.phase = "done" /\ Agree(call.nsec)
    <3>1. ctl.phase = "done" /\ ctl.moved = call.nsec
      BY <1>1, <1>4, <2>1, <2>3 DEF Inv, EndOK, Moving
    <3>2. ctl.moved \in Nat /\ block \in Nat /\ block <= call.nsec
      BY <1>1, <2>1, CommandFields DEF Inv, TypeOK, TryOK, Trying, Moving
    <3>3. Passed = ctl.moved
      BY <3>1, <3>2 DEF Passed
    <3>4. Passed <= block /\ (Passed = block => Agree(ctl.moved))
      BY <1>1, <2>1 DEF Inv, EndOK, Moving
    <3>5. Passed = block
      BY <3>1, <3>2, <3>3, <3>4
    <3>6. QED
      BY <3>1, <3>4, <3>5
  <2>4. Agree(call.nsec)' <=> Agree(call.nsec)
    BY <1>1 DEF Agree
  <2>5. QED
    BY <1>1, <2>2, <2>3, <2>4 DEF EndOK, Moving
<1>10. stage = "run" /\ late = {} =>
         /\ ctl.phase \in {"done"} \cup Slow /\ intr_val = int_flags /\ int_flags' = {}
         /\ ctl.phase = "done" => int_flags \subseteq Errors \cup {"transfer"}
  <2>1. SUFFICES ASSUME stage = "run", late = {}
                 PROVE  /\ ctl.phase \in {"done"} \cup Slow /\ intr_val = int_flags
                        /\ int_flags' = {}
                        /\ ctl.phase = "done" => int_flags \subseteq Errors \cup {"transfer"}
    OBVIOUS
  <2>2. /\ ctl.phase \in {"done"} \cup Slow /\ intr_val = int_flags /\ "cmd" \notin int_flags
    BY <1>1, <2>1 DEF Inv, FlagsOK, Moving
  <2>3. /\ ctl.phase = "done" => int_flags \subseteq Errors \cup {"cmd", "transfer"}
        /\ ctl.phase \in Slow => int_flags \subseteq {"cmd"}
    BY <1>1, <2>1 DEF Inv, FlagsOK, Trying, Moving, Slow
  <2>4. int_flags' = {}
    BY <1>1, <2>2, <2>3
  <2>5. QED
    BY <2>2, <2>3, <2>4
<1>11. FlagsOK'
  BY <1>1, <1>10 DEF FlagsOK, Trying, Moving
<1>12. AbsorbOK'
  <2>1. SUFFICES ASSUME stage = "run", late = {} PROVE AbsorbOK'
    BY <1>1 DEF AbsorbOK
  <2>2. absorb >= retry_count /\ (Unharmed \/ absorb >= retry_count + 1)
    BY <1>1, <2>1 DEF Inv, AbsorbOK, Trying, Moving
  <2>3. ASSUME Unharmed PROVE success'
    <3>1. "transfer" \in int_flags /\ int_flags \cap Errors = {}
      BY <1>10, <2>1, <2>3 DEF Unharmed
    <3>2. intr_val \cap (Errors \cup {"transfer"}) = {"transfer"}
      BY <1>10, <2>1, <3>1
    <3>3. QED
      BY <1>1, <3>2 DEF TransferEnded
  <2>4. QED
    BY <1>1, <2>1, <2>2, <2>3 DEF AbsorbOK, Trying, Moving
<1>13. QED
  BY <1>5, <1>6, <1>7, <1>8, <1>9, <1>11, <1>12 DEF Inv

-----------------------------------------------------------------------------
(* emmc_init and emmc_card_reset. *)

LEMMA ResetCardInv == Inv /\ ResetCard => Inv'
<1> SUFFICES ASSUME Inv, ResetCard PROVE Inv'
  OBVIOUS
<1>1. /\ UNCHANGED <<tries, call, retry_count, buffer, result, block, intr_val, success,
                     response, card, disk, faults, absorb, late>>
      /\ pc = "reset" /\ pc' = "issue" /\ stage' = "goIdle"
      /\ int_flags' = {} /\ ctl' = NoCmd /\ fifo' = << >>
  BY DEF ResetCard, history
<1>2. /\ device' \in Devices /\ device'.last_response = device.last_response
  <2>1. device \in Devices /\ 0 \in Nat
    BY DEF Inv, TypeOK
  <2>2. device' = [device EXCEPT !.transfer_blocks = 0]
    BY DEF ResetCard
  <2>3. QED
    BY <2>1, <2>2, DeviceFields
<1>3. call = None
  BY <1>1 DEF Inv, CallOK
<1>4. TypeOK'
  <2>1. pc' \in Places /\ stage' \in Stages
    BY <1>1 DEF Places, Stages
  <2>2. ctl' \in Commands /\ ctl'.phase = "done"
    BY <1>1, NoCmdTyped
  <2>3. QED
    BY <1>1, <1>2, <2>1, <2>2 DEF Inv, TypeOK
<1>5. CapacityOK' /\ ReadOK'
  BY <1>1, <1>2 DEF Inv, CapacityOK, ReadOK
<1>6. CallOK'
  BY <1>1, <1>3 DEF CallOK
<1>7. ResetOK'
  BY <1>1, NoCmdTyped DEF ResetOK, Trying, Moving
<1>8. TryOK' /\ EndOK' /\ FlagsOK' /\ AbsorbOK'
  BY <1>1 DEF TryOK, EndOK, FlagsOK, AbsorbOK
<1>9. QED
  BY <1>4, <1>5, <1>6, <1>7, <1>8 DEF Inv

\* The order of the stages: the last is scr, and none from cid on is reached
\* but through busy.
LEMMA FollowingIs ==
  ASSUME NEW s \in Stages \ {"run"}, NEW b
  PROVE  /\ Following(s, b) \in Stages
         /\ Following(s, b) = "run" <=> s = "scr"
         /\ Following(s, b) \in {"cid", "rca", "select", "blockLen", "appScr", "scr", "run"}
              => s \in {"busy", "cid", "rca", "select", "blockLen", "appScr", "scr"}
<1>1. CASE s \in {"goIdle", "ifCond", "opCond", "appOcr", "ocr", "appBusy"}
  BY <1>1 DEF Following, Stages
<1>2. CASE s \in {"busy", "cid", "rca", "select"}
  BY <1>2 DEF Following, Stages
<1>3. CASE s \in {"blockLen", "appScr", "scr"}
  BY <1>3 DEF Following, Stages
<1>4. QED
  BY <1>1, <1>2, <1>3 DEF Stages

\* The capacity is believed only from an answer that says the card is ready,
\* and the last stage ends with the controller at rest.
LEMMA NextStageInv == Inv /\ NextStage => Inv'
<1> SUFFICES ASSUME Inv, NextStage PROVE Inv'
  OBVIOUS
<1>1. /\ UNCHANGED <<call, retry_count, buffer, result, block, intr_val, success,
                     fifo, response, card, disk, faults, absorb>>
      /\ pc = "returned" /\ stage # "run" /\ ~StageFails
      /\ stage' = IF StillBusy THEN "appBusy" ELSE Following(stage, device.sdhc)
      /\ ctl' = IF CommandReset THEN NoCmd ELSE ctl
      /\ late' = IF stage = "scr" THEN {} ELSE late
      /\ pc' = IF stage = "scr" THEN "idle" ELSE "issue"
  BY DEF NextStage
<1>2. /\ int_flags' \subseteq int_flags
      /\ stage = "scr" => int_flags' = {}
  <2>1. int_flags' = CASE stage = "scr" -> {}
                       [] CommandReset  -> int_flags \ {"cmdTimeout"}
                       [] OTHER         -> int_flags
    BY DEF NextStage
  <2>2. stage = "scr" => ~CommandReset
    BY DEF CommandReset
  <2>3. QED
    BY <2>1, <2>2
<1>3. stage \in Stages \ {"run"} /\ ctl.cmd = CommandOf[stage]
  BY <1>1 DEF Inv, TypeOK, ResetOK
<1>4. /\ stage' \in Stages
      /\ stage' = "run" <=> stage = "scr"
      /\ stage' \in {"cid", "rca", "select", "blockLen", "appScr", "scr", "run"}
           => /\ stage \in {"busy", "cid", "rca", "select", "blockLen", "appScr", "scr"}
              /\ ~StillBusy
  <2>1. CASE StillBusy
    BY <1>1, <2>1 DEF StillBusy, Stages
  <2>2. CASE ~StillBusy
    BY <1>1, <1>3, <2>2, FollowingIs
  <2>3. QED
    BY <2>1, <2>2
<1>5. /\ device' \in Devices /\ device'.last_response = device.last_response
      /\ device'.sdhc = IF stage = "busy" /\ ~StillBusy THEN device.last_response.hc ELSE device.sdhc
  <2>1. device \in Devices /\ device.last_response.hc \in BOOLEAN /\ device.sdhc \in BOOLEAN
        /\ device.transfer_blocks \in Nat
    BY DEF Inv, TypeOK, Devices, Responses
  <2>2. PICK b \in BOOLEAN :
          b = IF stage = "busy" /\ ~StillBusy THEN device.last_response.hc ELSE device.sdhc
    BY <2>1
  <2>3. PICK n \in Nat : n = IF stage' = "appScr" THEN 1 ELSE device.transfer_blocks
    BY <2>1
  <2>4. PICK d : d = [device EXCEPT !.sdhc = b, !.rca = device.rca \/ stage = "rca"]
    OBVIOUS
  <2>5. d \in Devices /\ d.sdhc = b /\ d.last_response = device.last_response
    BY <2>1, <2>2, <2>4 DEF Devices
  <2>6. device' = [d EXCEPT !.transfer_blocks = n]
    BY <2>2, <2>3, <2>4 DEF NextStage
  <2>7. /\ device' \in Devices /\ device'.sdhc = d.sdhc
        /\ device'.last_response = d.last_response
    BY <2>3, <2>5, <2>6, DeviceFields
  <2>8. QED
    BY <2>2, <2>5, <2>7
<1>6. stage = "scr" => /\ success /\ ctl.cmd = "SendSCR" /\ ctl' = ctl
                       /\ ctl.phase = "done" /\ "transfer" \notin int_flags
  <2>1. SUFFICES ASSUME stage = "scr"
                 PROVE  /\ success /\ ctl.cmd = "SendSCR" /\ ctl' = ctl
                        /\ ctl.phase = "done" /\ "transfer" \notin int_flags
    OBVIOUS
  <2>2. success /\ ctl.cmd = "SendSCR"
    BY <1>1, <1>3, <2>1 DEF StageFails, CommandOf
  <2>3. ctl' = ctl
    BY <1>1, <2>1 DEF CommandReset
  <2>4. ctl.phase = "done" /\ "transfer" \notin int_flags
    BY <1>1, <2>2 DEF Inv, ResetOK
  <2>5. QED
    BY <2>2, <2>3, <2>4
<1>7. TypeOK'
  <2>1. ctl' \in Commands /\ (ctl'.phase = "program" => ctl' = ctl)
    BY <1>1, NoCmdTyped DEF Inv, TypeOK
  <2>2. late' \subseteq Slow /\ int_flags' \subseteq Flags
    BY <1>1, <1>2 DEF Inv, TypeOK
  <2>3. pc' \in Places
    BY <1>1 DEF Places
  <2>4. QED
    BY <1>1, <1>4, <1>5, <2>1, <2>2, <2>3 DEF Inv, TypeOK
<1>8. CapacityOK'
  <2>1. ASSUME stage' \in {"cid", "rca", "select", "blockLen", "appScr", "scr", "run"}
        PROVE  device'.sdhc = card.hc
    <3>1. CASE stage = "busy"
      <4>1. ~StillBusy /\ device.last_response.ready
        BY <1>4, <2>1, <3>1 DEF StillBusy
      <4>2. QED
        BY <1>5, <3>1, <4>1 DEF Inv, CapacityOK
    <3>2. CASE stage # "busy"
      BY <1>4, <1>5, <2>1, <3>2 DEF Inv, CapacityOK
    <3>3. QED
      BY <3>1, <3>2
  <2>2. QED
    BY <1>1, <1>5, <2>1 DEF Inv, CapacityOK
<1>9. CallOK'
  <2>1. call = None
    BY <1>1 DEF Inv, CallOK
  <2>2. stage' = "run" => ctl'.cmd \in Data
    BY <1>4, <1>6 DEF Data, Reads
  <2>3. QED
    BY <1>1, <1>4, <2>1, <2>2 DEF CallOK
<1>10. ReadOK'
  BY <1>1 DEF Inv, ReadOK
<1>11. ResetOK'
  <2>1. SUFFICES ASSUME stage # "scr" PROVE ResetOK'
    BY <1>4 DEF ResetOK
  <2>2. pc' = "issue" /\ ctl.cmd # "SendSCR"
    <3>1. ctl.cmd # "SendSCR"
      BY <1>3, <2>1 DEF CommandOf, Stages
    <3>2. QED
      BY <1>1, <2>1, <3>1
  <2>3. CASE CommandReset
    <3>1. ctl.cmd \in {"SendIfCond", "IOSetOpCond"}
      BY <1>3, <2>3 DEF CommandReset, CommandOf
    <3>2. "transfer" \notin int_flags'
      BY <1>1, <1>2, <3>1 DEF Inv, ResetOK
    <3>3. ctl' = NoCmd
      BY <1>1, <2>3
    <3>4. QED
      BY <2>2, <3>2, <3>3, NoCmdTyped DEF ResetOK, Trying, Moving
  <2>4. CASE ~CommandReset
    <3>1. ctl' = ctl /\ fifo' = fifo
      BY <1>1, <2>4
    <3>2. ctl.cmd = "SelectCard" => success
      <4>1. SUFFICES ASSUME ctl.cmd = "SelectCard" PROVE success
        OBVIOUS
      <4>2. stage = "select"
        BY <1>3, <4>1 DEF CommandOf, Stages
      <4>3. QED
        BY <1>1, <4>2 DEF StageFails
    <3>3. QED
      BY <1>1, <1>2, <2>2, <3>1, <3>2 DEF Inv, ResetOK, Trying, Moving
  <2>5. QED
    BY <2>3, <2>4
<1>12. TryOK' /\ EndOK' /\ FlagsOK' /\ AbsorbOK'
  <2>1. SUFFICES ASSUME stage = "scr" PROVE TryOK' /\ EndOK' /\ FlagsOK' /\ AbsorbOK'
    BY <1>4 DEF TryOK, EndOK, FlagsOK, AbsorbOK
  <2>2. pc' = "idle" /\ int_flags' = {} /\ ctl'.phase = "done"
    BY <1>1, <1>2, <1>6, <2>1
  <2>3. QED
    BY <2>2 DEF TryOK, EndOK, FlagsOK, AbsorbOK, Trying, Moving
<1>13. QED
  BY <1>7, <1>8, <1>9, <1>10, <1>11, <1>12 DEF Inv

LEMMA ResetFailsInv == Inv /\ ResetFails => Inv'
<1> SUFFICES ASSUME Inv, ResetFails PROVE Inv'
  OBVIOUS
<1>1. /\ UNCHANGED <<stage, device, v2_card, call, retry_count, buffer, result, block, intr_val,
                     success, int_flags, ctl, fifo, response, card, disk, late>>
      /\ pc \in {"returned", "reset"} /\ pc' \in {"reset", "panic"}
      /\ UNCHANGED <<faults, absorb>> \/ Fault
  BY DEF ResetFails, hardware, history
<1>2. stage # "run"
  BY DEF Inv, CallOK, ResetFails
<1>3. faults' \in Nat /\ absorb' \in Nat
  BY <1>1, FaultIs DEF Inv, TypeOK
<1>4. TypeOK'
  BY <1>1, <1>3 DEF Inv, TypeOK, Places
<1>5. CapacityOK' /\ CallOK' /\ ReadOK'
  BY <1>1, <1>2 DEF Inv, CapacityOK, CallOK, ReadOK
<1>6. ResetOK'
  BY <1>1 DEF Inv, ResetOK, Trying, Moving
<1>7. TryOK' /\ EndOK' /\ FlagsOK' /\ AbsorbOK'
  BY <1>1, <1>2 DEF TryOK, EndOK, FlagsOK, AbsorbOK
<1>8. QED
  BY <1>4, <1>5, <1>6, <1>7 DEF Inv

-----------------------------------------------------------------------------
(* pi_sd_read, pi_sd_write. *)

LEMMA CallInv == Inv /\ Call => Inv'
<1> SUFFICES ASSUME Inv, Call PROVE Inv'
  OBVIOUS
<1>1. /\ UNCHANGED <<stage, v2_card, tries, block, intr_val, success, int_flags, ctl, fifo,
                     response, card, disk, faults, late>>
      /\ pc = "idle" /\ pc' = "issue" /\ retry_count' = 0 /\ absorb' = 0
      /\ call' \in Calls /\ call'.lba + call'.nsec - 1 \in Sectors
  BY DEF Call, hardware
<1>2. stage = "run"
  BY <1>1 DEF Inv, CallOK
<1>3. PICK c \in Calls : c = call'
  BY <1>1
<1>4. /\ c # None /\ c.nsec \in Nat
      /\ c.op = "write" => c.data \in [1 .. c.nsec -> Values]
  BY CallFacts
<1>5. /\ device' \in Devices /\ device'.sdhc = device.sdhc /\ device'.transfer_blocks = c.nsec
      /\ device'.last_response = device.last_response
  <2>1. device \in Devices
    BY DEF Inv, TypeOK
  <2>2. device' = [device EXCEPT !.transfer_blocks = c.nsec]
    BY <1>3 DEF Call
  <2>3. QED
    BY <1>4, <2>1, <2>2, DeviceFields
<1>6. /\ buffer' \in [1 .. c.nsec -> Stored]
      /\ c.op = "write" => buffer' = c.data
  <2>1. buffer' = [k \in 1 .. c.nsec |-> IF c.op = "write" THEN c.data[k] ELSE Junk]
    BY <1>3 DEF Call
  <2>2. CASE c.op = "write"
    <3>1. buffer' = [k \in 1 .. c.nsec |-> c.data[k]]
      BY <2>1, <2>2
    <3>2. Values \subseteq Stored
      BY DEF Stored
    <3>3. QED
      BY <1>4, <2>2, <3>1, <3>2
  <2>3. CASE c.op # "write"
    <3>1. Junk \in Stored
      BY DEF Stored
    <3>2. QED
      BY <2>1, <2>3, <3>1
  <2>4. QED
    BY <2>2, <2>3
<1>7. TypeOK'
  BY <1>1, <1>5 DEF Inv, TypeOK, Places
<1>8. CapacityOK' /\ ReadOK'
  BY <1>1, <1>5 DEF Inv, CapacityOK, ReadOK
<1>9. CallOK'
  BY <1>1, <1>2, <1>3, <1>4, <1>5, <1>6 DEF Inv, CallOK
<1>10. ResetOK' /\ TryOK'
  BY <1>1, <1>2 DEF ResetOK, TryOK, Trying, Moving
<1>11. EndOK'
  BY <1>1, <1>2 DEF Inv, EndOK, Moving
<1>12. FlagsOK'
  BY <1>1, <1>2 DEF Inv, FlagsOK, Trying, Moving
<1>13. AbsorbOK'
  BY <1>1, <1>2 DEF AbsorbOK, Trying, Moving
<1>14. QED
  BY <1>7, <1>8, <1>9, <1>10, <1>11, <1>12, <1>13 DEF Inv

LEMMA CallReturnsInv == Inv /\ CallReturns => Inv'
<1> SUFFICES ASSUME Inv, CallReturns PROVE Inv'
  OBVIOUS
<1>1. /\ UNCHANGED <<stage, device, v2_card, tries, retry_count, block, intr_val, success,
                     int_flags, ctl, fifo, response, card, disk, faults, absorb, late>>
      /\ pc = "returned" /\ pc' = "idle" /\ stage = "run" /\ call' = None
  BY DEF CallReturns, hardware, history
<1>2. TypeOK' /\ CapacityOK' /\ CallOK' /\ ReadOK'
  BY <1>1 DEF Inv, TypeOK, CapacityOK, CallOK, ReadOK, Places
<1>3. ResetOK' /\ TryOK'
  BY <1>1 DEF ResetOK, TryOK, Trying, Moving
<1>4. EndOK'
  BY <1>1 DEF Inv, EndOK, Moving
<1>5. FlagsOK'
  BY <1>1 DEF Inv, FlagsOK, Trying, Moving
<1>6. AbsorbOK'
  BY <1>1 DEF Inv, AbsorbOK, Trying, Moving
<1>7. QED
  BY <1>2, <1>3, <1>4, <1>5, <1>6 DEF Inv

\* A try that failed has met a fault, so the next one starts with its account
\* in order.
LEMMA RetryInv == Inv /\ Retry => Inv'
<1> SUFFICES ASSUME Inv, Retry PROVE Inv'
  OBVIOUS
<1>1. /\ UNCHANGED <<stage, device, v2_card, tries, call, buffer, result, block, intr_val, success,
                     int_flags, ctl, fifo, response, card, disk, faults, absorb, late>>
      /\ pc = "returned" /\ stage = "run" /\ ~success /\ retry_count' = retry_count + 1
      /\ pc' = IF retry_count + 1 < MaxRetries THEN "issue" ELSE "panic"
  BY DEF Retry, NextRetry, hardware, history
<1>2. pc' \in {"issue", "panic"}
  BY <1>1
<1>3. retry_count \in Nat /\ absorb \in Nat /\ MaxRetries \in Nat
  BY SizesAssumption DEF Inv, TypeOK
<1>4. TypeOK'
  BY <1>1, <1>2, <1>3 DEF Inv, TypeOK, Places
<1>5. CapacityOK' /\ CallOK' /\ ReadOK'
  BY <1>1, <1>2 DEF Inv, CapacityOK, CallOK, ReadOK
<1>6. ResetOK' /\ TryOK'
  BY <1>1, <1>2 DEF ResetOK, TryOK, Trying, Moving
<1>7. EndOK'
  BY <1>1, <1>2 DEF Inv, EndOK, Moving
<1>8. FlagsOK'
  BY <1>1, <1>2 DEF Inv, FlagsOK, Trying, Moving
<1>9. AbsorbOK'
  <2>1. late = {} => absorb >= retry_count + 1
    BY <1>1 DEF Inv, AbsorbOK
  <2>2. pc' = "panic" => retry_count' >= MaxRetries
    BY <1>1, <1>3
  <2>3. QED
    BY <1>1, <1>2, <2>1, <2>2 DEF AbsorbOK, Trying, Moving
<1>10. QED
  BY <1>4, <1>5, <1>6, <1>7, <1>8, <1>9 DEF Inv

-----------------------------------------------------------------------------
(* Theorems. *)

LEMMA InitInv == Init => Inv
<1> SUFFICES ASSUME Init PROVE Inv
  OBVIOUS
<1>1. NoResp \in Responses /\ NoResp.ready = FALSE
  BY DEF NoResp, Responses, Names
<1>2. ctl \in Commands /\ ctl.phase = "done" /\ ctl.cmd = "none"
  BY NoCmdTyped DEF Init
<1>3. card \in Cards
  <2>1. "inquiry" \in Args
    BY ArgsTyped
  <2>2. QED
    BY <2>1 DEF Init, Cards
<1>4. device \in Devices /\ device.last_response = NoResp
  BY <1>1 DEF Init, Devices
<1>5. pc \in Places /\ stage \in Stages
  BY DEF Init, Places, Stages
<1>6. TypeOK
  BY <1>1, <1>2, <1>3, <1>4, <1>5 DEF Init, TypeOK
<1>7. CapacityOK /\ ReadOK /\ CallOK
  BY <1>1, <1>4 DEF Init, CapacityOK, ReadOK, CallOK
<1>8. ResetOK
  BY <1>2 DEF Init, ResetOK, Trying, Moving
<1>9. TryOK /\ EndOK /\ FlagsOK /\ AbsorbOK
  BY DEF Init, TryOK, EndOK, FlagsOK, AbsorbOK
<1>10. QED
  BY <1>6, <1>7, <1>8, <1>9 DEF Inv

LEMMA UnchangedInv == Inv /\ UNCHANGED vars => Inv'
<1> SUFFICES ASSUME Inv, UNCHANGED vars PROVE Inv'
  OBVIOUS
<1>1. UNCHANGED <<pc, stage, device, v2_card, tries, call, retry_count, buffer, block, intr_val,
                  success, result, int_flags, ctl, fifo, response, card, disk, faults, absorb, late>>
  BY DEF vars, driver, issue, hardware, history
<1>2. TypeOK' /\ CapacityOK' /\ CallOK' /\ ReadOK'
  BY <1>1 DEF Inv, TypeOK, CapacityOK, CallOK, ReadOK
<1>3. ResetOK'
  BY <1>1 DEF Inv, ResetOK
<1>4. TryOK'
  BY <1>1 DEF Inv, TryOK, DataArg
<1>5. EndOK'
  BY <1>1 DEF Inv, EndOK, Passed, Agree
<1>6. FlagsOK'
  BY <1>1 DEF Inv, FlagsOK, Passed, Ready
<1>7. AbsorbOK'
  BY <1>1 DEF Inv, AbsorbOK, Unharmed
<1>8. QED
  BY <1>2, <1>3, <1>4, <1>5, <1>6, <1>7 DEF Inv

LEMMA StepInv == Inv /\ [Next]_vars => Inv'
<1>1. Driver /\ Inv => Inv'
  BY IssueInv, AwaitCommandInv, GiveUpCommandInv, ClearCommandInv, AwaitBlockInv, MoveFailsInv,
     MoveBlockInv, AwaitTransferInv, EndCommandInv, ResetCardInv, NextStageInv, ResetFailsInv,
     CallReturnsInv, RetryInv
  DEF Driver
<1>2. Hardware /\ Inv => Inv'
  BY RespondInv, NoAnswerInv, PowerUpInv, BlockReadyInv, ProgramInv, TransferDoneInv,
     HardwareErrorInv, MissesDeadlineInv
  DEF Hardware
<1>3. QED
  BY <1>1, <1>2, CallInv, UnchangedInv DEF Next

\* The inductive invariant: what the controller's phase, the flags, the blocks
\* counted by the driver and the buffer have to do with each other.
THEOREM InvHolds == Spec => []Inv
BY InitInv, StepInv, PTL DEF Spec

\* Once emmc_init has returned, the driver counts in sectors exactly if the
\* card does, whatever answers were lost or late on the way.
THEOREM AddressingAgreesHolds == Spec => []AddressingAgrees
<1>1. Inv => AddressingAgrees
  BY DEF Inv, CapacityOK, AddressingAgrees
<1>2. QED
  BY <1>1, InvHolds, PTL

\* do_data_command panics only after a fault for each of its tries.
THEOREM RetriesAbsorbHolds == Spec => []RetriesAbsorb
<1>1. Inv => RetriesAbsorb
  <2> SUFFICES ASSUME Inv, pc = "panic", stage = "run", late = {} PROVE absorb >= MaxRetries
    BY DEF RetriesAbsorb
  <2>1. retry_count >= MaxRetries /\ absorb >= retry_count
    BY DEF Inv, AbsorbOK
  <2>2. retry_count \in Nat /\ absorb \in Nat /\ MaxRetries \in Nat
    BY SizesAssumption DEF Inv, TypeOK
  <2>3. QED
    BY <2>1, <2>2
<1>2. QED
  BY <1>1, InvHolds, PTL

\* The steps that do not show outside the driver.
LEMMA QuietSteps ==
  [Next]_vars => Call \/ CallReturns \/ Program \/ UNCHANGED <<disk, call, result>>
<1>1. Driver => CallReturns \/ UNCHANGED <<disk, call, result>>
  BY DEF Driver, Issue, AwaitCommand, GiveUpCommand, ClearCommand, AwaitBlock, MoveFails, MoveBlock,
         AwaitTransfer, EndCommand, ResetCard, NextStage, ResetFails, Retry, driver, hardware
<1>2. Hardware => Program \/ UNCHANGED <<disk, call, result>>
  BY DEF Hardware, Respond, NoAnswer, PowerUp, BlockReady, TransferDone, HardwareError,
         MissesDeadline, driver
<1>3. UNCHANGED vars => UNCHANGED <<disk, call, result>>
  BY DEF vars, driver, hardware
<1>4. QED
  BY <1>1, <1>2, <1>3 DEF Next

\* A call that returns has its buffer and the card in agreement.
LEMMA ReturnsAgree ==
  ASSUME Inv, CallReturns, "slowBusy" \notin late
  PROVE  /\ call \in Calls /\ call.op \in {"read", "write"} /\ call.lba \in Nat /\ call.nsec \in Nat
         /\ buffer \in [1 .. call.nsec -> Stored]
         /\ call.op = "write" => buffer = call.data
         /\ Agree(call.nsec)
<1>1. pc = "returned" /\ stage = "run" /\ success
  BY DEF CallReturns
<1>2. call \in Calls /\ buffer \in [1 .. call.nsec -> Stored] /\ (call.op = "write" => buffer = call.data)
  BY <1>1 DEF Inv, CallOK
<1>3. Agree(call.nsec)
  BY <1>1 DEF Inv, EndOK
<1>4. QED
  BY <1>2, <1>3, CallFacts

\* do_data_transfer's failure is not looked at, and yet a call that returns
\* has moved every sector, unless the end of a transfer came late.
THEOREM LateIsCaughtHolds == Spec => LateIsCaught
<1>1. Inv /\ [Next]_vars =>
        (call # None /\ call' = None /\ "slowBusy" \notin late => Honoured(call, result', disk))
  <2> SUFFICES ASSUME Inv, [Next]_vars, call # None, call' = None, "slowBusy" \notin late
               PROVE  Honoured(call, result', disk)
    OBVIOUS
  <2>1. CallReturns
    <3>1. ~Call
      BY CallFacts DEF Call
    <3>2. Program => call' = call
      BY DEF Program, driver
    <3>3. QED
      BY <3>1, <3>2, QuietSteps
  <2>2. /\ call.op \in {"read", "write"} /\ (call.op = "write" => buffer = call.data)
        /\ Agree(call.nsec)
    BY <2>1, ReturnsAgree
  <2>3. call.op = "read" => result' = buffer
    BY <2>1 DEF CallReturns
  <2>4. QED
    BY <2>2, <2>3 DEF Honoured, Agree
<1>2. Inv /\ [Next]_vars =>
        [call # None /\ call' = None /\ "slowBusy" \notin late => Honoured(call, result', disk)]_vars
  BY <1>1
<1>3. QED
  BY <1>2, InvHolds, PTL DEF Spec, LateIsCaught

\* A deadline that was missed stays missed: a late flag is forgotten only
\* by the reset, where nothing is promised yet.
LEMMA KeptStays ==
  Inv /\ [Next]_vars /\ (stage' = "run" => late' = {}) => (stage = "run" => late = {})
<1> SUFFICES ASSUME Inv, [Next]_vars, stage' = "run" => late' = {}, stage = "run" PROVE late = {}
  OBVIOUS
<1>1. stage' = stage /\ late \subseteq late'
  <2>1. CASE Driver
    <3>1. ~ResetCard /\ ~NextStage
      BY DEF Inv, CallOK, ResetCard, NextStage
    <3>2. QED
      BY <2>1, <3>1
      DEF Driver, Issue, AwaitCommand, GiveUpCommand, ClearCommand, AwaitBlock, MoveFails, MoveBlock,
          AwaitTransfer, EndCommand, ResetFails, CallReturns, Retry, driver, history
  <2>2. CASE Hardware
    BY <2>2 DEF Hardware, Respond, NoAnswer, PowerUp, BlockReady, Program, TransferDone,
                HardwareError, MissesDeadline, Noted, driver, history
  <2>3. CASE Call \/ UNCHANGED vars
    BY <2>3 DEF Call, vars, driver, history
  <2>4. QED
    BY <2>1, <2>2, <2>3 DEF Next
<1>2. QED
  BY <1>1

\* The card stores the block of the buffer that belongs in the sector.
LEMMA ProgramIsWriteSector ==
  ASSUME Inv, Program, stage = "run" => late = {}, (stage = "run" => late = {})'
  PROVE  Store!WriteSector
<1>1. /\ ctl.phase = "program" /\ disk' = [disk EXCEPT ![Target] = Head(fifo)]
      /\ UNCHANGED <<call, result, stage, late>>
  BY DEF Program, driver, history
<1>2. stage = "run" /\ late = {}
  BY <1>1 DEF Inv, ResetOK
<1>3. pc \in Moving
  <2>1. pc \in Trying
    BY <1>1, <1>2 DEF Inv, FlagsOK, Slow
  <2>2. pc \notin {"command", "clear"}
    BY <1>1, <1>2 DEF Inv, EndOK
  <2>3. QED
    BY <2>1, <2>2 DEF Trying
<1>4. /\ call \in Calls /\ call # None /\ call.op = "write" /\ ctl.moved < call.nsec
  BY <1>1, <1>2, <1>3, TargetInCall DEF Inv, TryOK, Trying
<1>5. /\ call.lba \in Nat /\ call.nsec \in Nat /\ ctl.moved \in Nat /\ block \in Nat
      /\ buffer = call.data
  BY <1>4, CallFacts, CommandFields DEF Inv, TypeOK, CallOK
<1>6. Target = call.lba + ctl.moved /\ Target \in Sectors
  BY <1>2, <1>3, <1>4, TargetInCall DEF Trying
<1>7. block = ctl.moved + 1 /\ fifo = << buffer[block] >>
  <2>1. Passed = ctl.moved + 1
    BY <1>1, <1>5 DEF Passed
  <2>2. Passed = block
    BY <1>1, <1>2, <1>3 DEF Inv, FlagsOK
  <2>3. fifo = << buffer[block] >>
    BY <1>1, <1>2, <1>3, <2>2 DEF Inv, EndOK
  <2>4. QED
    BY <1>5, <2>1, <2>2, <2>3
<1>8. Head(fifo) = call.data[Target - call.lba + 1] /\ Target \in call.lba .. call.lba + call.nsec - 1
  BY <1>4, <1>5, <1>6, <1>7
<1>9. PICK s \in Sectors : s = Target
  BY <1>6
<1>10. disk' = [disk EXCEPT ![s] = call.data[s - call.lba + 1]] /\ Store!Covers(call, s)
  BY <1>1, <1>8, <1>9 DEF Store!Covers
<1>11. QED
  BY <1>1, <1>4, <1>9, <1>10 DEF Store!WriteSector

LEMMA CallReturnsIsReturn ==
  ASSUME Inv, CallReturns, stage = "run" => late = {}, (stage = "run" => late = {})'
  PROVE  Store!ReadReturns \/ Store!WriteReturns
<1>1. /\ stage = "run" /\ call' = None /\ result' = IF call.op = "read" THEN buffer ELSE result
      /\ UNCHANGED <<stage, disk, late>>
  BY DEF CallReturns, hardware, history
<1>2. /\ call \in Calls /\ call.op \in {"read", "write"} /\ call.lba \in Nat /\ call.nsec \in Nat
      /\ buffer \in [1 .. call.nsec -> Stored]
      /\ call.op = "write" => buffer = call.data
      /\ \A k \in 1 .. call.nsec : disk[call.lba + k - 1] = buffer[k]
  BY <1>1, ReturnsAgree DEF Agree
<1>3. CASE call.op = "read"
  <2>1. buffer = Store!Contents(call, disk)
    BY <1>2 DEF Store!Contents
  <2>2. QED
    BY <1>1, <1>3, <2>1 DEF Store!ReadReturns, Store!None, None
<1>4. CASE call.op = "write"
  <2>1. ASSUME NEW s \in Sectors, Store!Covers(call, s)
        PROVE  disk[s] = call.data[s - call.lba + 1]
    <3>1. s \in Nat /\ s \in call.lba .. call.lba + call.nsec - 1
      BY <2>1, SizesAssumption DEF Sectors, Store!Covers
    <3>2. PICK k : k = s - call.lba + 1
      OBVIOUS
    <3>3. k \in 1 .. call.nsec /\ call.lba + k - 1 = s
      BY <1>2, <3>1, <3>2
    <3>4. QED
      BY <1>2, <1>4, <3>2, <3>3
  <2>2. QED
    BY <1>1, <1>4, <2>1 DEF Store!WriteReturns, Store!None, None
<1>5. QED
  BY <1>2, <1>3, <1>4

\* pi_sd_read and pi_sd_write are the sector store's: a block the card stores
\* is the one step of a call that shows, and a return promises what the store
\* promises, until a deadline is missed.
THEOREM ImplementsSectorStoreHolds == Spec => ImplementsSectorStore
<1>1. Init => Store!Init
  BY DEF Init, Store!Init, Store!None, None
<1>2. Inv /\ [Next]_vars => [Store!Next]_(Store!vars)
  <2> SUFFICES ASSUME Inv, [Next]_vars PROVE Store!Next \/ UNCHANGED Store!vars
    OBVIOUS
  <2>1. CASE ~(stage = "run" => late = {})'
    BY <2>1 DEF Store!Next, Store!Broken
  <2>2. CASE (stage = "run" => late = {})'
    <3>1. stage = "run" => late = {}
      BY <2>2, KeptStays
    <3>2. CASE Call
      <4>1. Store!Calls = Calls /\ Store!None = None
        BY DEF Store!Calls, Calls, Store!None, None
      <4>2. call = None
        BY <3>2 DEF Call, Inv, CallOK
      <4>3. QED
        BY <2>2, <3>1, <3>2, <4>1, <4>2 DEF Call, hardware, Store!Next, Store!Begin
    <3>3. CASE CallReturns
      BY <2>2, <3>1, <3>3, CallReturnsIsReturn DEF Store!Next
    <3>4. CASE Program
      BY <2>2, <3>1, <3>4, ProgramIsWriteSector DEF Store!Next
    <3>5. CASE UNCHANGED <<disk, call, result>>
      BY <2>2, <3>1, <3>5 DEF Store!vars
    <3>6. QED
      BY <3>2, <3>3, <3>4, <3>5, QuietSteps
  <2>3. QED
    BY <2>1, <2>2
<1>3. QED
  BY <1>1, <1>2, InvHolds, PTL DEF Spec, ImplementsSectorStore, Store!Spec
=============================================================================
