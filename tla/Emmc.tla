-------------------------------- MODULE Emmc --------------------------------
(***************************************************************************)
(* final_project/emmc.c and pi-sd.c: the SD card driver under the file     *)
(* system.  The driver polls the controller's interrupt flags with         *)
(* bounded waits; controller and card raise them on their own, may report  *)
(* an error instead, or may answer only after the driver has given up.     *)
(*                                                                         *)
(* A driver step ends where the code reads or writes int_flags; a step of  *)
(* the controller raises flags.  The 0x8000 summary bit is an error flag   *)
(* being set.  A failed card reset starts over, a failed call panics.      *)
(***************************************************************************)
EXTENDS Integers, Sequences

CONSTANTS
  NSectors,   \* sectors of the card
  Values,     \* what a sector can hold
  MaxSectors, \* most sectors of one call
  MaxTries,   \* times emmc_init resets the card (10 in the code)
  MaxRetries, \* max_retries of do_data_command
  MaxFaults   \* bound: errors and missed deadlines of the hardware

ASSUME SizesAssumption ==
  /\ {NSectors, MaxSectors, MaxTries, MaxRetries} \subseteq Nat \ {0}
  /\ MaxFaults \in Nat

Sectors    == 0 .. NSectors - 1
SectorSize == 512
Junk == "junk"    \* what the data register holds when the controller has nothing
SCR  == "scr"

Errors == {"cmdTimeout", "cmdCrc", "dataTimeout", "dataCrc"}

\* Rows of the command table: those with direction 1, with is_data, with
\* response type RT48Busy, with block_count.
Reads == {"ReadBlock", "ReadMultiple", "SendSCR"}
Data  == Reads \cup {"WriteBlock", "WriteMultiple"}
Busy  == {"SelectCard"}
Multiple == {"ReadMultiple", "WriteMultiple"}

None   == [op |-> "none"]
Calls  == [op : {"read"}, lba : Sectors, nsec : 1 .. MaxSectors, data : {<< >>}]
            \cup UNION { [op : {"write"}, lba : Sectors, nsec : {n}, data : [1 .. n -> Values]]
                         : n \in 1 .. MaxSectors }
NoCmd  == [cmd |-> "none", arg |-> 0, blocks |-> 0, phase |-> "done", moved |-> 0]
NoResp == [cmd |-> "none", ready |-> FALSE, hc |-> FALSE]

VARIABLES
  pc,         \* where the driver is: in emmc_issue_command, or between commands
  stage,      \* the command of emmc_card_reset that is due, or "run"
  device,     \* sdhc, transfer_blocks, last_error, last_response of emmc_device, and
              \* whether rca is set
  v2_card,    \* what check_v2_card returned
  tries,      \* resets tried
  call,       \* the call of pi_sd_read or pi_sd_write in progress
  retry_count,
  buffer,     \* the caller's buffer, one entry a sector
  block,      \* blocks transferred by do_data_transfer
  intr_val,   \* the flags as last read
  success,    \* the result of emmc_issue_command
  result,     \* what the last read left in the buffer
  int_flags,  \* EMMC->int_flags
  ctl,        \* the controller: command, its argument, phase, blocks moved
  fifo,       \* blocks waiting in EMMC->data
  response,   \* EMMC->response
  card,       \* the card: version 2, high capacity, asked to power up, powered, and
              \* whether it has taken an address
  disk,       \* what it stores
  faults,     \* faults so far
  absorb,     \* faults of this call
  late        \* the phases of which a flag came after its deadline

driver   == <<stage, device, v2_card, tries, call, retry_count, buffer, result>>
issue    == <<pc, block, intr_val, success>>
hardware == <<int_flags, ctl, fifo, response, card, disk>>
history  == <<faults, absorb, late>>
vars     == <<driver, issue, hardware, history>>

-----------------------------------------------------------------------------
(* Commands. *)

CommandOf ==
  [goIdle |-> "GoIdle", ifCond |-> "SendIfCond", opCond |-> "IOSetOpCond",
   appOcr |-> "App", ocr |-> "OcrCheck", appBusy |-> "App", busy |-> "OcrCheck",
   cid |-> "SendCide", rca |-> "SendRelativeAddr", select |-> "SelectCard",
   blockLen |-> "SetBlockLen", appScr |-> "App", scr |-> "SendSCR"]

\* The stage after one that succeeded; set_scr skips CTSetBlockLen for SDHC.
Following(s, sdhc) ==
  CASE s = "goIdle" -> "ifCond" [] s = "ifCond"  -> "opCond"  [] s = "opCond" -> "appOcr"
    [] s = "appOcr" -> "ocr"    [] s = "ocr"     -> "appBusy" [] s = "appBusy" -> "busy"
    [] s = "busy"   -> "cid"    [] s = "cid"     -> "rca"     [] s = "rca" -> "select"
    [] s = "select" -> (IF sdhc THEN "appScr" ELSE "blockLen")
    [] s = "blockLen" -> "appScr" [] s = "appScr" -> "scr" [] s = "scr" -> "run"

\* Mutant: the single-block commands for every size.
DataCommandSingle(c) == IF c.op = "read" THEN "ReadBlock" ELSE "WriteBlock"

DataCommand(c) == CASE c.op = "read"  /\ c.nsec = 1 -> "ReadBlock"
                    [] c.op = "read"  /\ c.nsec > 1 -> "ReadMultiple"
                    [] c.op = "write" /\ c.nsec = 1 -> "WriteBlock"
                    [] c.op = "write" /\ c.nsec > 1 -> "WriteMultiple"

\* A card that is not SDHC is addressed in bytes.
DataArg(c) == IF device.sdhc THEN c.lba ELSE c.lba * SectorSize

\* check_ocr only asks; check_sdhc_support names a voltage, and HCS to a v2 card.
OcrArg == CASE stage = "busy" /\ v2_card = "yes" -> "voltage and HCS"
            [] stage = "busy" /\ v2_card # "yes" -> "voltage"
            [] stage # "busy" -> "inquiry"

\* emmc_app_command sends CMD55 with the address check_rca has read, if any.
\* emmc_card_reset does not forget it.
StageArg == CASE CommandOf[stage] = "App" /\ device.rca -> "rca"
              [] CommandOf[stage] = "App" /\ ~device.rca -> "no rca"
              [] OTHER -> OcrArg

\* The sector the card takes an argument for; -1 is an address error.
Addressed(arg) == CASE card.hc -> arg
                    [] ~card.hc /\ arg % SectorSize = 0 -> arg \div SectorSize
                    [] OTHER -> -1

Ready(cmd) == IF cmd \in Reads THEN "readReady" ELSE "writeReady"

Init ==
  /\ pc = "reset" /\ stage = "goIdle" /\ tries = 0
  /\ device = [sdhc |-> FALSE, transfer_blocks |-> 0, last_error |-> {}, last_response |-> NoResp,
               rca |-> FALSE]
  /\ v2_card = "unknown"
  /\ call = None /\ retry_count = 0 /\ buffer = << >> /\ result = << >>
  /\ block = 0 /\ intr_val = {} /\ success = FALSE
  /\ int_flags = {} /\ ctl = NoCmd /\ fifo = << >> /\ response = NoResp
  /\ card \in [v2 : BOOLEAN, hc : BOOLEAN, asked : {"inquiry"}, powered : {FALSE},
              rca : {FALSE}]
  /\ card.hc => card.v2
  /\ disk \in [Sectors -> Values]
  /\ faults = 0 /\ absorb = 0 /\ late = {}

-----------------------------------------------------------------------------
(* emmc_issue_command and do_data_transfer. *)

\* The registers are written; the command that was under way is given up.
Issue ==
  /\ pc = "issue"
  /\ LET cmd == IF stage = "run" THEN DataCommand(call) ELSE CommandOf[stage]
     IN  ctl' = [cmd    |-> cmd,
                 arg    |-> IF stage = "run" THEN DataArg(call) ELSE StageArg,
                 blocks |-> IF cmd \in Multiple THEN device.transfer_blocks ELSE 1,
                 phase  |-> "cmd", moved |-> 0]
  /\ fifo' = << >>
  /\ pc' = "command"
  /\ UNCHANGED <<driver, block, intr_val, success, int_flags, response, card, disk, history>>

\* Nothing more is coming: the wait runs out.
WaitRunsOut == ctl.phase \notin {"cmd", "data", "program", "busy"}

AwaitCommand ==
  /\ pc = "command"
  /\ int_flags \cap (Errors \cup {"cmd"}) # {}
  /\ intr_val' = int_flags
  /\ pc' = "clear"
  /\ UNCHANGED <<driver, block, success, hardware, history>>

\* The flags stay as they are: an answer that comes now is found by the next command.
GiveUpCommand ==
  /\ pc = "command"
  /\ int_flags \cap (Errors \cup {"cmd"}) = {}
  /\ WaitRunsOut
  /\ success' = FALSE
  /\ pc' = "returned"
  /\ UNCHANGED <<driver, block, intr_val, hardware, history>>

\* Mutant: only the command bit is cleared.
ClearedCommandBit == {"cmd"}

\* 0xFFFF0001.
Cleared == Errors \cup {"cmd"}

\* Any error flag fails the command.
ClearCommand ==
  /\ pc = "clear"
  /\ int_flags' = int_flags \ Cleared /\ intr_val' = {}
  /\ IF intr_val \cap (Errors \cup {"cmd"}) # {"cmd"}
     THEN /\ device' = [device EXCEPT !.last_error = intr_val \cap Errors]
          /\ success' = FALSE /\ pc' = "returned"
          /\ UNCHANGED block
     ELSE /\ device' = IF ctl.cmd = "GoIdle" THEN device
                       ELSE [device EXCEPT !.last_response = response]
          /\ block' = 0
          /\ success' = TRUE
          /\ pc' = IF ctl.cmd \in Data THEN "block"
                   ELSE IF ctl.cmd \in Busy THEN "transfer" ELSE "returned"
  /\ UNCHANGED <<stage, v2_card, tries, call, retry_count, buffer, result,
                 ctl, fifo, response, card, disk, history>>

AwaitBlock ==
  /\ pc = "block"
  /\ IF block = device.transfer_blocks
     THEN pc' = "transfer" /\ UNCHANGED intr_val
     ELSE /\ int_flags \cap (Errors \cup {Ready(ctl.cmd)}) # {} \/ WaitRunsOut
          /\ intr_val' = int_flags
          /\ pc' = "move"
  /\ UNCHANGED <<driver, block, success, hardware, history>>

\* An error ends do_data_transfer; emmc_issue_command ignores that it failed.
MoveFails ==
  /\ pc = "move"
  /\ intr_val \cap (Errors \cup {Ready(ctl.cmd)}) # {Ready(ctl.cmd)}
  /\ int_flags' = int_flags \ {Ready(ctl.cmd)} /\ intr_val' = {}
  /\ device' = [device EXCEPT !.last_error = intr_val \cap Errors]
  /\ pc' = "transfer"
  /\ UNCHANGED <<stage, v2_card, tries, call, retry_count, buffer, result,
                 block, success, ctl, fifo, response, card, disk, history>>

\* A block goes through the data register, whatever the controller has there.
MoveBlock ==
  /\ pc = "move"
  /\ intr_val \cap (Errors \cup {Ready(ctl.cmd)}) = {Ready(ctl.cmd)}
  /\ int_flags' = int_flags \ {Ready(ctl.cmd)} /\ intr_val' = {}
  /\ block' = block + 1
  /\ pc' = "block"
  /\ IF ctl.cmd \in Reads
     THEN /\ buffer' = IF ctl.cmd = "SendSCR" THEN buffer
                       ELSE [buffer EXCEPT ![block + 1] = IF fifo = << >> THEN Junk ELSE Head(fifo)]
          /\ fifo' = << >>
          /\ ctl' = IF fifo = << >> THEN ctl
                    ELSE [ctl EXCEPT !.moved = @ + 1,
                                     !.phase = IF ctl.moved + 1 = ctl.blocks THEN "busy" ELSE "data"]
     ELSE /\ IF ctl.phase = "fill"
             THEN ctl' = [ctl EXCEPT !.phase = "program"] /\ fifo' = << buffer[block + 1] >>
             ELSE UNCHANGED <<ctl, fifo>>
          /\ UNCHANGED buffer
  /\ UNCHANGED <<stage, device, v2_card, tries, call, retry_count, result,
                 success, response, card, disk, history>>

AwaitTransfer ==
  /\ pc = "transfer"
  /\ int_flags \cap (Errors \cup {"transfer"}) # {} \/ WaitRunsOut
  /\ intr_val' = int_flags
  /\ pc' = "end"
  /\ UNCHANGED <<driver, block, success, hardware, history>>

\* Mutant: the flags are read but not looked at.
TransferEndedUnchecked == TRUE

\* The two values of intr_val & 0xFFFF0002 that count as an end.
TransferEnded == intr_val \cap (Errors \cup {"transfer"})
                   \in {{"transfer"}, {"transfer", "dataTimeout"}}

EndCommand ==
  /\ pc = "end"
  /\ int_flags' = int_flags \ (Errors \cup {"transfer"}) /\ intr_val' = {}
  /\ success' = TransferEnded
  /\ device' = IF TransferEnded THEN device
               ELSE [device EXCEPT !.last_error = intr_val \cap Errors]
  /\ pc' = "returned"
  /\ UNCHANGED <<stage, v2_card, tries, call, retry_count, buffer, result,
                 block, ctl, fifo, response, card, disk, history>>

-----------------------------------------------------------------------------
(* emmc_init and emmc_card_reset. *)

\* RESET_HOST, the clock, the flags.
ResetCard ==
  /\ pc = "reset"
  /\ stage' = "goIdle" /\ v2_card' = "unknown"
  /\ device' = [device EXCEPT !.transfer_blocks = 0]
  /\ int_flags' = {} /\ ctl' = NoCmd /\ fifo' = << >>
  /\ pc' = "issue"
  /\ UNCHANGED <<tries, call, retry_count, buffer, result, block, intr_val, success,
                 response, card, disk, history>>

\* Mutant: for CMD8 only.
CommandResetIfCond == stage = "ifCond" /\ ~success /\ "cmdTimeout" \in device.last_error

\* reset_command, then the flag of the command timeout is cleared.
CommandReset == /\ stage \in {"ifCond", "opCond"}
                /\ ~success /\ "cmdTimeout" \in device.last_error

\* Which results make emmc_card_reset return false.  last_error is not
\* cleared between commands; check_v2_card returning false is not a failure.
StageFails ==
  CASE stage = "ifCond" -> FALSE
    [] stage = "opCond" -> ~success /\ device.last_error # {} /\ ~CommandReset
    [] stage \in {"rca", "select"} -> ~success \/ device.last_response.cmd # CommandOf[stage]
    [] OTHER -> ~success

\* Mutant: the capacity bit is taken from the first answer.
StillBusyNever == FALSE

StillBusy == stage = "busy" /\ ~device.last_response.ready

NextStage ==
  /\ pc = "returned" /\ stage # "run" /\ ~StageFails
  /\ stage' = IF StillBusy THEN "appBusy" ELSE Following(stage, device.sdhc)
  /\ v2_card' = IF stage # "ifCond" THEN v2_card
                ELSE IF success /\ device.last_response.cmd = "SendIfCond" THEN "yes" ELSE "no"
  /\ device' = [device EXCEPT !.sdhc = IF stage = "busy" /\ ~StillBusy
                                       THEN device.last_response.hc ELSE @,
                              !.rca = @ \/ stage = "rca",
                              !.transfer_blocks = IF stage' = "appScr" THEN 1 ELSE @]
  /\ int_flags' = CASE stage = "scr" -> {}
                    [] CommandReset  -> int_flags \ {"cmdTimeout"}
                    [] OTHER         -> int_flags
  /\ ctl' = IF CommandReset THEN NoCmd ELSE ctl
  /\ late' = IF stage = "scr" THEN {} ELSE late
  /\ tries' = IF stage = "scr" THEN 0 ELSE tries
  /\ pc' = IF stage = "scr" THEN "idle" ELSE "issue"
  /\ UNCHANGED <<call, retry_count, buffer, result, block, intr_val, success,
                 fifo, response, card, disk, faults, absorb>>

\* Errors and missed deadlines of the hardware.
Fault == faults < MaxFaults /\ faults' = faults + 1 /\ absorb' = IF stage = "run" THEN absorb + 1 ELSE 0

\* The card reset failed; pi_sd_init panics when emmc_init gives up.  The
\* host, its clock or its command line may not come back from a reset.
ResetFails ==
  /\ \/ pc = "returned" /\ stage # "run" /\ StageFails /\ UNCHANGED history
     \/ pc = "returned" /\ stage = "opCond" /\ CommandReset /\ Fault /\ UNCHANGED late
     \/ pc = "reset" /\ Fault /\ UNCHANGED late
  /\ tries' = tries + 1
  /\ pc' = IF tries + 1 < MaxTries THEN "reset" ELSE "panic"
  /\ UNCHANGED <<stage, device, v2_card, call, retry_count, buffer, result,
                 block, intr_val, success, hardware>>

-----------------------------------------------------------------------------
(* pi_sd_read, pi_sd_write: do_data_command. *)

Call ==
  /\ pc = "idle"
  /\ call' \in {c \in Calls : c.lba + c.nsec - 1 \in Sectors}
  /\ device' = [device EXCEPT !.transfer_blocks = call'.nsec]
  /\ buffer' = [k \in 1 .. call'.nsec |-> IF call'.op = "write" THEN call'.data[k] ELSE Junk]
  /\ retry_count' = 0 /\ result' = << >>
  /\ absorb' = 0
  /\ pc' = "issue"
  /\ UNCHANGED <<stage, v2_card, tries, block, intr_val, success, hardware, faults, late>>

CallReturns ==
  /\ pc = "returned" /\ stage = "run" /\ success
  /\ result' = IF call.op = "read" THEN buffer ELSE result
  /\ call' = None /\ buffer' = << >>
  /\ pc' = "idle"
  /\ UNCHANGED <<stage, device, v2_card, tries, retry_count,
                 block, intr_val, success, hardware, history>>

\* Mutant: the retries are not counted.
NextRetryUncounted == retry_count

NextRetry == retry_count + 1

\* The command is written again as it was, with no reset of the controller.
Retry ==
  /\ pc = "returned" /\ stage = "run" /\ ~success
  /\ retry_count' = NextRetry
  /\ pc' = IF NextRetry < MaxRetries THEN "issue" ELSE "panic"
  /\ UNCHANGED <<stage, device, v2_card, tries, call, buffer, result,
                 block, intr_val, success, hardware, history>>

-----------------------------------------------------------------------------
(* The controller and the card.  A "slow" phase is a missed deadline: the  *)
(* flag is raised once the driver's wait has run out, if at all.           *)

Raise(flags) == int_flags' = int_flags \cup flags
Phase(p)     == ctl' = [ctl EXCEPT !.phase = p]
Noted        == late' = late \cup ({ctl.phase} \cap {"slowCmd", "slowData", "slowBusy"})

\* A memory card does not know CMD5, a version 1 card not CMD8 either.  CMD55
\* is answered by the card it names: no address names one that has none yet.
Answers == /\ ctl.cmd # "IOSetOpCond"
           /\ ctl.cmd = "SendIfCond" => card.v2
           /\ ctl.cmd = "App" => (ctl.arg = "rca" <=> card.rca)

Respond ==
  /\ ctl.phase = "cmd" \/ (ctl.phase = "slowCmd" /\ pc # "command")
  /\ Answers
  /\ Raise({"cmd"})
  /\ Phase(IF ctl.cmd \in Data THEN "data" ELSE IF ctl.cmd \in Busy THEN "busy" ELSE "done")
  /\ response' = [cmd |-> ctl.cmd, ready |-> ctl.cmd = "OcrCheck" /\ card.powered,
                  hc |-> ctl.cmd = "OcrCheck" /\ card.powered /\ card.hc]
  /\ card' = CASE ctl.cmd = "GoIdle" -> [card EXCEPT !.asked = "inquiry", !.powered = FALSE,
                                                      !.rca = FALSE]
               [] ctl.cmd = "OcrCheck" /\ ctl.arg # "inquiry" -> [card EXCEPT !.asked = ctl.arg]
               [] ctl.cmd = "SendRelativeAddr" -> [card EXCEPT !.rca = TRUE]
               [] OTHER -> card
  /\ Noted
  /\ UNCHANGED <<driver, issue, fifo, disk, faults, absorb>>

NoAnswer ==
  /\ ctl.phase = "cmd" /\ ~Answers
  /\ Raise({"cmdTimeout"}) /\ Phase("done")
  /\ UNCHANGED <<driver, issue, fifo, response, card, disk, history>>

\* A high capacity card that is not told of HCS stays busy.
PowerUp ==
  /\ card.asked # "inquiry" /\ ~card.powered
  /\ card.hc => card.asked = "voltage and HCS"
  /\ card' = [card EXCEPT !.powered = TRUE]
  /\ UNCHANGED <<driver, issue, int_flags, ctl, fifo, response, disk, history>>

\* The next block of a read, or room for the next block of a write; a sector
\* the card does not have never comes.
Target == Addressed(ctl.arg) + ctl.moved
BlockReady ==
  /\ ctl.phase = "data" \/ (ctl.phase = "slowData" /\ pc # "block")
  /\ CASE ctl.cmd # "SendSCR" /\ Target \notin Sectors ->
            Raise({"dataTimeout"}) /\ Phase("done") /\ UNCHANGED fifo
       [] ctl.cmd = "SendSCR" \/ (ctl.cmd \in Reads /\ Target \in Sectors) ->
            /\ fifo' = << IF ctl.cmd = "SendSCR" THEN SCR ELSE disk[Target] >>
            /\ Raise({"readReady"}) /\ Phase("drain")
       [] ctl.cmd \notin Reads /\ Target \in Sectors ->
            Raise({"writeReady"}) /\ Phase("fill") /\ UNCHANGED fifo
  /\ Noted
  /\ UNCHANGED <<driver, issue, response, card, disk, faults, absorb>>

\* The card has stored a block the driver wrote.
Program ==
  /\ ctl.phase = "program"
  /\ disk' = [disk EXCEPT ![Target] = Head(fifo)]
  /\ ctl' = [ctl EXCEPT !.moved = @ + 1,
                        !.phase = IF ctl.moved + 1 = ctl.blocks THEN "busy" ELSE "data"]
  /\ UNCHANGED <<driver, issue, int_flags, fifo, response, card, history>>

TransferDone ==
  /\ ctl.phase = "busy" \/ (ctl.phase = "slowBusy" /\ pc # "transfer")
  /\ Raise({"transfer"}) /\ Phase("done")
  /\ Noted
  /\ UNCHANGED <<driver, issue, fifo, response, card, disk, faults, absorb>>

\* Errors: no or a garbled answer; a block that times out or arrives
\* garbled; an end that is late but came.
HardwareError ==
  /\ Fault
  /\ \/ ctl.phase = "cmd" /\ \E e \in {"cmdTimeout", "cmdCrc"} : Raise({e})
     \/ ctl.phase \in {"data", "program"} /\ \E e \in {"dataTimeout", "dataCrc"} : Raise({e})
     \/ ctl.phase = "busy" /\ Raise({"transfer", "dataTimeout"})
  /\ Phase("done")
  /\ UNCHANGED <<driver, issue, fifo, response, card, disk, late>>

MissesDeadline ==
  /\ Fault
  /\ \/ ctl.phase = "cmd" /\ Phase("slowCmd")
     \/ ctl.phase = "data" /\ Phase("slowData")
     \/ ctl.phase = "busy" /\ Phase("slowBusy")
  /\ UNCHANGED <<driver, issue, int_flags, fifo, response, card, disk, late>>

-----------------------------------------------------------------------------
Driver == \/ Issue \/ AwaitCommand \/ GiveUpCommand \/ ClearCommand
          \/ AwaitBlock \/ MoveFails \/ MoveBlock \/ AwaitTransfer \/ EndCommand
          \/ ResetCard \/ NextStage \/ ResetFails \/ CallReturns \/ Retry
Hardware == \/ Respond \/ NoAnswer \/ PowerUp \/ BlockReady
            \/ Program \/ TransferDone \/ HardwareError \/ MissesDeadline
Next == Driver \/ Call \/ Hardware

\* The processor runs on, a card that was asked powers up, and a controller
\* that has not missed its deadline answers.
Fairness == /\ WF_vars(Driver)
            /\ WF_vars(PowerUp)
            /\ WF_vars((Respond \/ NoAnswer \/ BlockReady \/ Program \/ TransferDone)
                       /\ ctl.phase \in {"cmd", "data", "program", "busy"})
Spec == Init /\ [][Next]_vars /\ Fairness

-----------------------------------------------------------------------------
(* Properties. *)

\* Once emmc_init has returned, the driver addresses the card the way the
\* card counts: in sectors exactly if it is a high capacity card.
AddressingAgrees == stage = "run" => device.sdhc = card.hc

\* A call panics only if each of its tries met an error or got no answer: a
\* retry is not spoiled by what the try before it left behind, unless that
\* came after its deadline.
RetriesAbsorb == pc = "panic" /\ stage = "run" /\ late = {} => absorb >= MaxRetries

\* emmc_init gives up only if each of its resets met a fault: what one leaves
\* behind does not spoil the next.  There is one thing that does, the address
\* read by check_rca: emmc_card_reset keeps it, the card does not, and the next
\* CMD55 names no card.
InitAbsorbs ==
  pc = "panic" /\ stage # "run" => faults >= MaxTries \/ (faults > 0 /\ device.rca)

\* emmc_init and every call come back or panic, except for emmc_init with a
\* high capacity card whose CMD8 failed: it is not told of HCS and polled for ever.
NeverTold == card.hc /\ v2_card = "no"
EndsOrPanics == []<>(pc \in {"idle", "panic"}) \/ <>[]NeverTold

\* What a call that returns owes its caller.
Honoured(c, r, d) == \A k \in 1 .. c.nsec :
                       d[c.lba + k - 1] = IF c.op = "read" THEN r[k] ELSE c.data[k]

\* Although emmc_issue_command ignores do_data_transfer's result, no error
\* and no answer or block that comes too late makes a call return without
\* having done its work; only a late end of a transfer does.
LateIsCaught ==
  [][call # None /\ call' = None /\ "slowBusy" \notin late
       => Honoured(call, result', disk)]_vars

\* pi_sd_read and pi_sd_write implement the store of sectors the file system
\* assumes, as long as nothing comes after its deadline.
Store == INSTANCE SectorStore WITH kept <- (stage = "run" => late = {})
ImplementsSectorStore == Store!Spec
=============================================================================
