------------------------------- MODULE SigPad -------------------------------
(***************************************************************************)
(* final_project/sig_write.c and sig-save.h: the signature pad.  Its loop  *)
(* samples the touch panel, and saves what was drawn as the next SIGnnn.BMP*)
(* when the button is pressed or nobody has touched the panel for a while. *)
(*                                                                         *)
(* A save is three calls of the FAT32 driver, each of which changes the    *)
(* card at one instant (Fat32!AtomicOnCard), with power failures between   *)
(* them.  A panic in the driver, for want of space or heap, leaves the card*)
(* as a power failure does.                                                *)
(*                                                                         *)
(* The pixel buffer is abstracted to the set of people whose strokes are   *)
(* in it: a new person comes after each save, and after each reboot that   *)
(* lost strokes.                                                           *)
(***************************************************************************)
EXTENDS Integers, Sequences, FiniteSetsExt

CONSTANTS
  NNames,      \* 1000: names SIG000.BMP ... SIG999.BMP
  TimerMod,    \* 2^32: the microsecond timer's modulus
  Timeout,     \* TIMEOUT_USEC
  MaxStep,     \* bound: the longest time between two reads of the timer
  MaxPersons,  \* bound: people who sign
  None         \* no file; nobody

\* One turn of the loop is much shorter than the timer's period.
ASSUME PadAssumption ==
  /\ NNames \in Nat /\ NNames > 1 /\ MaxPersons \in Nat
  /\ MaxStep \in Nat /\ Timeout \in Nat /\ TimerMod \in Nat
  /\ Timeout + 2 * MaxStep < TimerMod

\* A name without a file is no content of a file.
ASSUME NoneAssumption == None \notin {<< >>} \cup {<<s>> : s \in SUBSET (1 .. MaxPersons)}

VARIABLES
  files,        \* the card: number -> None, << >> or <<pixels>>
  pc,           \* where the loop is
  sig_counter,
  sig_pixels,   \* whose strokes are in the buffer
  has_strokes,
  last_touch,   \* last_touch_usec
  now,          \* the timer
  button,       \* the button is down
  person,       \* who is at the panel (history)
  quiet,        \* time since the last touch, not reduced modulo TimerMod (history)
  wrapped,      \* a name has been used for the second time (history)
  saved         \* people told "Saved!", in order (history)

loop == <<pc, sig_counter, sig_pixels, has_strokes>>
time == <<now, last_touch, quiet>>
vars == <<files, loop, time, button, person, wrapped, saved>>

Numbers == 0 .. NNames - 1
Persons == 1 .. MaxPersons

\* filename[3..5]: the counter's last three digits.
Name == sig_counter % NNames

\* Mutant: the highest number itself is used again.
NextNumberHighest(card) ==
  LET used == {k \in Numbers : card[k] # None}
  IN  IF used = {} THEN 0 ELSE Max(used)

\* The scan of sig_init: one more than the highest number on the card.
NextNumber(card) ==
  LET used == {k \in Numbers : card[k] # None}
  IN  IF used = {} THEN 0 ELSE Max(used) + 1

Init ==
  /\ files = [k \in Numbers |-> None]
  /\ pc = "sample" /\ sig_counter = 0 /\ sig_pixels = {} /\ has_strokes = FALSE
  /\ now \in 0 .. TimerMod - 1 /\ last_touch = 0 /\ quiet = 0
  /\ button = FALSE /\ person = 1 /\ wrapped = FALSE /\ saved = << >>

-----------------------------------------------------------------------------
Capped(t) == IF t > Timeout + 2 * MaxStep THEN Timeout + 2 * MaxStep + 1 ELSE t

Passes(d) == now' = (now + d) % TimerMod

\* tsc2007_read_touch saw a finger: record the point and the time.
Touch ==
  /\ pc = "sample" /\ person \in Persons
  /\ sig_pixels' = sig_pixels \cup {person}
  /\ has_strokes' = TRUE
  /\ last_touch' = now
  /\ pc' = "check"
  /\ \E d \in 0 .. MaxStep : Passes(d) /\ quiet' = d
  /\ button' \in BOOLEAN
  /\ UNCHANGED <<files, sig_counter, person, wrapped, saved>>

\* No finger: with nothing drawn yet the loop starts again.
NoTouch ==
  /\ pc = "sample"
  /\ pc' = IF has_strokes THEN "check" ELSE "sample"
  /\ \E d \in 0 .. MaxStep : Passes(d) /\ quiet' = Capped(quiet + d)
  /\ button' \in BOOLEAN
  /\ UNCHANGED <<files, sig_counter, sig_pixels, has_strokes, last_touch,
                 person, wrapped, saved>>

\* Mutants: the difference is not reduced; the sum is.
ElapsedSigned == now - last_touch
TimedOutByDeadline == now > (last_touch + Timeout) % TimerMod

elapsed == (now - last_touch) % TimerMod
timed_out == elapsed > Timeout

Check ==
  /\ pc = "check"
  /\ pc' = IF button \/ timed_out THEN "delete" ELSE "sample"
  /\ \E d \in 0 .. MaxStep : Passes(d) /\ quiet' = Capped(quiet + d)
  /\ UNCHANGED <<files, sig_counter, sig_pixels, has_strokes, last_touch,
                 button, person, wrapped, saved>>

\* Mutant: the file of that name is not deleted.
SaveDeleteNothing ==
  /\ pc = "delete"
  /\ wrapped' = (wrapped \/ sig_counter >= NNames)
  /\ pc' = "create"
  /\ UNCHANGED <<files, sig_counter, sig_pixels, has_strokes, time,
                 button, person, saved>>

\* fat32_delete, whose result is ignored: the name is usually new.
SaveDelete ==
  /\ pc = "delete"
  /\ files' = [files EXCEPT ![Name] = None]
  /\ wrapped' = (wrapped \/ sig_counter >= NNames)
  /\ pc' = "create"
  /\ UNCHANGED <<sig_counter, sig_pixels, has_strokes, time, button, person, saved>>

\* assert(fat32_create(...)): an empty file of that name.
SaveCreate ==
  /\ pc = "create"
  /\ files' = [files EXCEPT ![Name] = << >>]
  /\ pc' = "write"
  /\ UNCHANGED <<sig_counter, sig_pixels, has_strokes, time, button,
                 person, wrapped, saved>>

\* assert(fat32_write(...)): the pixels as they were copied into bmp.
SaveWrite ==
  /\ pc = "write"
  /\ files' = [files EXCEPT ![Name] = <<sig_pixels>>]
  /\ pc' = "done"
  /\ UNCHANGED <<sig_counter, sig_pixels, has_strokes, time, button,
                 person, wrapped, saved>>

\* Mutant: the pixels stay for the next person.
FinishNoClear ==
  /\ pc = "done"
  /\ sig_counter' = sig_counter + 1
  /\ has_strokes' = FALSE
  /\ pc' = "sample"
  /\ saved' = Append(saved, person) /\ person' = person + 1
  /\ UNCHANGED <<files, sig_pixels, time, button, wrapped>>

\* sig_counter++, sig_clear(), "Saved!", has_strokes = 0.
Finish ==
  /\ pc = "done"
  /\ sig_counter' = sig_counter + 1
  /\ sig_pixels' = {}
  /\ has_strokes' = FALSE
  /\ pc' = "sample"
  /\ saved' = Append(saved, person) /\ person' = person + 1
  /\ UNCHANGED <<files, time, button, wrapped>>

\* Power fails, or a panic is answered by a reset; sig_init scans the card.
Reboot ==
  /\ sig_counter' = NextNumber(files)
  /\ sig_pixels' = {} /\ has_strokes' = FALSE /\ pc' = "sample"
  /\ last_touch' = 0 /\ quiet' = 0 /\ now' = 0
  /\ person' = IF has_strokes THEN person + 1 ELSE person
  /\ UNCHANGED <<files, button, wrapped, saved>>

Next == \/ Touch \/ NoTouch \/ Check
        \/ SaveDelete \/ SaveCreate \/ SaveWrite \/ Finish
        \/ Reboot

Spec == Init /\ [][Next]_vars

-----------------------------------------------------------------------------
(* Properties. *)

\* Until a name is used for the second time, everyone told "Saved!" has the
\* signature on the card, whatever power failures came in the middle of a
\* later save.
SavedIsKept ==
  ~wrapped => \A j \in DOMAIN saved :
                \E k \in Numbers : files[k] = <<{saved[j]}>>

\* A file of the card holds the strokes of one person: never a blank page,
\* never two people's strokes over one another.
OnePersonPerFile ==
  \A k \in Numbers :
    files[k] \in {None, << >>} \cup {<<{s}>> : s \in Persons}

\* Without the button, a save starts only after Timeout without a touch,
\* although the timer wraps around.
NotCutShort ==
  [][pc = "check" /\ pc' = "delete" => button \/ quiet > Timeout]_vars

\* A signature nobody goes on with is saved at most one turn of the loop
\* after the timeout, although the timer wraps around.
NotForgotten ==
  has_strokes => /\ pc = "sample" => quiet <= Timeout + MaxStep
                 /\ pc = "check"  => quiet <= Timeout + 2 * MaxStep

\* The pad uses the driver only in the ways whose atomicity Fat32 checks:
\* no name is created twice and no file is written twice.
Store == INSTANCE FileStore WITH
           Names <- Numbers, Blocks <- SUBSET Persons, Absent <- None
UsesStore == Store!Spec
=============================================================================
