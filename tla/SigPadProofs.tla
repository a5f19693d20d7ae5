---------------------------- MODULE SigPadProofs ----------------------------
(***************************************************************************)
(* For every number of names, timer period and timeout: no acknowledged    *)
(* signature is lost before a name is used again, no two people share a    *)
(* file, the timeout is right although the timer wraps, and the pad uses   *)
(* the card as a FileStore.                                                *)
(***************************************************************************)
EXTENDS SigPad, SequenceTheorems, WellFoundedInduction, TLAPS

Signature == {<<{s}>> : s \in Persons}

TypeOK ==
  /\ files \in [Numbers -> {None, << >>} \cup Signature]
  /\ pc \in {"sample", "check", "delete", "create", "write", "done"}
  /\ sig_counter \in Nat /\ has_strokes \in BOOLEAN
  /\ now \in 0 .. TimerMod - 1 /\ last_touch \in 0 .. TimerMod - 1 /\ quiet \in Nat
  /\ button \in BOOLEAN /\ wrapped \in BOOLEAN
  /\ person \in Nat /\ saved \in Seq(Persons)

\* What is drawn is one person's, and how far its save has come on the card.
SaveInProgress ==
  /\ sig_pixels = IF has_strokes THEN {person} ELSE {}
  /\ has_strokes => person \in Persons
  /\ pc # "sample" => has_strokes
  /\ pc = "create" => files[Name] = None
  /\ pc = "write"  => files[Name] = << >>
  /\ pc = "done"   => files[Name] = <<{person}>>

\* Until a name is used again, names are used in ascending order: a save
\* never touches a file whose owner was told "Saved!".
NamesAscend ==
  ~wrapped =>
    /\ sig_counter <= NNames
    /\ pc \in {"create", "write", "done"} => sig_counter < NNames
    /\ \A k \in Numbers : files[k] # None =>
         k < sig_counter \/ (k = sig_counter /\ pc \in {"write", "done"})
    /\ \A j \in DOMAIN saved :
         \E k \in Numbers : k < sig_counter /\ files[k] = <<{saved[j]}>>

\* While something is drawn, the timer shows the time since the last touch,
\* which stays below the timer's period.
TimerShowsQuiet ==
  has_strokes /\ pc \in {"sample", "check"} =>
    /\ now = (last_touch + quiet) % TimerMod
    /\ quiet <= Timeout + (IF pc = "sample" THEN MaxStep ELSE 2 * MaxStep)

Inv == TypeOK /\ SaveInProgress /\ NamesAscend /\ TimerShowsQuiet

-----------------------------------------------------------------------------
(* Numbers. *)

\* A sum of two times below the timer's period, reduced.
LEMMA Reduced ==
  ASSUME NEW x \in Nat, x < 2 * TimerMod
  PROVE  /\ x % TimerMod = IF x < TimerMod THEN x ELSE x - TimerMod
         /\ x % TimerMod \in 0 .. TimerMod - 1
BY PadAssumption

\* A difference of two values of the timer, reduced.
LEMMA ReducedDifference ==
  ASSUME NEW x \in 0 .. TimerMod - 1, NEW y \in 0 .. TimerMod - 1
  PROVE  (x - y) % TimerMod = IF y <= x THEN x - y ELSE x - y + TimerMod
BY PadAssumption

\* The timer's modulus cancels: elapsed is the time that has really passed.
LEMMA ElapsedIsQuiet ==
  ASSUME now \in 0 .. TimerMod - 1, last_touch \in 0 .. TimerMod - 1,
         quiet \in 0 .. TimerMod - 1, now = (last_touch + quiet) % TimerMod
  PROVE  elapsed = quiet
<1>1. now = IF last_touch + quiet < TimerMod THEN last_touch + quiet
            ELSE last_touch + quiet - TimerMod
  <2>1. last_touch + quiet \in Nat /\ last_touch + quiet < 2 * TimerMod
    BY PadAssumption
  <2>2. QED
    BY <2>1, Reduced, PadAssumption
<1>2. elapsed = IF last_touch <= now THEN now - last_touch ELSE now - last_touch + TimerMod
  BY ReducedDifference DEF elapsed
<1>3. QED
  BY <1>1, <1>2, PadAssumption

\* Reducing after each addition or once is the same.
LEMMA TimePasses ==
  ASSUME NEW t \in 0 .. TimerMod - 1, NEW q \in Nat, NEW d \in 0 .. MaxStep,
         q + d < TimerMod
  PROVE  (((t + q) % TimerMod) + d) % TimerMod = (t + (q + d)) % TimerMod
<1>1. (t + q) % TimerMod = IF t + q < TimerMod THEN t + q ELSE t + q - TimerMod
  <2>1. t + q \in Nat /\ t + q < 2 * TimerMod
    BY PadAssumption
  <2>2. QED
    BY <2>1, Reduced, PadAssumption, SMTT(30)
<1>2. CASE t + q < TimerMod
  BY <1>1, <1>2, PadAssumption
<1>3. CASE t + q >= TimerMod
  <2>1. t + q - TimerMod + d \in Nat /\ t + q - TimerMod + d < TimerMod
    BY <1>3, PadAssumption
  <2>2. (t + q - TimerMod + d) % TimerMod = t + q - TimerMod + d
    BY <2>1, Reduced, PadAssumption
  <2>3. (t + (q + d)) % TimerMod = t + (q + d) - TimerMod
    <3>1. PICK s \in Nat : s = t + (q + d)
      BY PadAssumption
    <3>2. s < 2 * TimerMod /\ ~(s < TimerMod)
      BY <1>3, <3>1, PadAssumption
    <3>3. s % TimerMod = s - TimerMod
      BY <3>2, Reduced, PadAssumption
    <3>4. QED
      BY <3>1, <3>3, PadAssumption
  <2>4. QED
    BY <1>1, <1>3, <2>2, <2>3, PadAssumption
<1>4. QED
  BY <1>2, <1>3, PadAssumption

\* A set of natural numbers below a bound that is not empty has a greatest.
LEMMA Greatest ==
  ASSUME NEW n \in Nat, NEW S \in SUBSET (0 .. n - 1), S # {}
  PROVE  Max(S) \in S /\ \A k \in S : k <= Max(S)
<1> DEFINE T == {n - k : k \in S}
<1>1. T \subseteq Nat /\ T # {}
  OBVIOUS
<1>2. PICK x \in T : \A y \in T : ~ (<<y, x>> \in OpToRel(<, Nat))
  BY <1>1, WFMin, NatLessThanWellFounded
<1>3. ASSUME NEW y \in T PROVE x <= y
  <2>1. x \in Nat /\ y \in Nat /\ ~ (<<y, x>> \in OpToRel(<, Nat))
    BY <1>1, <1>2
  <2>2. QED
    BY <2>1 DEF OpToRel
<1>4. PICK m \in S : x = n - m
  BY <1>2
<1>5. \A k \in S : m >= k
  <2>1. ASSUME NEW k \in S PROVE m >= k
    <3>1. n - k \in T /\ m \in Int /\ k \in Int
      OBVIOUS
    <3>2. x <= n - k
      BY <1>3, <3>1
    <3>3. QED
      BY <1>4, <3>1, <3>2
  <2>2. QED
    BY <2>1
<1>6. QED
  BY <1>5 DEF Max

\* The scan of sig_init finds a number above all that are in use.
LEMMA NextNumberIsAbove ==
  ASSUME NEW card \in [Numbers -> {None, << >>} \cup Signature]
  PROVE  /\ NextNumber(card) \in 0 .. NNames
         /\ \A k \in Numbers : card[k] # None => k < NextNumber(card)
<1> DEFINE used == {k \in Numbers : card[k] # None}
<1>1. used \in SUBSET (0 .. NNames - 1) /\ NNames \in Nat
  BY PadAssumption DEF Numbers
<1>2. CASE used = {}
  BY <1>2, PadAssumption DEF NextNumber
<1>3. CASE used # {}
  <2>1. Max(used) \in used /\ \A k \in used : k <= Max(used)
    BY <1>1, <1>3, Greatest
  <2>2. NextNumber(card) = Max(used) + 1
    BY <1>3 DEF NextNumber
  <2>3. Max(used) \in 0 .. NNames - 1
    BY <1>1, <2>1
  <2>4. ASSUME NEW k \in Numbers, card[k] # None PROVE k < Max(used) + 1
    <3>1. k \in used /\ k \in Int
      BY <2>4 DEF Numbers
    <3>2. QED
      BY <2>1, <2>3, <3>1
  <2>5. QED
    BY <1>1, <2>2, <2>3, <2>4
<1>4. QED
  BY <1>2, <1>3
-----------------------------------------------------------------------------
(* The invariant. *)

LEMMA InitInv == Init => Inv
<1>1. SUFFICES ASSUME Init PROVE Inv
  OBVIOUS
<1>2. TypeOK
  <2>1. files \in [Numbers -> {None, << >>} \cup Signature]
    BY <1>1 DEF Init
  <2>2. 0 \in 0 .. TimerMod - 1
    BY PadAssumption
  <2>3. saved \in Seq(Persons)
    BY <1>1 DEF Init
  <2>4. QED
    BY <1>1, <2>1, <2>2, <2>3 DEF Init, TypeOK
<1>3. SaveInProgress /\ TimerShowsQuiet
  BY <1>1 DEF Init, SaveInProgress, TimerShowsQuiet
<1>4. NamesAscend
  BY <1>1, PadAssumption DEF Init, NamesAscend
<1>5. QED
  BY <1>2, <1>3, <1>4 DEF Inv

\* Time goes on within the timer's range.
LEMMA TimerInRange ==
  ASSUME TypeOK, NEW d \in 0 .. MaxStep
  PROVE  (now + d) % TimerMod \in 0 .. TimerMod - 1
<1>1. now + d \in Nat /\ now + d < 2 * TimerMod
  BY PadAssumption DEF TypeOK
<1>2. QED
  BY <1>1, Reduced, PadAssumption

LEMMA TouchInv == Inv /\ Touch => Inv'
<1>1. SUFFICES ASSUME Inv, Touch PROVE Inv'
  OBVIOUS
<1>2. PICK d \in 0 .. MaxStep : Passes(d) /\ quiet' = d
  BY <1>1 DEF Touch
<1>3. TypeOK'
  BY <1>1, <1>2, TimerInRange, PadAssumption DEF Inv, Touch, TypeOK, Passes
<1>4. SaveInProgress'
  BY <1>1 DEF Inv, Touch, SaveInProgress
<1>5. NamesAscend'
  BY <1>1 DEF Inv, Touch, NamesAscend
<1>6. TimerShowsQuiet'
  BY <1>1, <1>2, PadAssumption DEF Inv, Touch, TimerShowsQuiet, Passes
<1>7. QED
  BY <1>3, <1>4, <1>5, <1>6 DEF Inv

\* The cap of quiet is never reached while something is drawn.
LEMMA NoTouchInv == Inv /\ NoTouch => Inv'
<1>1. SUFFICES ASSUME Inv, NoTouch PROVE Inv'
  OBVIOUS
<1>2. PICK d \in 0 .. MaxStep : Passes(d) /\ quiet' = Capped(quiet + d)
  BY <1>1 DEF NoTouch
<1>3. TypeOK'
  BY <1>1, <1>2, TimerInRange, PadAssumption DEF Inv, NoTouch, TypeOK, Passes, Capped
<1>4. SaveInProgress'
  BY <1>1 DEF Inv, NoTouch, SaveInProgress, TypeOK
<1>5. NamesAscend'
  BY <1>1 DEF Inv, NoTouch, NamesAscend
<1>6. TimerShowsQuiet'
  <2>1. SUFFICES ASSUME has_strokes PROVE TimerShowsQuiet'
    BY <1>1 DEF NoTouch, TimerShowsQuiet
  <2>2. now = (last_touch + quiet) % TimerMod /\ quiet <= Timeout + MaxStep
    BY <1>1, <2>1 DEF Inv, NoTouch, TimerShowsQuiet
  <2>3. quiet' = quiet + d /\ quiet + d <= Timeout + 2 * MaxStep
    BY <1>1, <1>2, <2>2, PadAssumption DEF Inv, TypeOK, Capped
  <2>4. now' = (last_touch + (quiet + d)) % TimerMod
    <3>1. last_touch \in 0 .. TimerMod - 1 /\ quiet \in Nat /\ quiet + d < TimerMod
      BY <1>1, <2>3, PadAssumption DEF Inv, TypeOK
    <3>2. (((last_touch + quiet) % TimerMod) + d) % TimerMod = (last_touch + (quiet + d)) % TimerMod
      BY <3>1, TimePasses
    <3>3. QED
      BY <1>2, <2>2, <3>2 DEF Passes
  <2>5. QED
    BY <1>1, <2>1, <2>3, <2>4 DEF NoTouch, TimerShowsQuiet
<1>7. QED
  BY <1>3, <1>4, <1>5, <1>6 DEF Inv

\* At check, while something is drawn, elapsed is the time since the last touch.
LEMMA ElapsedIsRight == Inv /\ pc = "check" => elapsed = quiet
<1>1. SUFFICES ASSUME Inv, pc = "check" PROVE elapsed = quiet
  OBVIOUS
<1>2. now = (last_touch + quiet) % TimerMod /\ quiet <= Timeout + 2 * MaxStep
  BY <1>1 DEF Inv, SaveInProgress, TimerShowsQuiet
<1>3. QED
  BY <1>1, <1>2, ElapsedIsQuiet, PadAssumption DEF Inv, TypeOK

LEMMA CheckInv == Inv /\ Check => Inv'
<1>1. SUFFICES ASSUME Inv, Check PROVE Inv'
  OBVIOUS
<1>2. PICK d \in 0 .. MaxStep : Passes(d) /\ quiet' = Capped(quiet + d)
  BY <1>1 DEF Check
<1>3. TypeOK'
  BY <1>1, <1>2, TimerInRange, PadAssumption DEF Inv, Check, TypeOK, Passes, Capped
<1>4. SaveInProgress'
  BY <1>1 DEF Inv, Check, SaveInProgress
<1>5. NamesAscend'
  BY <1>1 DEF Inv, Check, NamesAscend
<1>6. TimerShowsQuiet'
  <2>1. SUFFICES ASSUME pc' = "sample" PROVE TimerShowsQuiet'
    BY <1>1 DEF Check, TimerShowsQuiet
  <2>2. now = (last_touch + quiet) % TimerMod /\ quiet <= Timeout
    BY <1>1, <2>1, ElapsedIsRight, PadAssumption
    DEF Inv, Check, SaveInProgress, TimerShowsQuiet, timed_out, TypeOK
  <2>3. quiet' = quiet + d /\ quiet + d <= Timeout + MaxStep
    BY <1>1, <1>2, <2>2, PadAssumption DEF Inv, TypeOK, Capped
  <2>4. now' = (last_touch + (quiet + d)) % TimerMod
    <3>1. last_touch \in 0 .. TimerMod - 1 /\ quiet \in Nat /\ quiet + d < TimerMod
      BY <1>1, <2>3, PadAssumption DEF Inv, TypeOK
    <3>2. (((last_touch + quiet) % TimerMod) + d) % TimerMod = (last_touch + (quiet + d)) % TimerMod
      BY <3>1, TimePasses
    <3>3. QED
      BY <1>2, <2>2, <3>2 DEF Passes
  <2>5. QED
    BY <1>1, <2>1, <2>3, <2>4 DEF Check, TimerShowsQuiet
<1>7. QED
  BY <1>3, <1>4, <1>5, <1>6 DEF Inv

\* The name of a counter that has not gone round is the counter.
LEMMA NameIsCounter ==
  ASSUME sig_counter \in Nat
  PROVE  Name \in Numbers /\ (sig_counter < NNames => Name = sig_counter)
BY PadAssumption DEF Name, Numbers

LEMMA SaveDeleteInv == Inv /\ SaveDelete => Inv'
<1>1. SUFFICES ASSUME Inv, SaveDelete PROVE Inv'
  OBVIOUS
<1>2. Name \in Numbers /\ Name' = Name /\ (sig_counter < NNames => Name = sig_counter)
  BY <1>1, NameIsCounter DEF Inv, TypeOK, SaveDelete, Name
<1>3. TypeOK'
  BY <1>1, <1>2 DEF Inv, SaveDelete, TypeOK, time
<1>4. SaveInProgress'
  BY <1>1, <1>2 DEF Inv, SaveDelete, SaveInProgress, TypeOK
<1>5. NamesAscend'
  <2>1. SUFFICES ASSUME ~wrapped' PROVE NamesAscend'
    BY DEF NamesAscend
  <2>2. ~wrapped /\ sig_counter < NNames /\ Name = sig_counter
    <3>1. ~wrapped /\ ~(sig_counter >= NNames)
      BY <1>1, <2>1 DEF SaveDelete
    <3>2. QED
      BY <1>1, <1>2, <3>1, PadAssumption DEF Inv, TypeOK
  <2>3. files' = [files EXCEPT ![sig_counter] = None] /\ UNCHANGED <<sig_counter, saved>>
    BY <1>1, <2>2 DEF SaveDelete
  <2>4. \A k \in Numbers : files'[k] # None => k < sig_counter
    BY <1>1, <2>2, <2>3 DEF Inv, TypeOK, NamesAscend, SaveDelete
  <2>5. ASSUME NEW j \in DOMAIN saved
        PROVE  \E k \in Numbers : k < sig_counter /\ files'[k] = <<{saved[j]}>>
    <3>1. PICK k \in Numbers : k < sig_counter /\ files[k] = <<{saved[j]}>>
      BY <1>1, <2>2, <2>5 DEF Inv, NamesAscend
    <3>2. k # sig_counter /\ files'[k] = files[k]
      BY <1>1, <2>3, <3>1, PadAssumption DEF Inv, TypeOK, Numbers
    <3>3. QED
      BY <3>1, <3>2
  <2>6. pc' = "create" /\ sig_counter <= NNames
    BY <1>1, <2>2, PadAssumption DEF SaveDelete, Inv, TypeOK
  <2>7. QED
    BY <2>2, <2>3, <2>4, <2>5, <2>6 DEF NamesAscend
<1>6. TimerShowsQuiet'
  BY <1>1 DEF SaveDelete, TimerShowsQuiet
<1>7. QED
  BY <1>3, <1>4, <1>5, <1>6 DEF Inv

LEMMA SaveCreateInv == Inv /\ SaveCreate => Inv'
<1>1. SUFFICES ASSUME Inv, SaveCreate PROVE Inv'
  OBVIOUS
<1>2. Name \in Numbers /\ Name' = Name /\ (sig_counter < NNames => Name = sig_counter)
  BY <1>1, NameIsCounter DEF Inv, TypeOK, SaveCreate, Name
<1>3. files[Name] = None /\ files' = [files EXCEPT ![Name] = << >>]
  BY <1>1 DEF Inv, SaveInProgress, SaveCreate
<1>4. TypeOK'
  BY <1>1, <1>2 DEF Inv, SaveCreate, TypeOK, time
<1>5. SaveInProgress'
  BY <1>1, <1>2 DEF Inv, SaveCreate, SaveInProgress, TypeOK
<1>6. NamesAscend'
  <2>1. SUFFICES ASSUME ~wrapped PROVE NamesAscend'
    BY <1>1 DEF NamesAscend, SaveCreate
  <2>2. sig_counter < NNames /\ Name = sig_counter
    BY <1>1, <1>2, <2>1 DEF Inv, NamesAscend, SaveCreate
  <2>3. \A k \in Numbers : files'[k] # None => k < sig_counter \/ k = sig_counter
    BY <1>1, <1>3, <2>1, <2>2 DEF Inv, TypeOK, NamesAscend, SaveCreate
  <2>4. ASSUME NEW j \in DOMAIN saved
        PROVE  \E k \in Numbers : k < sig_counter /\ files'[k] = <<{saved[j]}>>
    <3>1. PICK k \in Numbers : k < sig_counter /\ files[k] = <<{saved[j]}>>
      BY <1>1, <2>1, <2>4 DEF Inv, NamesAscend
    <3>2. k # sig_counter /\ files'[k] = files[k]
      BY <1>1, <1>3, <2>2, <3>1, PadAssumption DEF Inv, TypeOK, Numbers
    <3>3. QED
      BY <3>1, <3>2
  <2>5. pc' = "write" /\ sig_counter <= NNames
    BY <1>1, <2>2, PadAssumption DEF SaveCreate, Inv, TypeOK
  <2>6. QED
    BY <1>1, <2>2, <2>3, <2>4, <2>5 DEF NamesAscend, SaveCreate
<1>7. TimerShowsQuiet'
  BY <1>1 DEF SaveCreate, TimerShowsQuiet
<1>8. QED
  BY <1>4, <1>5, <1>6, <1>7 DEF Inv

LEMMA SaveWriteInv == Inv /\ SaveWrite => Inv'
<1>1. SUFFICES ASSUME Inv, SaveWrite PROVE Inv'
  OBVIOUS
<1>2. Name \in Numbers /\ Name' = Name /\ (sig_counter < NNames => Name = sig_counter)
  BY <1>1, NameIsCounter DEF Inv, TypeOK, SaveWrite, Name
<1>3. person \in Persons /\ files' = [files EXCEPT ![Name] = <<{person}>>]
  BY <1>1 DEF Inv, SaveInProgress, SaveWrite
<1>4. TypeOK'
  BY <1>1, <1>2, <1>3 DEF Inv, SaveWrite, TypeOK, Signature, time
<1>5. SaveInProgress'
  BY <1>1, <1>2, <1>3 DEF Inv, SaveWrite, SaveInProgress, TypeOK
<1>6. NamesAscend'
  <2>1. SUFFICES ASSUME ~wrapped PROVE NamesAscend'
    BY <1>1 DEF NamesAscend, SaveWrite
  <2>2. sig_counter < NNames /\ Name = sig_counter
    BY <1>1, <1>2, <2>1 DEF Inv, NamesAscend, SaveWrite
  <2>3. \A k \in Numbers : files'[k] # None => k < sig_counter \/ k = sig_counter
    BY <1>1, <1>3, <2>1, <2>2 DEF Inv, TypeOK, NamesAscend, SaveWrite
  <2>4. ASSUME NEW j \in DOMAIN saved
        PROVE  \E k \in Numbers : k < sig_counter /\ files'[k] = <<{saved[j]}>>
    <3>1. PICK k \in Numbers : k < sig_counter /\ files[k] = <<{saved[j]}>>
      BY <1>1, <2>1, <2>4 DEF Inv, NamesAscend
    <3>2. k # sig_counter /\ files'[k] = files[k]
      BY <1>1, <1>3, <2>2, <3>1, PadAssumption DEF Inv, TypeOK, Numbers
    <3>3. QED
      BY <3>1, <3>2
  <2>5. pc' = "done" /\ sig_counter <= NNames
    BY <1>1, <2>2, PadAssumption DEF SaveWrite, Inv, TypeOK
  <2>6. QED
    BY <1>1, <2>2, <2>3, <2>4, <2>5 DEF NamesAscend, SaveWrite
<1>7. TimerShowsQuiet'
  BY <1>1 DEF SaveWrite, TimerShowsQuiet
<1>8. QED
  BY <1>4, <1>5, <1>6, <1>7 DEF Inv

LEMMA FinishInv == Inv /\ Finish => Inv'
<1>1. SUFFICES ASSUME Inv, Finish PROVE Inv'
  OBVIOUS
<1>2. person \in Persons /\ person \in Nat /\ files[Name] = <<{person}>>
  BY <1>1 DEF Inv, TypeOK, SaveInProgress, Finish
<1>3. /\ DOMAIN saved' = (DOMAIN saved) \cup {Len(saved) + 1}
      /\ \A j \in DOMAIN saved : saved'[j] = saved[j]
      /\ saved'[Len(saved) + 1] = person
      /\ saved' \in Seq(Persons)
  BY <1>1, <1>2, AppendProperties DEF Inv, TypeOK, Finish
<1>4. TypeOK'
  <2>1. sig_counter' \in Nat /\ person' \in Nat
    BY <1>1 DEF Inv, Finish, TypeOK
  <2>2. QED
    BY <1>1, <1>3, <2>1 DEF Inv, Finish, TypeOK, time
<1>5. SaveInProgress' /\ TimerShowsQuiet'
  BY <1>1 DEF Finish, SaveInProgress, TimerShowsQuiet
<1>6. NamesAscend'
  <2>1. SUFFICES ASSUME ~wrapped PROVE NamesAscend'
    BY <1>1 DEF NamesAscend, Finish
  <2>2. Name = sig_counter /\ sig_counter < NNames /\ Name \in Numbers
    BY <1>1, <2>1, NameIsCounter DEF Inv, TypeOK, NamesAscend, Finish
  <2>3. \A k \in Numbers : files[k] # None => k < sig_counter + 1
    BY <1>1, <2>1, <2>2, PadAssumption DEF Inv, TypeOK, NamesAscend, Numbers
  <2>4. ASSUME NEW j \in DOMAIN saved'
        PROVE  \E k \in Numbers : k < sig_counter + 1 /\ files[k] = <<{saved'[j]}>>
    <3>1. CASE j = Len(saved) + 1
      BY <1>1, <1>2, <1>3, <2>2, <3>1 DEF Inv, TypeOK
    <3>2. CASE j \in DOMAIN saved
      <4>1. PICK k \in Numbers : k < sig_counter /\ files[k] = <<{saved[j]}>>
        BY <1>1, <2>1, <3>2 DEF Inv, NamesAscend
      <4>2. k < sig_counter + 1 /\ saved'[j] = saved[j]
        BY <1>1, <1>3, <3>2, <4>1, PadAssumption DEF Inv, TypeOK, Numbers
      <4>3. QED
        BY <4>1, <4>2
    <3>3. QED
      BY <1>3, <2>4, <3>1, <3>2
  <2>5. sig_counter' = sig_counter + 1 /\ files' = files /\ pc' = "sample"
        /\ sig_counter + 1 <= NNames
    BY <1>1, <2>2, PadAssumption DEF Finish, Inv, TypeOK
  <2>6. QED
    BY <2>3, <2>4, <2>5 DEF NamesAscend
<1>7. QED
  BY <1>4, <1>5, <1>6 DEF Inv

LEMMA RebootInv == Inv /\ Reboot => Inv'
<1>1. SUFFICES ASSUME Inv, Reboot PROVE Inv'
  OBVIOUS
<1>2. /\ sig_counter' \in 0 .. NNames
      /\ \A k \in Numbers : files[k] # None => k < sig_counter'
  BY <1>1, NextNumberIsAbove DEF Inv, TypeOK, Reboot
<1>3. 0 \in 0 .. TimerMod - 1 /\ NNames \in Nat
  BY PadAssumption
<1>4. TypeOK'
  <2>1. sig_counter' \in Nat /\ person' \in Nat
    BY <1>1, <1>2, <1>3 DEF Inv, Reboot, TypeOK
  <2>2. QED
    BY <1>1, <1>3, <2>1 DEF Inv, Reboot, TypeOK
<1>5. SaveInProgress' /\ TimerShowsQuiet'
  BY <1>1 DEF Reboot, SaveInProgress, TimerShowsQuiet
<1>6. NamesAscend'
  <2>1. SUFFICES ASSUME ~wrapped PROVE NamesAscend'
    BY <1>1 DEF NamesAscend, Reboot
  <2>2. ASSUME NEW j \in DOMAIN saved
        PROVE  \E k \in Numbers : k < sig_counter' /\ files[k] = <<{saved[j]}>>
    <3>1. PICK k \in Numbers : k < sig_counter /\ files[k] = <<{saved[j]}>>
      BY <1>1, <2>1, <2>2 DEF Inv, NamesAscend
    <3>2. saved[j] \in Persons
      BY <1>1, <2>2, ElementOfSeq DEF Inv, TypeOK
    <3>3. files[k] # None
      BY <3>1, <3>2, NoneAssumption DEF Persons
    <3>4. QED
      BY <1>2, <3>1, <3>3
  <2>3. pc' = "sample" /\ files' = files /\ saved' = saved
    BY <1>1 DEF Reboot
  <2>4. sig_counter' <= NNames
    BY <1>2, <1>3
  <2>5. QED
    BY <1>2, <2>2, <2>3, <2>4 DEF NamesAscend
<1>7. QED
  BY <1>4, <1>5, <1>6 DEF Inv

\* The invariant holds of every state, for all values of the constants.
THEOREM InvHolds == Spec => []Inv
<1>1. Inv /\ [Next]_vars => Inv'
  <2>1. SUFFICES ASSUME Inv, [Next]_vars PROVE Inv'
    OBVIOUS
  <2>2. CASE Next
    BY <2>1, <2>2, TouchInv, NoTouchInv, CheckInv, SaveDeleteInv, SaveCreateInv,
       SaveWriteInv, FinishInv, RebootInv DEF Next
  <2>3. CASE UNCHANGED vars
    BY <2>1, <2>3 DEF vars, loop, time, Inv, TypeOK, SaveInProgress, NamesAscend,
       TimerShowsQuiet, Name
  <2>4. QED
    BY <2>1, <2>2, <2>3
<1>2. QED
  BY <1>1, InitInv, PTL DEF Spec

-----------------------------------------------------------------------------
(* What the runs check. *)

\* sig_init's scan and the counter: a signature told "Saved!" stays on the
\* card until a name is used for the second time, whatever power failures come.
THEOREM SavedIsKeptHolds == Spec => []SavedIsKept
<1>1. Inv => SavedIsKept
  BY DEF Inv, NamesAscend, SavedIsKept
<1>2. QED
  BY <1>1, InvHolds, PTL

\* sig_clear after every save, and a buffer that a reset clears: the strokes
\* in a file are one person's.
THEOREM OnePersonPerFileHolds == Spec => []OnePersonPerFile
<1>1. Inv => OnePersonPerFile
  BY DEF Inv, TypeOK, Signature, OnePersonPerFile
<1>2. QED
  BY <1>1, InvHolds, PTL

\* The loop's test of the unsigned difference: a signature waits at most one
\* turn of the loop longer than the timeout.
THEOREM NotForgottenHolds == Spec => []NotForgotten
<1>1. Inv => NotForgotten
  BY DEF Inv, TimerShowsQuiet, NotForgotten
<1>2. QED
  BY <1>1, InvHolds, PTL

\* The same test: no save starts by itself before the timeout.
THEOREM NotCutShortHolds == Spec => NotCutShort
<1>1. ASSUME Inv, Next, pc = "check", pc' = "delete"
      PROVE  button \/ quiet > Timeout
  <2>1. Check
    BY <1>1 DEF Next, Touch, NoTouch, Check, SaveDelete, SaveCreate, SaveWrite, Finish, Reboot
  <2>2. elapsed = quiet
    BY <1>1, ElapsedIsRight
  <2>3. button \/ timed_out
    BY <1>1, <2>1 DEF Check
  <2>4. QED
    BY <2>2, <2>3 DEF timed_out
<1>2. Inv /\ [Next]_vars => [pc = "check" /\ pc' = "delete" => button \/ quiet > Timeout]_vars
  BY <1>1
<1>3. QED
  BY <1>2, InvHolds, PTL DEF Spec, NotCutShort

\* The pad's three driver calls are steps of a FileStore: it creates no name
\* that exists and writes no file twice, and power failures change nothing.
THEOREM UsesStoreHolds == Spec => UsesStore
<1>1. Init => Store!Init
  BY DEF Init, Store!Init
<1>2. Inv /\ [Next]_vars => [Store!Next]_files
  <2>1. SUFFICES ASSUME Inv, Next PROVE [Store!Next]_files
    BY DEF vars
  <2>2. Name \in Numbers
    BY <2>1, NameIsCounter DEF Inv, TypeOK
  <2>3. CASE SaveDelete
    <3>1. CASE files[Name] = None
      BY <2>1, <2>3, <3>1 DEF SaveDelete, Inv, TypeOK
    <3>2. CASE files[Name] # None
      BY <2>2, <2>3, <3>2 DEF SaveDelete, Store!Next, Store!Delete
    <3>3. QED
      BY <3>1, <3>2
  <2>4. CASE SaveCreate
    BY <2>1, <2>2, <2>4 DEF SaveCreate, Inv, SaveInProgress, Store!Next, Store!Create
  <2>5. CASE SaveWrite
    <3>1. person \in Persons /\ files[Name] = << >> /\ files' = [files EXCEPT ![Name] = <<{person}>>]
      BY <2>1, <2>5 DEF SaveWrite, Inv, SaveInProgress
    <3>2. files'[Name] = <<{person}>> /\ <<{person}>> \in Seq(SUBSET Persons) \ {<< >>}
      BY <2>1, <2>2, <3>1 DEF Inv, TypeOK
    <3>3. QED
      BY <2>2, <3>1, <3>2 DEF Store!Next, Store!Write
  <2>6. CASE UNCHANGED files
    BY <2>6
  <2>7. QED
    BY <2>1, <2>3, <2>4, <2>5, <2>6 DEF Next, Touch, NoTouch, Check, Finish, Reboot
<1>3. QED
  BY <1>1, <1>2, InvHolds, PTL DEF Spec, UsesStore, Store!Spec
=============================================================================
