---------------------------- MODULE PurifyProofs ----------------------------
(***************************************************************************)
(* For every layout of the headers and red zones, every heap size and any  *)
(* number of stray bytes, and accesses as wide as a red zone and one byte: *)
(* a traced program's stray stores stay in the red zones after live data,  *)
(* an untraced one's are all found, and a program that does nothing wrong  *)
(* is never stopped.                                                       *)
(***************************************************************************)
EXTENDS Purify, SequenceTheorems, FiniteSetTheorems, TLAPS

Block == [start : Nat, nbytes_alloc : Nat \ {0}, state : {"ALLOCED", "FREED"}]
Freed     == BlockIds \ Live
FreedData == UNION {Data(b) : b \in Freed}

\* The end of a block: of its second red zone.
End(b) == blocks[b].start + sizeof_hdr + blocks[b].nbytes_alloc + RedZone

TypeOK ==
  /\ brk \in Nat /\ blocks \in Seq(Block)
  /\ alloc_list \in Seq(BlockIds) /\ free_list \in Seq(BlockIds)
  /\ tracing \in BOOLEAN /\ legal \in BOOLEAN
  /\ trap \in BOOLEAN /\ watch_addr \in Arena \cup {NoAddr}
  /\ instr \in Stores \cup Loads \cup {NoInstr}
  /\ pc \in {"run", "access", "watchpoint", "panic", "reboot"}

\* kmalloc hands the blocks out one after the other.
HeapOK ==
  /\ \A b \in BlockIds : End(b) <= brk
  /\ \A b, c \in BlockIds : b < c => End(b) <= blocks[c].start

\* Every block is on the list its state says, once on alloc_list.
ListsOK ==
  /\ \A b \in BlockIds : b \in Live <=> \E k \in DOMAIN alloc_list : alloc_list[k] = b
  /\ \A j, k \in DOMAIN alloc_list : alloc_list[j] = alloc_list[k] => j = k
  /\ \A b \in BlockIds : b \in Freed <=> \E k \in DOMAIN free_list : free_list[k] = b

\* The totals, which say whether a list is empty.
TotalsOK ==
  /\ total_bytes_allocated = Cardinality(LiveData)
  /\ total_bytes_freed = Cardinality(FreedData)

\* wild holds exactly the bytes that are not what the allocator left there.
BytesOK ==
  /\ wild \subseteq 0 .. brk - 1
  /\ wild \cap LiveData = {} /\ wild \cap mem = {}
  /\ \A b \in BlockIds : Zones(b) \subseteq mem \cup wild
  /\ \A b \in Freed : Data(b) \subseteq mem \cup wild

\* Trap and watchpoint take turns around an access of a traced program.
TrapOK ==
  /\ tracing =>
       /\ pc = "run" => trap /\ watch_addr = NoAddr
       /\ pc = "access" => \/ trap /\ watch_addr = NoAddr
                           \/ ~trap /\ watch_addr = instr.addr /\ instr.addr \in LiveData
       /\ pc = "watchpoint" => ~trap /\ watch_addr = instr.addr
  /\ ~tracing => ~trap /\ watch_addr = NoAddr /\ pc # "watchpoint"
  /\ pc \in {"access", "watchpoint"} =>
       instr \in Stores \cup Loads /\ instr.addr + instr.nbytes <= brk

LegalOK ==
  legal => /\ wild = {} /\ pc \notin {"panic", "reboot"}
           /\ pc = "access" => \E b \in Live : Touched(instr) \subseteq Data(b)

Inv == /\ TypeOK /\ HeapOK /\ ListsOK /\ TotalsOK /\ BytesOK /\ TrapOK
       /\ LegalOK /\ WildIsContained
-----------------------------------------------------------------------------
(* Operators. *)

\* What is left of a sequence without its i-th element.
LEMMA RemoveAtProperties ==
  ASSUME NEW T, NEW s \in Seq(T), NEW i \in 1 .. Len(s)
  PROVE  /\ RemoveAt(s, i) \in Seq(T) /\ Len(RemoveAt(s, i)) = Len(s) - 1
         /\ \A j \in 1 .. Len(s) - 1 :
              RemoveAt(s, i)[j] = IF j < i THEN s[j] ELSE s[j + 1]
<1> DEFINE l == SubSeq(s, 1, i - 1)
           r == SubSeq(s, i + 1, Len(s))
<1>1. Len(s) \in Nat /\ i \in Nat /\ i >= 1 /\ i <= Len(s) /\ \A j \in 1 .. Len(s) : s[j] \in T
  OBVIOUS
<1>2. /\ l \in Seq(T) /\ Len(l) = i - 1
      /\ \A j \in 1 .. i - 1 : l[j] = s[j]
  <2>1. /\ SubSeq(s, 1, i - 1) \in Seq(T)
        /\ Len(SubSeq(s, 1, i - 1)) = IF 1 <= i - 1 THEN (i - 1) - 1 + 1 ELSE 0
        /\ \A j \in 1 .. (i - 1) - 1 + 1 : SubSeq(s, 1, i - 1)[j] = s[1 + j - 1]
    <3>1. 1 \in Int /\ i - 1 \in Int /\ \A j \in 1 .. i - 1 : s[j] \in T
      BY <1>1
    <3>2. QED
      BY <3>1, SubSeqProperties
  <2>2. QED
    BY <1>1, <2>1
<1>3. /\ r \in Seq(T) /\ Len(r) = Len(s) - i
      /\ \A j \in 1 .. Len(s) - i : r[j] = s[i + j]
  <2>1. /\ SubSeq(s, i + 1, Len(s)) \in Seq(T)
        /\ Len(SubSeq(s, i + 1, Len(s))) = IF i + 1 <= Len(s) THEN Len(s) - (i + 1) + 1 ELSE 0
        /\ \A j \in 1 .. Len(s) - (i + 1) + 1 : SubSeq(s, i + 1, Len(s))[j] = s[(i + 1) + j - 1]
    <3>1. i + 1 \in Int /\ Len(s) \in Int /\ \A j \in i + 1 .. Len(s) : s[j] \in T
      BY <1>1
    <3>2. QED
      BY <3>1, SubSeqProperties
  <2>2. QED
    BY <1>1, <2>1
<1> HIDE DEF l, r
<1>4. /\ l \o r \in Seq(T) /\ Len(l \o r) = Len(l) + Len(r)
      /\ \A j \in 1 .. Len(l) + Len(r) :
           (l \o r)[j] = IF j <= Len(l) THEN l[j] ELSE r[j - Len(l)]
  BY <1>2, <1>3, ConcatProperties
<1>5. RemoveAt(s, i) = l \o r
  BY DEF RemoveAt, l, r
<1>6. Len(l \o r) = Len(s) - 1
  BY <1>1, <1>2, <1>3, <1>4
<1>7. ASSUME NEW j \in 1 .. Len(s) - 1
      PROVE  (l \o r)[j] = IF j < i THEN s[j] ELSE s[j + 1]
  <2>1. CASE j < i
    BY <1>1, <1>2, <1>3, <1>4, <2>1
  <2>2. CASE j >= i
    <3>1. j - (i - 1) \in 1 .. Len(s) - i /\ i + (j - (i - 1)) = j + 1
      BY <1>1, <2>2
    <3>2. (l \o r)[j] = r[j - (i - 1)]
      BY <1>1, <1>2, <1>3, <1>4, <2>2
    <3>3. QED
      BY <1>3, <2>2, <3>1, <3>2
  <2>3. j < i \/ j >= i
    BY <1>1
  <2>4. QED
    BY <2>1, <2>2, <2>3
<1>8. QED
  BY <1>4, <1>5, <1>6, <1>7

LEMMA DivBound ==
  ASSUME NEW m \in Nat, NEW w \in Nat \ {0}
  PROVE  m \div w \in Nat /\ (m \div w) * w > m - w
OBVIOUS

\* Rounding up to whole words.
LEMMA AlignedUp == \A n \in Nat : Aligned(n) \in Nat /\ Aligned(n) >= n
<1>1. SUFFICES ASSUME NEW n \in Nat PROVE Aligned(n) \in Nat /\ Aligned(n) >= n
  OBVIOUS
<1>2. Word \in Nat /\ Word >= 1
  BY LayoutAssumption
<1> DEFINE m == n + Word - 1
<1>3. m \in Nat
  BY <1>2
<1>4. m \div Word \in Nat /\ (m \div Word) * Word > m - Word
  BY <1>2, <1>3, DivBound
<1>5. QED
  BY <1>2, <1>4 DEF Aligned

\* The only element of a set of numbers is its least.
LEMMA MinOfOne == ASSUME NEW k \in Nat PROVE Min({k}) = k
BY DEF Min

-----------------------------------------------------------------------------
(* Blocks in memory. *)

LEMMA BlockFacts ==
  ASSUME TypeOK, NEW b \in BlockIds
  PROVE  /\ b \in Nat \ {0} /\ b <= Len(blocks) /\ Len(blocks) \in Nat
         /\ blocks[b] \in Block /\ blocks[b].start \in Nat
         /\ blocks[b].nbytes_alloc \in Nat \ {0}
         /\ sizeof_hdr \in Nat /\ sizeof_hdr = Header + RedZone + Padding
         /\ b \in Live <=> blocks[b].state = "ALLOCED"
         /\ b \in Freed <=> blocks[b].state = "FREED"
<1>1. blocks \in Seq(Block) /\ b \in 1 .. Len(blocks) /\ Len(blocks) \in Nat
  BY DEF TypeOK, BlockIds
<1>2. blocks[b] \in Block
  BY <1>1
<1>3. /\ blocks[b].start \in Nat /\ blocks[b].nbytes_alloc \in Nat \ {0}
      /\ blocks[b].state \in {"ALLOCED", "FREED"}
  BY <1>2 DEF Block
<1>4. sizeof_hdr \in Nat /\ sizeof_hdr = Header + RedZone + Padding
  BY LayoutAssumption DEF sizeof_hdr
<1>5. QED
  BY <1>1, <1>2, <1>3, <1>4 DEF Live, Freed

\* A block of n bytes at s: its data and its red zones lie inside it and do
\* not meet, and the second red zone takes in what the widest access can overrun.
LEMMA Layout ==
  ASSUME NEW s \in Nat, NEW n \in Nat \ {0}
  PROVE  LET first == s + sizeof_hdr
             last  == s + sizeof_hdr + n - 1
             end   == s + sizeof_hdr + n + RedZone
         IN  /\ first \in Nat /\ last \in Nat /\ end \in Nat /\ first <= last
             /\ first .. last \subseteq s .. end - 1
             /\ RedZones(s, n) \subseteq s .. end - 1
             /\ (first .. last) \cap RedZones(s, n) = {}
             /\ (last + 1) .. (last + 1 + Widest - 2) \subseteq RedZones(s, n)
<1> DEFINE h == Header + RedZone + Padding
<1>1. /\ Header \in Nat /\ RedZone \in Nat /\ Padding \in Nat /\ Widest \in Nat
      /\ Widest >= 1 /\ RedZone >= 1 /\ Widest - 1 <= RedZone /\ n >= 1
      /\ h \in Nat /\ sizeof_hdr = h
  BY LayoutAssumption DEF sizeof_hdr
<1>2. /\ RedZones(s, n) = Zone(s + Header) \cup Zone(s + h + n)
      /\ Zone(s + Header) = (s + Header) .. (s + Header + RedZone - 1)
      /\ Zone(s + h + n) = (s + h + n) .. (s + h + n + RedZone - 1)
  BY <1>1 DEF RedZones, Zone
<1> DEFINE end == s + h + n + RedZone
<1>3. s + h \in Nat /\ s + h + n - 1 \in Nat /\ end \in Nat /\ s + h <= s + h + n - 1
  BY <1>1
<1>4. (s + h) .. (s + h + n - 1) \subseteq s .. end - 1
  BY <1>1, <1>3
<1>5. RedZones(s, n) \subseteq s .. end - 1
  <2>1. s + Header + RedZone - 1 <= end - 1
    BY <1>1
  <2>2. Zone(s + Header) \subseteq s .. end - 1
    BY <1>1, <1>2, <1>3, <2>1
  <2>3. Zone(s + h + n) \subseteq s .. end - 1
    BY <1>1, <1>2, <1>3
  <2>4. QED
    BY <1>2, <2>2, <2>3
<1>6. ((s + h) .. (s + h + n - 1)) \cap RedZones(s, n) = {}
  BY <1>1, <1>2
<1>7. (s + h + n) .. (s + h + n + Widest - 2) \subseteq RedZones(s, n)
  <2>1. (s + h + n) .. (s + h + n + Widest - 2) \subseteq Zone(s + h + n)
    BY <1>1, <1>2
  <2>2. QED
    BY <1>2, <2>1
<1>8. (s + h + n - 1) + 1 = s + h + n /\ (s + h + n - 1) + 1 + Widest - 2 = s + h + n + Widest - 2
  BY <1>1
<1>9. QED
  BY <1>1, <1>3, <1>4, <1>5, <1>6, <1>7, <1>8

LEMMA SpanFacts ==
  ASSUME TypeOK, NEW b \in BlockIds
  PROVE  /\ Data(b) \subseteq blocks[b].start .. End(b) - 1
         /\ Zones(b) \subseteq blocks[b].start .. End(b) - 1
         /\ Data(b) \cap Zones(b) = {}
         /\ ck_data_start(b) \in Data(b) /\ ck_data_start(b) \in Nat
         /\ ck_data_end(b) \in Nat /\ ck_data_end(b) > ck_data_start(b)
         /\ ck_data_end(b) .. ck_data_end(b) + Widest - 2 \subseteq Zones(b)
         /\ blocks[b].start \in Nat /\ End(b) \in Nat
<1> DEFINE s == blocks[b].start
           n == blocks[b].nbytes_alloc
<1>1. s \in Nat /\ n \in Nat \ {0} /\ sizeof_hdr \in Nat
  BY BlockFacts
<1>2. /\ ck_data_start(b) = s + sizeof_hdr /\ ck_data_end(b) = s + sizeof_hdr + n
      /\ Data(b) = (s + sizeof_hdr) .. (s + sizeof_hdr + n - 1)
      /\ Zones(b) = RedZones(s, n) /\ End(b) = s + sizeof_hdr + n + RedZone
  <2>1. ck_data_start(b) = s + sizeof_hdr /\ ck_data_end(b) = s + sizeof_hdr + n
    BY DEF ck_data_start, ck_data_end
  <2>2. Zones(b) = RedZones(s, n) /\ End(b) = s + sizeof_hdr + n + RedZone
    BY DEF Zones, End
  <2>3. Data(b) = ck_data_start(b) .. ck_data_end(b) - 1
    BY DEF Data
  <2>4. Data(b) = (s + sizeof_hdr) .. (s + sizeof_hdr + n - 1)
    BY <1>1, <2>1, <2>3
  <2>5. QED
    BY <2>1, <2>2, <2>4
<1> HIDE DEF s, n
<1>3. /\ s + sizeof_hdr \in Nat /\ s + sizeof_hdr + n - 1 \in Nat
      /\ s + sizeof_hdr + n + RedZone \in Nat
      /\ s + sizeof_hdr <= s + sizeof_hdr + n - 1
      /\ (s + sizeof_hdr) .. (s + sizeof_hdr + n - 1) \subseteq s .. (s + sizeof_hdr + n + RedZone) - 1
      /\ RedZones(s, n) \subseteq s .. (s + sizeof_hdr + n + RedZone) - 1
      /\ ((s + sizeof_hdr) .. (s + sizeof_hdr + n - 1)) \cap RedZones(s, n) = {}
      /\ ((s + sizeof_hdr + n - 1) + 1) .. ((s + sizeof_hdr + n - 1) + 1 + Widest - 2) \subseteq RedZones(s, n)
  BY <1>1, Layout
<1>4. (s + sizeof_hdr + n - 1) + 1 = ck_data_end(b)
  BY <1>1, <1>2
<1>5. ck_data_start(b) \in Data(b) /\ ck_data_end(b) > ck_data_start(b) /\ ck_data_end(b) \in Nat
  BY <1>1, <1>2, <1>3
<1>6. ck_data_end(b) .. ck_data_end(b) + Widest - 2 \subseteq Zones(b)
  BY <1>2, <1>3, <1>4
<1>7. QED
  BY <1>1, <1>2, <1>3, <1>5, <1>6 DEF s

LEMMA Apart ==
  ASSUME TypeOK, HeapOK, NEW b \in BlockIds, NEW c \in BlockIds, b # c
  PROVE  (Data(b) \cup Zones(b)) \cap (Data(c) \cup Zones(c)) = {}
<1>1. b < c \/ c < b
  BY BlockFacts
<1>2. End(b) <= blocks[c].start \/ End(c) <= blocks[b].start
  BY <1>1 DEF HeapOK
<1>3. QED
  BY <1>2, SpanFacts

\* Everything is below brk.
LEMMA Below ==
  ASSUME TypeOK, HeapOK, NEW b \in BlockIds
  PROVE  Data(b) \subseteq 0 .. brk - 1 /\ Zones(b) \subseteq 0 .. brk - 1
<1>1. /\ Data(b) \subseteq blocks[b].start .. End(b) - 1
      /\ Zones(b) \subseteq blocks[b].start .. End(b) - 1
      /\ blocks[b].start \in Nat /\ End(b) \in Nat
  BY SpanFacts
<1>2. End(b) <= brk /\ brk \in Nat
  BY DEF HeapOK, TypeOK
<1>3. blocks[b].start .. End(b) - 1 \subseteq 0 .. brk - 1
  BY <1>1, <1>2
<1>4. QED
  BY <1>1, <1>3

\* What the allocator finds for an address.
LEMMA Lookup ==
  ASSUME TypeOK, HeapOK, ListsOK, NEW p
  PROVE  /\ ~Panics(p)
         /\ ck_ptr_is_alloced(p) = NoBlock => p \notin LiveData
         /\ ck_ptr_is_alloced(p) # NoBlock => /\ ck_ptr_is_alloced(p) \in Live
                                              /\ p \in Data(ck_ptr_is_alloced(p))
         /\ \A b \in Live : p \in Data(b) => ck_ptr_is_alloced(p) = b
<1>1. \A k \in DOMAIN alloc_list : alloc_list[k] \in Live /\ alloc_list[k] \in BlockIds /\ k \in Nat
  BY DEF ListsOK, TypeOK
<1>2. NoBlock \notin BlockIds
  BY DEF NoBlock, BlockIds, TypeOK
<1>3. Stops(p) = {k \in DOMAIN alloc_list : p \in Data(alloc_list[k])}
  BY <1>1, BlockFacts DEF Stops
<1>4. CASE Stops(p) = {}
  <2>1. ck_ptr_is_alloced(p) = NoBlock
    BY <1>4 DEF ck_ptr_is_alloced
  <2>2. \A b \in Live : p \notin Data(b)
    BY <1>3, <1>4 DEF ListsOK, Live
  <2>3. QED
    BY <1>2, <2>1, <2>2 DEF Panics, LiveData
<1>5. CASE Stops(p) # {}
  <2>1. PICK k \in DOMAIN alloc_list : p \in Data(alloc_list[k])
    BY <1>3, <1>5
  <2>2. \A j \in Stops(p) : j = k
    BY <1>1, <1>3, <2>1, Apart DEF ListsOK
  <2>3. Stops(p) = {k}
    BY <1>3, <2>1, <2>2
  <2>4. ck_ptr_is_alloced(p) = alloc_list[k]
    BY <1>1, <1>5, <2>1, <2>3, MinOfOne DEF ck_ptr_is_alloced
  <2>5. \A b \in Live : p \in Data(b) => b = alloc_list[k]
    BY <1>1, <2>1, Apart DEF Live
  <2>6. QED
    BY <1>1, <1>2, <2>1, <2>4, <2>5 DEF Panics
<1>6. QED
  BY <1>4, <1>5

-----------------------------------------------------------------------------
(* Steps that leave the blocks alone. *)

LEMMA Still ==
  ASSUME UNCHANGED lists
  PROVE  /\ UNCHANGED <<BlockIds, Live, Freed, LiveData, FreedData>>
         /\ \A b : UNCHANGED <<Data(b), Zones(b), ck_data_start(b), ck_data_end(b), End(b)>>
         /\ HeapOK => HeapOK'
         /\ ListsOK => ListsOK'
         /\ TotalsOK => TotalsOK'
<1> USE DEF lists
<1>1. UNCHANGED <<BlockIds, Live, Freed>>
  BY DEF BlockIds, Live, Freed
<1>2. \A b : UNCHANGED <<Data(b), Zones(b), ck_data_start(b), ck_data_end(b), End(b)>>
  BY DEF Data, Zones, ck_data_start, ck_data_end, End
<1>3. UNCHANGED <<LiveData, FreedData>>
  BY <1>1, <1>2 DEF LiveData, FreedData
<1>4. HeapOK => HeapOK'
  BY <1>1, <1>2 DEF HeapOK
<1>5. ListsOK => ListsOK'
  BY <1>1 DEF ListsOK
<1>6. TotalsOK => TotalsOK'
  BY <1>3 DEF TotalsOK
<1>7. QED
  BY <1>1, <1>2, <1>3, <1>4, <1>5, <1>6

\* Nothing but the flow of control changes.
LEMMA StillBytes ==
  ASSUME Inv, UNCHANGED <<mem, lists, wild, tracing>>
  PROVE  BytesOK' /\ WildIsContained'
<1>1. BytesOK'
  BY Still DEF Inv, BytesOK, lists
<1>2. WildIsContained'
  BY Still DEF Inv, WildIsContained
<1>3. QED
  BY <1>1, <1>2

\* The program is stopped.
LEMMA StopInv ==
  ASSUME Inv, NEW how \in {"panic", "reboot"}, Stop(how),
         tracing' = tracing, legal' = FALSE
  PROVE  Inv'
<1> USE DEF Stop, tracer
<1>1. HeapOK' /\ ListsOK' /\ TotalsOK'
  BY Still DEF Inv
<1>2. TypeOK'
  BY Still DEF Inv, TypeOK, lists
<1>3. BytesOK' /\ WildIsContained'
  BY StillBytes
<1>4. TrapOK'
  BY DEF Inv, TrapOK
<1>5. LegalOK'
  BY DEF LegalOK
<1>6. QED
  BY <1>1, <1>2, <1>3, <1>4, <1>5 DEF Inv

LEMMA IssueInv ==
  ASSUME Inv, NEW i \in Stores \cup Loads, Issue(i)
  PROVE  Inv'
<1>1. /\ pc = "run" /\ pc' = "access" /\ instr' = i /\ i.addr + i.nbytes <= brk
      /\ legal' = (legal /\ \E b \in Live : Touched(i) \subseteq Data(b))
      /\ UNCHANGED <<tracing, mem, lists, tracer, wild>>
  BY DEF Issue, Blame
<1>2. HeapOK' /\ ListsOK' /\ TotalsOK'
  BY <1>1, Still DEF Inv
<1>3. BytesOK' /\ WildIsContained'
  BY <1>1, StillBytes
<1>4. TypeOK'
  <2>1. legal' \in BOOLEAN
    BY <1>1
  <2>2. QED
    BY <1>1, <2>1, Still DEF Inv, TypeOK, lists, tracer
<1>5. TrapOK'
  BY <1>1 DEF Inv, TrapOK, tracer, lists
<1>6. LegalOK'
  <2>1. Touched(i)' = Touched(i) /\ Live' = Live /\ \A b : Data(b)' = Data(b)
    BY <1>1, Still DEF Touched
  <2>2. ASSUME legal' PROVE \E b \in Live' : Touched(instr') \subseteq Data(b)'
    BY <1>1, <2>1, <2>2
  <2>3. QED
    BY <1>1, <2>2 DEF Inv, LegalOK, Touched
<1>7. QED
  BY <1>2, <1>3, <1>4, <1>5, <1>6 DEF Inv

\* An access touches a byte at least and is no wider than the widest.
LEMMA SizeFacts == \A n \in Sizes : n \in Nat \ {0} /\ n <= Widest
BY LayoutAssumption DEF Sizes

LEMMA DomainFaultInv ==
  ASSUME Inv, DomainFault
  PROVE  Inv'
<1>1. /\ pc = "access" /\ trap /\ ~Panics(instr.addr) /\ UNCHANGED <<tracing, legal>>
      /\ instr \in Stores \cup Loads /\ instr.addr \in Touched(instr)
      /\ instr.addr \in Arena
  <2>1. pc = "access" /\ trap /\ UNCHANGED <<tracing, legal>>
    BY DEF DomainFault
  <2>2. instr \in Stores \cup Loads
    BY <2>1 DEF Inv, TrapOK
  <2>3. instr.addr \in Arena /\ instr.nbytes \in Sizes
    BY <2>2 DEF Stores, Loads
  <2>4. instr.addr \in Touched(instr)
    BY <2>3, SizeFacts DEF Touched, Arena
  <2>5. ~Panics(instr.addr)
    BY Lookup DEF Inv
  <2>6. QED
    BY <2>1, <2>2, <2>3, <2>4, <2>5
<1>2. CASE ck_ptr_is_alloced(instr.addr) = NoBlock
  <2>1. Stop("reboot")
    BY <1>1, <1>2 DEF DomainFault
  <2>2. instr.addr \notin LiveData
    BY <1>2, Lookup DEF Inv
  <2>3. legal' = FALSE
    BY <1>1, <2>2 DEF Inv, LegalOK, TypeOK, LiveData
  <2>4. QED
    BY <1>1, <2>1, <2>3, StopInv
<1>3. CASE ck_ptr_is_alloced(instr.addr) # NoBlock
  <2>1. /\ trap' = FALSE /\ watch_addr' = instr.addr
        /\ UNCHANGED <<mem, lists, wild, instr, pc>>
    BY <1>1, <1>3 DEF DomainFault
  <2>2. instr.addr \in LiveData
    BY <1>3, Lookup DEF Inv, LiveData
  <2>3. HeapOK' /\ ListsOK' /\ TotalsOK'
    BY <2>1, Still DEF Inv
  <2>4. BytesOK' /\ WildIsContained'
    BY <1>1, <2>1, StillBytes
  <2>5. TypeOK'
    BY <1>1, <2>1, Still DEF Inv, TypeOK, lists
  <2>6. TrapOK'
    BY <1>1, <2>1, <2>2, Still DEF Inv, TrapOK, lists
  <2>7. LegalOK'
    BY <1>1, <2>1, Still DEF Inv, LegalOK, Touched
  <2>8. QED
    BY <2>3, <2>4, <2>5, <2>6, <2>7 DEF Inv
<1>4. QED
  BY <1>2, <1>3

LEMMA WatchpointInv ==
  ASSUME Inv, Watchpoint
  PROVE  Inv'
<1>1. /\ pc = "watchpoint" /\ tracing /\ ~trap /\ watch_addr = instr.addr
  BY DEF Inv, TrapOK, Watchpoint
<1>2. /\ watch_addr' = NoAddr /\ trap' = TRUE /\ pc' = "run" /\ instr' = NoInstr
      /\ UNCHANGED <<mem, lists, wild, tracing, legal>>
  BY <1>1 DEF Watchpoint
<1>3. HeapOK' /\ ListsOK' /\ TotalsOK'
  BY <1>2, Still DEF Inv
<1>4. BytesOK' /\ WildIsContained'
  BY <1>2, StillBytes
<1>5. TypeOK'
  BY <1>2, Still DEF Inv, TypeOK, lists
<1>6. TrapOK' /\ LegalOK'
  BY <1>1, <1>2 DEF Inv, TrapOK, LegalOK
<1>7. QED
  BY <1>3, <1>4, <1>5, <1>6 DEF Inv

LEMMA AccessInv ==
  ASSUME Inv, Access
  PROVE  Inv'
<1> DEFINE hit == /\ watch_addr # NoAddr
                  /\ \E a \in Touched(instr) : a \div Word = watch_addr \div Word
           stray == Touched(instr) \ LiveData
<1>1. /\ pc = "access" /\ ~trap /\ UNCHANGED <<lists, tracing, tracer, legal>>
      /\ pc' = IF hit THEN "watchpoint" ELSE "run"
      /\ instr' = IF pc' = "run" THEN NoInstr ELSE instr
  BY DEF Access
<1>2. \/ UNCHANGED <<mem, wild>>
      \/ mem' = mem \cup Touched(instr) /\ wild' = wild \ stray
      \/ mem' = mem \ Touched(instr) /\ wild' = wild \cup stray
  BY DEF Access
<1>3. /\ instr \in Stores \cup Loads /\ instr.addr \in Nat
      /\ instr.nbytes \in Nat \ {0} /\ instr.nbytes <= Widest /\ instr.addr + instr.nbytes <= brk
      /\ brk \in Nat
  <2>1. instr \in Stores \cup Loads /\ instr.addr + instr.nbytes <= brk
    BY <1>1 DEF Inv, TrapOK
  <2>2. instr.addr \in Arena /\ instr.nbytes \in Sizes
    BY <2>1 DEF Stores, Loads
  <2>3. instr.addr \in Nat
    BY <2>2 DEF Arena
  <2>4. instr.nbytes \in Nat \ {0} /\ instr.nbytes <= Widest
    BY <2>2, SizeFacts
  <2>5. brk \in Nat
    BY DEF Inv, TypeOK
  <2>6. QED
    BY <2>1, <2>3, <2>4, <2>5
<1>4. HeapOK' /\ ListsOK' /\ TotalsOK'
  BY <1>1, Still DEF Inv
<1>5. TypeOK'
  BY <1>1, <1>3, Still DEF Inv, TypeOK, lists, tracer
<1>6. BytesOK'
  <2>1. Touched(instr) \subseteq 0 .. brk - 1
    BY <1>3 DEF Touched
  <2>2. /\ wild \subseteq 0 .. brk - 1 /\ wild \cap LiveData = {} /\ wild \cap mem = {}
        /\ \A b \in BlockIds : Zones(b) \subseteq mem \cup wild
        /\ \A b \in Freed : Data(b) \subseteq mem \cup wild
    BY DEF Inv, BytesOK
  <2>3. \A b \in BlockIds : Zones(b) \cap LiveData = {}
    <3>1. ASSUME NEW b \in BlockIds, NEW c \in Live PROVE Zones(b) \cap Data(c) = {}
      BY SpanFacts, Apart DEF Inv, Live
    <3>2. QED
      BY <3>1 DEF LiveData
  <2>4. \A b \in Freed : Data(b) \cap LiveData = {}
    <3>1. ASSUME NEW b \in Freed, NEW c \in Live PROVE Data(b) \cap Data(c) = {}
      BY Apart DEF Inv, Live, Freed
    <3>2. QED
      BY <3>1 DEF LiveData
  <2>5. /\ wild' \subseteq 0 .. brk - 1 /\ wild' \cap LiveData = {} /\ wild' \cap mem' = {}
    BY <1>2, <2>1, <2>2
  <2>6. /\ \A b \in BlockIds : Zones(b) \subseteq mem' \cup wild'
        /\ \A b \in Freed : Data(b) \subseteq mem' \cup wild'
    BY <1>2, <2>2, <2>3, <2>4
  <2>7. QED
    BY <1>1, <2>5, <2>6, Still DEF BytesOK, lists
<1>7. TrapOK'
  <2>1. CASE tracing
    <3>1. watch_addr = instr.addr /\ watch_addr # NoAddr
      BY <1>1, <1>3, <2>1 DEF Inv, TrapOK, NoAddr
    <3>2. pc' = "watchpoint" /\ instr' = instr
      <4>1. instr.addr \in Touched(instr)
        BY <1>3 DEF Touched
      <4>2. hit
        BY <3>1, <4>1
      <4>3. QED
        BY <1>1, <4>2
    <3>3. QED
      BY <1>1, <1>3, <2>1, <3>1, <3>2 DEF TrapOK, tracer, lists
  <2>2. CASE ~tracing
    <3>1. pc' = "run"
      BY <1>1, <2>2 DEF Inv, TrapOK
    <3>2. QED
      BY <1>1, <2>2, <3>1 DEF Inv, TrapOK, tracer
  <2>3. QED
    BY <2>1, <2>2
<1>8. LegalOK'
  <2>1. SUFFICES ASSUME legal PROVE wild' = {}
    BY <1>1 DEF LegalOK
  <2>2. Touched(instr) \subseteq LiveData
    BY <1>1, <2>1 DEF Inv, LegalOK, LiveData
  <2>3. wild = {}
    BY <2>1 DEF Inv, LegalOK
  <2>4. QED
    BY <1>2, <2>2, <2>3
<1>9. WildIsContained'
  <2>1. SUFFICES ASSUME tracing, NEW a \in wild'
                 PROVE  \E b \in Live : a \in ck_data_end(b) .. ck_data_end(b) + Widest - 2
    BY <1>1, Still DEF WildIsContained
  <2>2. CASE a \in wild
    BY <2>1, <2>2 DEF Inv, WildIsContained
  <2>3. CASE a \in stray
    <3>1. PICK b \in Live : instr.addr \in Data(b)
      BY <1>1, <2>1 DEF Inv, TrapOK, LiveData
    <3>2. a \notin Data(b)
      BY <2>3, <3>1 DEF LiveData
    <3>3. /\ ck_data_start(b) \in Nat /\ ck_data_end(b) \in Nat
          /\ Data(b) = ck_data_start(b) .. ck_data_end(b) - 1
      BY SpanFacts DEF Inv, Live, Data
    <3>4. a \in instr.addr .. instr.addr + instr.nbytes - 1
      BY <2>3 DEF Touched
    <3>5. a \in ck_data_end(b) .. ck_data_end(b) + Widest - 2
      <4>0. Widest \in Nat
        BY LayoutAssumption
      <4>5. instr.addr >= ck_data_start(b) /\ instr.addr <= ck_data_end(b) - 1
        BY <1>3, <3>1, <3>3
      <4>1. /\ a \in Int /\ instr.addr >= ck_data_start(b)
            /\ instr.addr <= ck_data_end(b) - 1
            /\ a >= instr.addr /\ a <= instr.addr + Widest - 1
        BY <1>3, <3>4, <4>0, <4>5
      <4>2. ~(a >= ck_data_start(b) /\ a <= ck_data_end(b) - 1)
        BY <3>2, <3>3, <4>1
      <4>3. a >= ck_data_end(b) /\ a <= ck_data_end(b) + Widest - 2
        BY <1>3, <3>3, <4>0, <4>1, <4>2
      <4>4. QED
        BY <3>3, <4>1, <4>3
    <3>6. QED
      BY <3>5
  <2>4. QED
    BY <1>2, <2>2, <2>3
<1>10. QED
  BY <1>4, <1>5, <1>6, <1>7, <1>8, <1>9 DEF Inv

-----------------------------------------------------------------------------
(* Allocating and freeing. *)

LEMMA DataIsFinite ==
  ASSUME TypeOK, HeapOK, NEW B \in SUBSET BlockIds
  PROVE  IsFiniteSet(UNION {Data(b) : b \in B})
<1>1. UNION {Data(b) : b \in B} \subseteq 0 .. brk - 1
  BY Below
<1>2. 0 \in Int /\ brk - 1 \in Int
  BY DEF TypeOK
<1>3. IsFiniteSet(0 .. brk - 1)
  BY <1>2, FS_Interval
<1>4. QED
  BY <1>1, <1>3, FS_Subset

\* The bytes of an interval, counted.
LEMMA IntervalSize ==
  ASSUME NEW s \in Nat, NEW n \in Nat \ {0}
  PROVE  IsFiniteSet(s .. s + n - 1) /\ Cardinality(s .. s + n - 1) = n
<1>1. s \in Int /\ s + n - 1 \in Int /\ ~(s > s + n - 1)
  OBVIOUS
<1>2. /\ IsFiniteSet(s .. s + n - 1)
      /\ Cardinality(s .. s + n - 1) = IF s > s + n - 1 THEN 0 ELSE (s + n - 1) - s + 1
  BY <1>1, FS_Interval
<1>3. (s + n - 1) - s + 1 = n
  OBVIOUS
<1>4. QED
  BY <1>1, <1>2, <1>3

LEMMA DataSize ==
  ASSUME TypeOK, NEW b \in BlockIds
  PROVE  IsFiniteSet(Data(b)) /\ Cardinality(Data(b)) = blocks[b].nbytes_alloc
<1>1. ck_data_start(b) \in Nat /\ blocks[b].nbytes_alloc \in Nat \ {0}
  BY SpanFacts, BlockFacts
<1>2. Data(b) = ck_data_start(b) .. ck_data_start(b) + blocks[b].nbytes_alloc - 1
  <2>1. Data(b) = ck_data_start(b) .. (ck_data_start(b) + blocks[b].nbytes_alloc) - 1
    BY DEF Data, ck_data_end
  <2>2. QED
    BY <1>1, <2>1
<1>3. QED
  BY <1>1, <1>2, IntervalSize

LEMMA UnionSize ==
  ASSUME NEW U, NEW D, IsFiniteSet(U), IsFiniteSet(D), U \cap D = {}
  PROVE  /\ Cardinality(U \cup D) = Cardinality(U) + Cardinality(D)
         /\ Cardinality(U) \in Nat /\ Cardinality(D) \in Nat
<1>1. Cardinality(U \cup D) = Cardinality(U) + Cardinality(D) - Cardinality(U \cap D)
  BY FS_Union
<1>2. Cardinality(U \cap D) = 0
  BY FS_EmptySet
<1>3. Cardinality(U) \in Nat /\ Cardinality(D) \in Nat
  BY FS_CardinalityType
<1>4. QED
  BY <1>1, <1>2, <1>3

\* The total of a list is nothing exactly if the list is empty.
LEMMA EmptyTotals ==
  ASSUME Inv
  PROVE  /\ total_bytes_allocated = 0 <=> alloc_list = << >>
         /\ total_bytes_freed = 0 <=> free_list = << >>
         /\ total_bytes_allocated \in Nat /\ total_bytes_freed \in Nat
<1>1. \A b \in BlockIds : Data(b) # {}
  BY SpanFacts DEF Inv
<1>2. IsFiniteSet(LiveData) /\ IsFiniteSet(FreedData)
  BY DataIsFinite DEF Inv, LiveData, FreedData, Live, Freed
<1>3. LiveData = {} <=> Live = {}
  BY <1>1 DEF LiveData, Live
<1>4. FreedData = {} <=> Freed = {}
  BY <1>1 DEF FreedData, Freed
<1>5. Live = {} <=> alloc_list = << >>
  BY DEF Inv, TypeOK, ListsOK, Live
<1>6. Freed = {} <=> free_list = << >>
  BY DEF Inv, TypeOK, ListsOK, Freed
<1>7. /\ total_bytes_allocated = 0 <=> LiveData = {}
      /\ total_bytes_freed = 0 <=> FreedData = {}
      /\ total_bytes_allocated \in Nat /\ total_bytes_freed \in Nat
  BY <1>2, FS_EmptySet, FS_CardinalityType DEF Inv, TotalsOK
<1>8. QED
  BY <1>3, <1>4, <1>5, <1>6, <1>7

LEMMA AllocInv ==
  ASSUME Inv, NEW n \in 0 .. MaxBytes, Alloc(n)
  PROVE  Inv'
<1>1. /\ pc = "run" /\ tracing' = tracing /\ legal' = (legal /\ n # 0)
      /\ n \in Nat
  BY LayoutAssumption DEF Alloc, Blame
<1>2. tracing => trap
  BY <1>1 DEF Inv, TrapOK
<1>3. CASE n = 0
  <2>1. Stop("panic")
    BY <1>3 DEF Alloc
  <2>2. legal' = FALSE
    BY <1>1, <1>3
  <2>3. QED
    BY <1>1, <2>1, <2>2, StopInv
<1>4. CASE n # 0
  <2>0. PICK b : b = Len(blocks) + 1
    OBVIOUS
  <2> DEFINE new == [start |-> brk, nbytes_alloc |-> n, state |-> "ALLOCED"]
  <2>1. /\ blocks' = Append(blocks, new)
        /\ brk' = brk + Aligned(sizeof_hdr + n + RedZone)
        /\ mem' = mem \cup RedZones(brk, n)
        /\ alloc_list' = IF total_bytes_allocated = 0 THEN <<b>> ELSE Append(alloc_list, b)
        /\ total_bytes_allocated' = total_bytes_allocated + n
        /\ UNCHANGED <<free_list, total_bytes_freed, tracer, pc, wild, instr>>
    BY <1>2, <1>4, <2>0 DEF Alloc
  <2>2. /\ blocks \in Seq(Block) /\ new \in Block /\ brk \in Nat
        /\ alloc_list \in Seq(BlockIds) /\ free_list \in Seq(BlockIds)
        /\ Len(blocks) \in Nat /\ BlockIds = 1 .. Len(blocks)
    BY <1>1, <1>4 DEF Inv, TypeOK, Block, BlockIds
  <2>3. /\ blocks' \in Seq(Block) /\ BlockIds' = BlockIds \cup {b} /\ b \notin BlockIds
        /\ blocks'[b] = new /\ \A c \in BlockIds : blocks'[c] = blocks[c]
    <3>1. /\ blocks' \in Seq(Block) /\ Len(blocks') = Len(blocks) + 1
          /\ blocks'[Len(blocks) + 1] = new /\ \A c \in 1 .. Len(blocks) : blocks'[c] = blocks[c]
      BY <2>1, <2>2, AppendProperties
    <3>2. BlockIds' = 1 .. Len(blocks')
      BY <3>1 DEF BlockIds
    <3>3. 1 .. Len(blocks') = (1 .. Len(blocks)) \cup {b} /\ b \notin 1 .. Len(blocks)
      BY <2>0, <2>2, <3>1
    <3>4. QED
      BY <2>0, <2>2, <3>1, <3>2, <3>3
  <2>4. Live' = Live \cup {b} /\ Freed' = Freed
    BY <2>3 DEF Live, Freed
  <2>5. /\ \A c \in BlockIds : Data(c)' = Data(c) /\ Zones(c)' = Zones(c) /\ End(c)' = End(c)
        /\ \A c \in BlockIds : ck_data_end(c)' = ck_data_end(c)
    BY <2>3 DEF Data, Zones, End, ck_data_start, ck_data_end
  <2>7. sizeof_hdr + n + RedZone \in Nat /\ sizeof_hdr \in Nat /\ RedZone \in Nat
    BY <1>1, LayoutAssumption DEF sizeof_hdr
  <2>6. /\ End(b)' = brk + sizeof_hdr + n + RedZone /\ Zones(b)' = RedZones(brk, n)
        /\ Data(b)' = brk + sizeof_hdr .. brk + sizeof_hdr + n - 1
    <3>1. blocks'[b].start = brk /\ blocks'[b].nbytes_alloc = n
      BY <2>3
    <3>2. End(b)' = brk + sizeof_hdr + n + RedZone
      BY <3>1 DEF End
    <3>3. Zones(b)' = RedZones(brk, n)
      BY <3>1 DEF Zones
    <3>4. ck_data_start(b)' = brk + sizeof_hdr /\ ck_data_end(b)' = brk + sizeof_hdr + n
      BY <3>1 DEF ck_data_start, ck_data_end
    <3>5. Data(b)' = brk + sizeof_hdr .. (brk + sizeof_hdr + n) - 1
      BY <3>4 DEF Data
    <3>6. Data(b)' = brk + sizeof_hdr .. brk + sizeof_hdr + n - 1
      BY <1>1, <2>2, <2>7, <3>5
    <3>7. QED
      BY <3>2, <3>3, <3>6
  <2>8. brk' \in Nat /\ brk' >= brk + sizeof_hdr + n + RedZone
    <3>1. /\ Aligned(sizeof_hdr + n + RedZone) \in Nat
          /\ Aligned(sizeof_hdr + n + RedZone) >= sizeof_hdr + n + RedZone
      BY <2>7, AlignedUp
    <3>2. QED
      BY <1>1, <2>1, <2>2, <2>7, <3>1
  <2>9. \A c \in BlockIds : c < b
    BY <2>0, <2>2
  <2>10. TypeOK'
    <3>1. alloc_list \in Seq(BlockIds') /\ free_list' \in Seq(BlockIds') /\ b \in BlockIds'
      BY <2>1, <2>2, <2>3, SeqMonotonic
    <3>2. <<b>> \in Seq(BlockIds') /\ Append(alloc_list, b) \in Seq(BlockIds')
      BY <3>1
    <3>3. alloc_list' \in Seq(BlockIds')
      BY <2>1, <3>2
    <3>4. legal' \in BOOLEAN
      BY <1>1
    <3>5. QED
      BY <1>1, <2>1, <2>3, <2>8, <3>1, <3>3, <3>4 DEF Inv, TypeOK, tracer
  <2>11. HeapOK'
    <3>1. \A c \in BlockIds : End(c) <= brk /\ End(c) \in Nat
      BY SpanFacts DEF Inv, HeapOK
    <3>2. \A c \in BlockIds' : End(c)' <= brk'
      <4>1. End(b)' <= brk'
        BY <2>6, <2>8
      <4>2. brk <= brk'
        BY <1>1, <2>2, <2>7, <2>8
      <4>3. ASSUME NEW c \in BlockIds PROVE End(c)' <= brk'
        BY <2>2, <2>5, <2>8, <3>1, <4>2
      <4>4. QED
        BY <2>3, <4>1, <4>3
    <3>3. ASSUME NEW c \in BlockIds', NEW d \in BlockIds', c < d
          PROVE  End(c)' <= blocks'[d].start
      <4>1. CASE d = b
        <5>1. c \in BlockIds
          BY <2>0, <2>2, <2>3, <3>3, <4>1
        <5>2. blocks'[d].start = brk
          BY <2>3, <4>1
        <5>3. QED
          BY <2>5, <3>1, <5>1, <5>2
      <4>2. CASE d # b
        <5>1. d \in BlockIds
          BY <2>3, <4>2
        <5>2. c \in BlockIds
          BY <2>2, <2>3, <2>9, <3>3, <5>1
        <5>3. QED
          BY <2>3, <2>5, <3>3, <5>1, <5>2 DEF Inv, HeapOK
      <4>3. QED
        BY <4>1, <4>2
    <3>4. QED
      BY <3>2, <3>3 DEF HeapOK
  <2>12. alloc_list' = Append(alloc_list, b)
    <3>1. alloc_list = << >> => Append(alloc_list, b) = <<b>>
      OBVIOUS
    <3>2. QED
      BY <2>1, <3>1, EmptyTotals
  <2>13. ListsOK'
    <3>1. /\ DOMAIN alloc_list' = (DOMAIN alloc_list) \cup {Len(alloc_list) + 1}
          /\ alloc_list'[Len(alloc_list) + 1] = b
          /\ Len(alloc_list) + 1 \notin DOMAIN alloc_list
          /\ \A k \in DOMAIN alloc_list : alloc_list'[k] = alloc_list[k] /\ alloc_list[k] \in BlockIds
      <4>1. Len(alloc_list') = Len(alloc_list) + 1 /\ Len(alloc_list) \in Nat
        BY <2>2, <2>12
      <4>2. DOMAIN alloc_list' = 1 .. Len(alloc_list') /\ DOMAIN alloc_list = 1 .. Len(alloc_list)
        BY <2>2, <2>12
      <4>3. QED
        BY <2>2, <2>12, <4>1, <4>2
    <3>2. \A c \in BlockIds' : c \in Live' <=> \E k \in DOMAIN alloc_list' : alloc_list'[k] = c
      BY <2>3, <2>4, <3>1 DEF Inv, ListsOK
    <3>3. \A j, k \in DOMAIN alloc_list' : alloc_list'[j] = alloc_list'[k] => j = k
      BY <2>3, <3>1 DEF Inv, ListsOK
    <3>4. \A c \in BlockIds' : c \in Freed' <=> \E k \in DOMAIN free_list' : free_list'[k] = c
      <4>1. free_list' = free_list /\ \A k \in DOMAIN free_list : free_list[k] \in BlockIds
        BY <2>1, <2>2
      <4>2. Freed \subseteq BlockIds
        BY DEF Freed
      <4>3. \A c \in BlockIds : c \in Freed <=> \E k \in DOMAIN free_list : free_list[k] = c
        BY DEF Inv, ListsOK
      <4>4. QED
        BY <2>3, <2>4, <4>1, <4>2, <4>3
    <3>5. QED
      BY <3>2, <3>3, <3>4 DEF ListsOK
  <2>19. {Data(c)' : c \in Live \cup {b}} = {Data(c) : c \in Live} \cup {Data(b)'}
    BY <2>5 DEF Live
  <2>20. /\ wild \cap Data(b)' = {} /\ wild \cap Zones(b)' = {}
         /\ LiveData \cap Data(b)' = {} /\ LiveData \cap Zones(b)' = {}
    <3>1. /\ Data(b)' \subseteq brk .. (brk + sizeof_hdr + n + RedZone) - 1
          /\ Zones(b)' \subseteq brk .. (brk + sizeof_hdr + n + RedZone) - 1
      <4>1. brk \in Nat /\ n \in Nat \ {0}
        BY <1>1, <1>4, <2>2
      <4>2. /\ brk + sizeof_hdr .. brk + sizeof_hdr + n - 1
                 \subseteq brk .. (brk + sizeof_hdr + n + RedZone) - 1
            /\ RedZones(brk, n) \subseteq brk .. (brk + sizeof_hdr + n + RedZone) - 1
        BY <4>1, Layout
      <4>3. QED
        BY <2>6, <4>2
    <3>2. wild \subseteq 0 .. brk - 1
      BY DEF Inv, BytesOK
    <3>3. LiveData \subseteq 0 .. brk - 1
      BY Below DEF Inv, LiveData, Live
    <3>4. brk + sizeof_hdr + n + RedZone \in Nat
      BY <1>1, <2>2, <2>7
    <3>5. (0 .. brk - 1) \cap (brk .. (brk + sizeof_hdr + n + RedZone) - 1) = {}
      BY <2>2, <3>4
    <3>6. QED
      BY <3>1, <3>2, <3>3, <3>5
  <2>14. TotalsOK'
    <3>1. FreedData' = FreedData
      BY <2>4, <2>5 DEF FreedData, Freed
    <3>2. LiveData' = LiveData \cup Data(b)'
      BY <2>4, <2>19 DEF LiveData
    <3>3. IsFiniteSet(LiveData)
      BY DataIsFinite DEF Inv, LiveData, Live
    <3>4. IsFiniteSet(Data(b)') /\ Cardinality(Data(b)') = n
      <4>1. brk + sizeof_hdr \in Nat /\ n \in Nat \ {0}
        BY <1>1, <1>4, <2>2, <2>7
      <4>2. QED
        BY <2>6, <4>1, IntervalSize
    <3>5. Cardinality(LiveData') = Cardinality(LiveData) + n
      BY <2>20, <3>2, <3>3, <3>4, UnionSize
    <3>6. QED
      BY <2>1, <3>1, <3>5 DEF Inv, TotalsOK
  <2>15. BytesOK'
    <3>1. wild \cap Data(b)' = {} /\ wild \cap Zones(b)' = {}
      BY <2>20
    <3>2. LiveData' = LiveData \cup Data(b)'
      BY <2>4, <2>19 DEF LiveData
    <3>3. LiveData \cap Zones(b)' = {}
      BY <2>20
    <3>4. wild' \subseteq 0 .. brk' - 1
      <4>1. brk <= brk' /\ wild \subseteq 0 .. brk - 1
        BY <1>1, <2>2, <2>7, <2>8 DEF Inv, BytesOK
      <4>2. 0 .. brk - 1 \subseteq 0 .. brk' - 1
        <5>1. brk \in Nat /\ brk' \in Nat /\ brk <= brk'
          BY <2>2, <2>8, <4>1
        <5>2. \A x, y \in Nat : x <= y => 0 .. x - 1 \subseteq 0 .. y - 1
          OBVIOUS
        <5>3. QED
          BY <5>1, <5>2
      <4>3. QED
        BY <2>1, <4>1, <4>2
    <3>5. wild' \cap LiveData' = {} /\ wild' \cap mem' = {}
      BY <2>1, <2>6, <3>1, <3>2, <3>3 DEF Inv, BytesOK
    <3>6. \A c \in BlockIds' : Zones(c)' \subseteq mem' \cup wild'
      <4>1. Zones(b)' \subseteq mem'
        BY <2>1, <2>6
      <4>2. \A c \in BlockIds : Zones(c)' \subseteq mem' \cup wild'
        BY <2>1, <2>5 DEF Inv, BytesOK
      <4>3. QED
        BY <2>3, <4>1, <4>2
    <3>7. \A c \in Freed' : Data(c)' \subseteq mem' \cup wild'
      BY <2>1, <2>4, <2>5 DEF Inv, BytesOK, Freed
    <3>8. QED
      BY <3>4, <3>5, <3>6, <3>7 DEF BytesOK
  <2>16. TrapOK' /\ LegalOK'
    BY <1>1, <2>1 DEF Inv, TrapOK, LegalOK, tracer
  <2>17. WildIsContained'
    BY <1>1, <2>1, <2>4, <2>5 DEF Inv, WildIsContained, Live
  <2>18. QED
    BY <2>10, <2>11, <2>13, <2>14, <2>15, <2>16, <2>17 DEF Inv
<1>5. QED
  BY <1>3, <1>4

LEMMA FreeInv ==
  ASSUME Inv, NEW p \in Arena, Free(p)
  PROVE  Inv'
<1>1. PICK c : c = ck_ptr_is_alloced(p)
  OBVIOUS
<1>2. /\ pc = "run" /\ tracing' = tracing
      /\ legal' = (legal /\ \E d \in Live : p = ck_data_start(d))
  BY DEF Free, Blame
<1>3. tracing => trap
  BY <1>2 DEF Inv, TrapOK
<1>4. /\ ~Panics(p)
      /\ c = NoBlock => p \notin LiveData
      /\ c # NoBlock => c \in Live /\ p \in Data(c)
      /\ \A d \in Live : p \in Data(d) => c = d
  BY <1>1, Lookup DEF Inv
<1>5. \A d \in Live : ck_data_start(d) \in Data(d)
  BY SpanFacts DEF Inv, Live
<1>6. CASE c = NoBlock \/ (c \in Live /\ ck_data_start(c) # p)
  <2>1. Stop("panic")
    <3>1. CASE c = NoBlock
      <4>1. c \notin Live
        BY <3>1 DEF NoBlock, Live, BlockIds, Inv, TypeOK
      <4>2. QED
        BY <1>1, <1>3, <3>1, <4>1 DEF Free
    <3>2. CASE c \in Live /\ ck_data_start(c) # p
      BY <1>1, <1>3, <3>2 DEF Free
    <3>3. QED
      BY <1>6, <3>1, <3>2
  <2>2. legal' = FALSE
    <3>1. ASSUME NEW d \in Live, p = ck_data_start(d) PROVE FALSE
      BY <1>4, <1>5, <1>6, <3>1 DEF LiveData
    <3>2. QED
      BY <1>2, <3>1
  <2>3. QED
    BY <1>2, <2>1, <2>2, StopInv
<1>7. CASE c \in Live /\ ck_data_start(c) = p /\ mem_check(c, FALSE)
  <2>1. Stop("reboot")
    BY <1>1, <1>3, <1>4, <1>7 DEF Free, NoBlock, Live, BlockIds, Inv, TypeOK
  <2>2. wild # {}
    <3>1. ~(Zones(c) \subseteq mem) /\ c \in BlockIds
      BY <1>7 DEF mem_check, Live
    <3>2. QED
      BY <3>1 DEF Inv, BytesOK
  <2>3. legal' = FALSE
    BY <1>2, <2>2 DEF Inv, LegalOK, TypeOK
  <2>4. QED
    BY <1>2, <2>1, <2>3, StopInv
<1>8. CASE c \in Live /\ ck_data_start(c) = p /\ ~mem_check(c, FALSE)
  <2>1. /\ blocks' = [blocks EXCEPT ![c].state = "FREED"]
        /\ mem' = mem \cup Data(c)
        /\ Unlink(c)
        /\ total_bytes_allocated' = total_bytes_allocated - blocks[c].nbytes_alloc
        /\ total_bytes_freed' = total_bytes_freed + blocks[c].nbytes_alloc
        /\ UNCHANGED <<brk, tracer, pc, wild, instr>>
    BY <1>1, <1>3, <1>4, <1>8 DEF Free, NoBlock, Live, BlockIds, Inv, TypeOK
  <2>2. Zones(c) \subseteq mem /\ c \in BlockIds /\ c \in Live
    BY <1>8 DEF mem_check, Live
  <2>3. /\ blocks \in Seq(Block) /\ alloc_list \in Seq(BlockIds) /\ free_list \in Seq(BlockIds)
        /\ BlockIds = DOMAIN blocks
    BY DEF Inv, TypeOK, BlockIds
  <2>4. /\ blocks' \in Seq(Block) /\ BlockIds' = BlockIds
        /\ \A d \in BlockIds : /\ blocks'[d].start = blocks[d].start
                               /\ blocks'[d].nbytes_alloc = blocks[d].nbytes_alloc
                               /\ blocks'[d].state = IF d = c THEN "FREED" ELSE blocks[d].state
    <3>1. blocks[c] \in Block
      BY <2>2, <2>3
    <3>2. [blocks[c] EXCEPT !.state = "FREED"] \in Block
      BY <3>1 DEF Block
    <3>3. blocks' \in Seq(Block)
      BY <2>1, <2>2, <2>3, <3>2, ExceptSeq
    <3>4. DOMAIN blocks' = DOMAIN blocks
      BY <2>1
    <3>5. BlockIds' = BlockIds
      BY <3>4 DEF BlockIds
    <3>6. \A d \in BlockIds : blocks[d] \in Block
      BY <2>3
    <3>7. \A d \in BlockIds : blocks'[d] = IF d = c THEN [blocks[d] EXCEPT !.state = "FREED"]
                                                    ELSE blocks[d]
      BY <2>1, <2>2, <2>3
    <3>8. QED
      BY <3>3, <3>5, <3>6, <3>7 DEF Block
  <2>5. Live' = Live \ {c} /\ Freed' = Freed \cup {c}
    BY <2>2, <2>4 DEF Live, Freed
  <2>6. \A d \in BlockIds : /\ Data(d)' = Data(d) /\ Zones(d)' = Zones(d) /\ End(d)' = End(d)
                            /\ ck_data_end(d)' = ck_data_end(d)
    BY <2>4 DEF Data, Zones, End, ck_data_start, ck_data_end
  <2>7. LiveData' = LiveData \ Data(c) /\ Data(c) \subseteq LiveData
    <3>1. LiveData' = UNION {Data(d) : d \in Live \ {c}}
      BY <2>5, <2>6 DEF LiveData, Live
    <3>2. \A d \in Live \ {c} : Data(d) \cap Data(c) = {}
      BY <2>2, Apart DEF Inv, Live
    <3>3. QED
      BY <2>2, <3>1, <3>2 DEF LiveData
  <2>8. FreedData' = FreedData \cup Data(c) /\ FreedData \cap Data(c) = {}
    <3>1. FreedData' = UNION {Data(d) : d \in Freed \cup {c}}
      BY <2>2, <2>5, <2>6 DEF FreedData, Freed
    <3>2. \A d \in Freed : Data(d) \cap Data(c) = {}
      BY <2>2, Apart DEF Inv, Freed
    <3>3. QED
      BY <3>1, <3>2 DEF FreedData
  <2>9. PICK k \in DOMAIN alloc_list : alloc_list[k] = c
    BY <2>2 DEF Inv, ListsOK
  <2>10. /\ k \in 1 .. Len(alloc_list) /\ PositionOf(c) = k
         /\ alloc_list' = RemoveAt(alloc_list, k)
         /\ free_list' = Append(free_list, c)
    <3>1. {j \in DOMAIN alloc_list : alloc_list[j] = c} = {k}
      BY <2>9 DEF Inv, ListsOK
    <3>2. k \in 1 .. Len(alloc_list) /\ k \in Nat
      BY <2>3, <2>9
    <3>3. PositionOf(c) = k
      BY <3>1, <3>2, MinOfOne DEF PositionOf
    <3>4. free_list = << >> => Append(free_list, c) = <<c>>
      OBVIOUS
    <3>5. QED
      BY <2>1, <3>2, <3>3, <3>4, EmptyTotals DEF Unlink
  <2>11. /\ alloc_list' \in Seq(BlockIds) /\ Len(alloc_list') = Len(alloc_list) - 1
         /\ DOMAIN alloc_list' = 1 .. Len(alloc_list) - 1
         /\ DOMAIN alloc_list = 1 .. Len(alloc_list) /\ Len(alloc_list) \in Nat
         /\ \A j \in 1 .. Len(alloc_list) - 1 :
              alloc_list'[j] = IF j < k THEN alloc_list[j] ELSE alloc_list[j + 1]
    <3>1. /\ alloc_list' \in Seq(BlockIds) /\ Len(alloc_list') = Len(alloc_list) - 1
          /\ \A j \in 1 .. Len(alloc_list) - 1 :
               alloc_list'[j] = IF j < k THEN alloc_list[j] ELSE alloc_list[j + 1]
      BY <2>3, <2>10, RemoveAtProperties
    <3>2. DOMAIN alloc_list = 1 .. Len(alloc_list) /\ Len(alloc_list) \in Nat
      BY <2>3
    <3>3. DOMAIN alloc_list' = 1 .. Len(alloc_list')
      BY <3>1
    <3>4. QED
      BY <3>1, <3>2, <3>3
  <2>12. TypeOK'
    <3>1. free_list' \in Seq(BlockIds)
      BY <2>2, <2>3, <2>10
    <3>2. legal' \in BOOLEAN
      BY <1>2
    <3>3. QED
      BY <1>2, <2>1, <2>4, <2>11, <3>1, <3>2 DEF Inv, TypeOK, tracer
  <2>13. HeapOK'
    BY <2>1, <2>4, <2>6 DEF Inv, HeapOK
  <2>14. ListsOK'
    <3>1. ASSUME NEW d \in Live \ {c} PROVE \E j \in DOMAIN alloc_list' : alloc_list'[j] = d
      <4>1. PICK j \in DOMAIN alloc_list : alloc_list[j] = d
        BY DEF Inv, ListsOK, Live
      <4>2. j # k
        BY <2>9, <4>1
      <4>3. CASE j < k
        BY <2>10, <2>11, <4>1, <4>3
      <4>4. CASE j > k
        <5>1. j - 1 \in DOMAIN alloc_list' /\ ~(j - 1 < k) /\ (j - 1) + 1 = j
          BY <2>10, <2>11, <4>4
        <5>2. QED
          BY <2>11, <4>1, <5>1
      <4>5. QED
        BY <2>10, <2>11, <4>2, <4>3, <4>4
    <3>2. ASSUME NEW j \in DOMAIN alloc_list'
          PROVE  \E h \in DOMAIN alloc_list : /\ h = IF j < k THEN j ELSE j + 1
                                              /\ alloc_list'[j] = alloc_list[h] /\ h # k
      BY <2>10, <2>11
    <3>3. \A j \in DOMAIN alloc_list' : alloc_list'[j] \in Live \ {c}
      BY <2>3, <2>9, <3>2 DEF Inv, ListsOK
    <3>4. \A d \in BlockIds' : d \in Live' <=> \E j \in DOMAIN alloc_list' : alloc_list'[j] = d
      BY <2>4, <2>5, <3>1, <3>3
    <3>5. ASSUME NEW j \in DOMAIN alloc_list', NEW m \in DOMAIN alloc_list',
                 alloc_list'[j] = alloc_list'[m]
          PROVE  j = m
      <4>1. (IF j < k THEN j ELSE j + 1) = (IF m < k THEN m ELSE m + 1)
        BY <3>2, <3>5 DEF Inv, ListsOK
      <4>2. QED
        BY <2>10, <2>11, <4>1
    <3>6. /\ DOMAIN free_list' = (DOMAIN free_list) \cup {Len(free_list) + 1}
          /\ free_list'[Len(free_list) + 1] = c
          /\ \A j \in DOMAIN free_list : free_list'[j] = free_list[j] /\ free_list[j] \in BlockIds
      <4>1. Len(free_list') = Len(free_list) + 1 /\ Len(free_list) \in Nat
        BY <2>3, <2>10
      <4>2. DOMAIN free_list' = 1 .. Len(free_list') /\ DOMAIN free_list = 1 .. Len(free_list)
        BY <2>3, <2>10
      <4>3. QED
        BY <2>3, <2>10, <4>1, <4>2
    <3>7. \A d \in BlockIds' : d \in Freed' <=> \E j \in DOMAIN free_list' : free_list'[j] = d
      BY <2>4, <2>5, <3>6 DEF Inv, ListsOK
    <3>8. QED
      BY <3>4, <3>5, <3>7 DEF ListsOK
  <2>15. TotalsOK'
    <3>1. IsFiniteSet(LiveData) /\ IsFiniteSet(FreedData)
      BY DataIsFinite DEF Inv, LiveData, FreedData, Live, Freed
    <3>2. /\ IsFiniteSet(Data(c)) /\ Cardinality(Data(c)) = blocks[c].nbytes_alloc
      BY <2>2, DataSize DEF Inv
    <3>3. IsFiniteSet(LiveData')
      BY <2>7, <3>1, FS_Subset
    <3>4. LiveData' \cap Data(c) = {} /\ LiveData = LiveData' \cup Data(c)
      BY <2>7
    <3>5. /\ Cardinality(LiveData) = Cardinality(LiveData') + Cardinality(Data(c))
          /\ Cardinality(LiveData') \in Nat /\ Cardinality(Data(c)) \in Nat
      BY <3>2, <3>3, <3>4, UnionSize
    <3>6. Cardinality(FreedData') = Cardinality(FreedData) + Cardinality(Data(c))
      BY <2>8, <3>1, <3>2, UnionSize
    <3>7. total_bytes_allocated' = Cardinality(LiveData')
      BY <2>1, <3>2, <3>5 DEF Inv, TotalsOK
    <3>8. total_bytes_freed' = Cardinality(FreedData')
      BY <2>1, <3>2, <3>6 DEF Inv, TotalsOK
    <3>9. QED
      BY <3>7, <3>8 DEF TotalsOK
  <2>16. BytesOK'
    <3>1. wild' \cap LiveData' = {} /\ wild' \cap mem' = {} /\ wild' \subseteq 0 .. brk' - 1
      BY <2>1, <2>7 DEF Inv, BytesOK
    <3>2. \A d \in BlockIds' : Zones(d)' \subseteq mem' \cup wild'
      BY <2>1, <2>4, <2>6 DEF Inv, BytesOK
    <3>3. \A d \in Freed' : Data(d)' \subseteq mem' \cup wild'
      BY <2>1, <2>2, <2>5, <2>6 DEF Inv, BytesOK, Freed
    <3>4. QED
      BY <3>1, <3>2, <3>3 DEF BytesOK
  <2>17. TrapOK' /\ LegalOK'
    BY <1>2, <2>1 DEF Inv, TrapOK, LegalOK, tracer
  <2>18. WildIsContained'
    <3>1. SUFFICES ASSUME tracing, NEW a \in wild
                   PROVE  \E d \in Live' : a \in ck_data_end(d)' .. ck_data_end(d)' + Widest - 2
      BY <1>2, <2>1 DEF WildIsContained
    <3>2. PICK d \in Live : a \in ck_data_end(d) .. ck_data_end(d) + Widest - 2
      BY <3>1 DEF Inv, WildIsContained
    <3>3. a \in Zones(d) /\ d \in BlockIds
      BY <3>2, SpanFacts DEF Inv, Live
    <3>4. d # c
      BY <2>2, <3>3 DEF Inv, BytesOK
    <3>5. QED
      BY <2>5, <2>6, <3>2, <3>3, <3>4
  <2>19. QED
    BY <2>12, <2>13, <2>14, <2>15, <2>16, <2>17, <2>18 DEF Inv
<1>9. QED
  BY <1>4, <1>6, <1>7, <1>8

-----------------------------------------------------------------------------
LEMMA InitInv == Init => Inv
<1>1. SUFFICES ASSUME Init PROVE Inv
  OBVIOUS
<1>2. BlockIds = {} /\ Live = {} /\ Freed = {}
  BY <1>1 DEF Init, BlockIds, Live, Freed
<1>3. TypeOK
  <2>1. blocks \in Seq(Block) /\ alloc_list \in Seq(BlockIds) /\ free_list \in Seq(BlockIds)
    BY <1>1 DEF Init
  <2>2. QED
    BY <1>1, <2>1 DEF Init, TypeOK
<1>4. HeapOK /\ ListsOK
  BY <1>1, <1>2 DEF Init, HeapOK, ListsOK
<1>5. LiveData = {} /\ FreedData = {}
  BY <1>2 DEF LiveData, FreedData
<1>6. TotalsOK
  BY <1>1, <1>5, FS_EmptySet DEF Init, TotalsOK
<1>7. BytesOK /\ WildIsContained
  BY <1>1, <1>2, <1>5 DEF Init, BytesOK, WildIsContained
<1>8. TrapOK /\ LegalOK
  BY <1>1 DEF Init, TrapOK, LegalOK
<1>9. QED
  BY <1>3, <1>4, <1>6, <1>7, <1>8 DEF Inv

LEMMA StepInv == Inv /\ [Next]_vars => Inv'
<1>1. SUFFICES ASSUME Inv, [Next]_vars PROVE Inv'
  OBVIOUS
<1>2. CASE Next
  BY <1>1, <1>2, AllocInv, FreeInv, IssueInv, DomainFaultInv, AccessInv, WatchpointInv DEF Next
<1>3. CASE UNCHANGED vars
  <2>1. UNCHANGED <<mem, lists, tracing, tracer, instr, pc, wild, legal>>
    BY <1>3 DEF vars
  <2>2. HeapOK' /\ ListsOK' /\ TotalsOK'
    BY <1>1, <2>1, Still DEF Inv
  <2>3. BytesOK' /\ WildIsContained'
    BY <1>1, <2>1, StillBytes
  <2>4. TypeOK'
    BY <1>1, <2>1, Still DEF Inv, TypeOK, lists, tracer
  <2>5. TrapOK' /\ LegalOK'
    BY <1>1, <2>1, Still DEF Inv, TrapOK, LegalOK, lists, tracer, Touched
  <2>6. QED
    BY <2>2, <2>3, <2>4, <2>5 DEF Inv
<1>4. QED
  BY <1>1, <1>2, <1>3

\* The inductive invariant holds for every layout and heap.
THEOREM InvHolds == Spec => []Inv
<1>1. Inv /\ [Next]_vars => Inv'
  BY StepInv
<1>2. QED
  BY <1>1, InitInv, PTL DEF Spec

\* Traced, what a store of any width writes astray is in the second red zone
\* of the live block it began in.
THEOREM WildIsContainedHolds == Spec => []WildIsContained
<1>1. Inv => WildIsContained
  BY DEF Inv
<1>2. QED
  BY <1>1, InvHolds, PTL

\* A program that does nothing wrong is not stopped by the allocator, the
\* tracer or the checker.
THEOREM LegalProgramsRunHolds == Spec => []LegalProgramsRun
<1>1. Inv => LegalProgramsRun
  BY DEF Inv, LegalOK, LegalProgramsRun
<1>2. QED
  BY <1>1, InvHolds, PTL

LEMMA InvGivesNothingSlips == Inv => NothingSlips
<1>1. SUFFICES ASSUME Inv
               PROVE  ck_heap_errors > 0 <=>
                        \E b \in BlockIds : \E a \in wild :
                          a \in Zones(b) \cup (IF b \in Live THEN {} ELSE Data(b))
  BY DEF NothingSlips
<1> DEFINE A == {k \in DOMAIN alloc_list : mem_check(alloc_list[k], FALSE)}
           F == {k \in DOMAIN free_list : mem_check(free_list[k], TRUE)}
<1>2. /\ alloc_list \in Seq(BlockIds) /\ free_list \in Seq(BlockIds)
      /\ \A k \in DOMAIN alloc_list : alloc_list[k] \in Live
      /\ \A k \in DOMAIN free_list : free_list[k] \in Freed
  BY <1>1 DEF Inv, TypeOK, ListsOK
<1>3. IsFiniteSet(A) /\ IsFiniteSet(F)
  <2>1. /\ DOMAIN alloc_list = 1 .. Len(alloc_list) /\ Len(alloc_list) \in Int
        /\ DOMAIN free_list = 1 .. Len(free_list) /\ Len(free_list) \in Int
    BY <1>2
  <2>2. IsFiniteSet(DOMAIN alloc_list) /\ IsFiniteSet(DOMAIN free_list)
    BY <2>1, FS_Interval
  <2>3. A \in SUBSET DOMAIN alloc_list /\ F \in SUBSET DOMAIN free_list
    OBVIOUS
  <2>4. QED
    BY <2>2, <2>3, FS_Subset
<1>4. ck_heap_errors = Cardinality(A) + Cardinality(F)
  BY DEF ck_heap_errors
<1>5. ck_heap_errors > 0 <=> A # {} \/ F # {}
  <2> HIDE DEF A, F
  <2>1. /\ Cardinality(A) \in Nat /\ Cardinality(F) \in Nat
        /\ Cardinality(A) = 0 <=> A = {}
        /\ Cardinality(F) = 0 <=> F = {}
    BY <1>3, FS_CardinalityType, FS_EmptySet
  <2>2. Cardinality(A) + Cardinality(F) > 0 <=> Cardinality(A) # 0 \/ Cardinality(F) # 0
    BY <2>1
  <2>3. QED
    BY <1>4, <2>1, <2>2
<1>6. A # {} <=> \E b \in Live : \E a \in wild : a \in Zones(b)
  <2>1. \A b \in Live : mem_check(b, FALSE) <=> \E a \in wild : a \in Zones(b)
    BY <1>1 DEF Inv, BytesOK, mem_check, Live
  <2>2. A # {} <=> \E b \in Live : mem_check(b, FALSE)
    <3>1. \A b \in Live : \E k \in DOMAIN alloc_list : alloc_list[k] = b
      BY <1>1 DEF Inv, ListsOK, Live
    <3>2. A # {} <=> \E k \in DOMAIN alloc_list : mem_check(alloc_list[k], FALSE)
      OBVIOUS
    <3> HIDE DEF A
    <3>3. QED
      BY <1>2, <3>1, <3>2
  <2>3. QED
    BY <2>1, <2>2
<1>7. F # {} <=> \E b \in Freed : \E a \in wild : a \in Zones(b) \cup Data(b)
  <2>1. \A b \in Freed : mem_check(b, TRUE) <=> \E a \in wild : a \in Zones(b) \cup Data(b)
    BY <1>1 DEF Inv, BytesOK, mem_check, Freed
  <2>2. F # {} <=> \E b \in Freed : mem_check(b, TRUE)
    <3>1. \A b \in Freed : \E k \in DOMAIN free_list : free_list[k] = b
      BY <1>1 DEF Inv, ListsOK, Freed
    <3>2. F # {} <=> \E k \in DOMAIN free_list : mem_check(free_list[k], TRUE)
      OBVIOUS
    <3> HIDE DEF F
    <3>3. QED
      BY <1>2, <3>1, <3>2
  <2>3. QED
    BY <2>1, <2>2
<1>8. /\ \A b \in BlockIds : b \in Live \/ b \in Freed
      /\ \A b \in Freed : b \in BlockIds /\ b \notin Live
      /\ \A b \in Live : b \in BlockIds
  BY DEF Freed, Live
<1> HIDE DEF A, F
<1>9. QED
  BY <1>5, <1>6, <1>7, <1>8

\* Untraced, ck_heap_errors tells exactly whether a red zone or a freed block
\* was written.
THEOREM NothingSlipsHolds == Spec => []NothingSlips
BY InvHolds, InvGivesNothingSlips, PTL
=============================================================================
