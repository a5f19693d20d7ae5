------------------------ MODULE CircularQueueProofs ------------------------
(***************************************************************************)
(* For every queue size, word size and number of words, and for either     *)
(* side or none as the interrupt handler: the queue loses, duplicates and  *)
(* reorders nothing and no panic fires.  cq_peek_n is not part of this:    *)
(* see CircularPeek.                                                       *)
(***************************************************************************)
EXTENDS CircularQueue, TLAPS

\* Byte number w * W + b of the stream is byte b of word w.
LEMMA ByteOfWord ==
  ASSUME NEW w \in Nat, NEW b \in 0 .. W-1
  PROVE  Byte(w * W + b) = <<w, b>>
BY SizeAssumption DEF Byte

\* The index after slot s, without the modulus.
LEMMA NextSlot ==
  ASSUME NEW s \in 0 .. N-1
  PROVE  /\ (s + 1) % N = IF s + 1 = N THEN 0 ELSE s + 1
         /\ (s + 1) % N \in 0 .. N-1
BY SizeAssumption

\* Slot s + j for a displacement of less than one turn.
LEMMA SlotAt ==
  ASSUME NEW s \in 0 .. N-1, NEW j \in 0 .. N-1
  PROVE  (s + j) % N = IF s + j < N THEN s + j ELSE s + j - N
BY SizeAssumption

\* A slot is its own neighbour at distance nothing.
LEMMA SlotItself ==
  ASSUME NEW s \in 0 .. N-1
  PROVE  (s + 0) % N = s
BY SizeAssumption

\* A number of whole turns plus a remainder, modulo N.
LEMMA WholeTurns ==
  ASSUME NEW k \in Nat, NEW b \in 0 .. N-1
  PROVE  (k * N + b) % N = b
BY SizeAssumption

\* cq_nelem is the number of held bytes although head - tail wraps around.
LEMMA NelemIsHeld ==
  ASSUME head \in 0 .. N-1, tail \in 0 .. N-1
  PROVE  cq_nelem = Held /\ Held \in 0 .. N-1
<1>1. CASE head >= tail
  <2>1. (head - tail) % M = head - tail
    <3>1. N <= M
      BY SizeAssumption
    <3>2. QED
      BY <1>1, <3>1, SizeAssumption
  <2>2. QED
    BY <1>1, <2>1, SizeAssumption DEF cq_nelem, Held
<1>2. CASE head < tail
  <2>1. PICK k \in 1 .. M : M = k * N
    BY SizeAssumption
  <2>2. k - 1 \in Nat /\ head - tail + N \in 0 .. N-1
    BY <1>2, SizeAssumption
  <2>3. (head - tail) % M = head - tail + M
    <3>1. N <= M
      BY SizeAssumption
    <3>2. QED
      BY <1>2, <3>1, SizeAssumption
  <2>4. head - tail + M = (k - 1) * N + (head - tail + N)
    BY <2>1, SizeAssumption
  <2>5. ((k - 1) * N + (head - tail + N)) % N = head - tail + N
    BY <2>2, WholeTurns
  <2>6. QED
    BY <1>2, <2>2, <2>3, <2>4, <2>5 DEF cq_nelem, Held
<1>3. QED
  BY <1>1, <1>2

-----------------------------------------------------------------------------
LEMMA InitInv == Init => Inv
BY SizeAssumption
DEF Init, Inv, TypeOK, NothingLost, NoPanic, ReceivedInOrder,
    PushInProgress, PopInProgress, Sent, Taken, Held, Bytes, Zero

\* A push that passed the space test starts with room for the whole word.
LEMMA PushWordInv == Inv /\ PushWord => Inv'
<1> SUFFICES ASSUME Inv, PushWord PROVE Inv'
  OBVIOUS
<1> USE DEF Inv, PushWord, queue, consumer
<1>1. cq_nelem = Held /\ Held \in 0 .. N-1
  BY NelemIsHeld DEF TypeOK
<1>2. Held' = Held /\ Sent' = Sent /\ Taken' = Taken
  BY DEF Held, Sent, Taken
<1>3. TypeOK'
  BY DEF TypeOK
<1>4. NothingLost'
  BY <1>2 DEF NothingLost
<1>5. NoPanic' /\ ReceivedInOrder' /\ PopInProgress'
  BY <1>2 DEF NoPanic, ReceivedInOrder, PopInProgress
<1>6. PushInProgress'
  BY <1>1, <1>2, SizeAssumption DEF PushInProgress, cq_nspace, TypeOK
<1>7. QED
  BY <1>3, <1>4, <1>5, <1>6

\* The store goes to a slot outside the held region, so it changes no held byte.
LEMMA PushWriteInv == Inv /\ PushWrite => Inv'
<1> SUFFICES ASSUME Inv, PushWrite PROVE Inv'
  OBVIOUS
<1> USE DEF Inv, PushWrite, consumer
<1>1. cq_nelem = Held /\ Held \in 0 .. N-1
  BY NelemIsHeld DEF TypeOK
<1>2. Held <= N - 2 /\ push_success < MaxPush /\ pushed \in 0 .. W-1 /\ push_success \in Nat
  BY <1>1, SizeAssumption DEF PushInProgress, TypeOK
<1>3. ~cq_full
  BY <1>2, NextSlot, SizeAssumption DEF cq_full, Held, TypeOK
<1>4. cq_nspace \in Int /\ cq_nspace > 0
  BY <1>1, <1>2, SizeAssumption DEF cq_nspace
<1>5. /\ c_buf' = [c_buf EXCEPT ![head] = Byte(push_success * W + pushed)]
      /\ ppc' = "advance"
      /\ fault' = fault
  BY <1>3, <1>4
<1>6. Held' = Held /\ Sent' = Sent /\ Taken' = Taken
  BY DEF Held, Sent, Taken
<1>7. Byte(push_success * W + pushed) \in Bytes
  <2>1. Byte(push_success * W + pushed) = <<push_success, pushed>>
    BY <1>2, ByteOfWord
  <2>2. QED
    BY <1>2, <2>1, SizeAssumption DEF Bytes
<1>8. TypeOK'
  BY <1>5, <1>7 DEF TypeOK
<1>9. NothingLost'
  <2>1. ASSUME NEW j \in 0 .. N-1, j < Held
        PROVE  (tail + j) % N # head
    <3>1. head \in 0 .. N-1 /\ tail \in 0 .. N-1 /\ N \in Nat
      BY SizeAssumption DEF TypeOK
    <3>2. (tail + j) % N = IF tail + j < N THEN tail + j ELSE tail + j - N
      BY <3>1, SlotAt
    <3>3. QED
      BY <2>1, <3>1, <3>2 DEF Held
  <2>2. ASSUME NEW j \in 0 .. N-1, j < Held
        PROVE  c_buf'[(tail + j) % N] = c_buf[(tail + j) % N]
    BY <1>5, <2>1, <2>2 DEF TypeOK
  <2>3. QED
    BY <1>6, <2>2 DEF NothingLost
<1>10. NoPanic' /\ ReceivedInOrder' /\ PopInProgress'
  BY <1>5, <1>6 DEF NoPanic, ReceivedInOrder, PopInProgress
<1>11. PushInProgress'
  BY <1>5, <1>6 DEF PushInProgress, TypeOK, Sent
<1>12. QED
  BY <1>8, <1>9, <1>10, <1>11

\* Publishing the slot appends the byte stored in it to the held region.
LEMMA PushAdvanceInv == Inv /\ PushAdvance => Inv'
<1> SUFFICES ASSUME Inv, PushAdvance PROVE Inv'
  OBVIOUS
<1> USE DEF Inv, PushAdvance, consumer
<1>1. /\ head \in 0 .. N-1 /\ tail \in 0 .. N-1 /\ pushed \in 0 .. W-1
      /\ push_success \in Nat /\ push_success < MaxPush
      /\ Held \in 0 .. N-2 /\ Held + (W - pushed) <= N - 1
  BY NelemIsHeld, SizeAssumption DEF PushInProgress, TypeOK
<1>2. Held' = Held + 1
  BY <1>1, NextSlot, SizeAssumption DEF Held
<1>3. Sent' = Sent + 1
  <2>1. CASE pushed + 1 = W
    BY <1>1, <2>1, SizeAssumption DEF Sent
  <2>2. CASE pushed + 1 # W
    BY <1>1, <2>2, SizeAssumption DEF Sent
  <2>3. QED
    BY <2>1, <2>2
<1>4. Taken' = Taken
  BY DEF Taken
<1>5. TypeOK'
  BY <1>1, NextSlot, SizeAssumption DEF TypeOK
<1>6. NothingLost'
  <2>1. Taken \in Int
    BY SizeAssumption DEF Taken, TypeOK
  <2>2. ASSUME NEW j \in 0 .. N-1, j < Held + 1
        PROVE  c_buf[(tail + j) % N] = Byte(Taken + j)
    <3>1. CASE j < Held
      BY <3>1 DEF NothingLost
    <3>2. CASE j = Held
      <4>1. (tail + j) % N = head
        <5>1. (tail + j) % N = IF tail + j < N THEN tail + j ELSE tail + j - N
          BY <1>1, SlotAt
        <5>2. QED
          BY <1>1, <3>2, <5>1, SizeAssumption DEF Held
      <4>2. QED
        BY <3>2, <4>1 DEF NothingLost, PushInProgress
    <3>3. QED
      BY <1>1, <2>2, <3>1, <3>2
  <2>3. Sent' = Taken' + Held'
    BY <1>1, <1>2, <1>3, <1>4, <2>1, SizeAssumption DEF NothingLost
  <2>4. QED
    BY <1>2, <1>4, <2>2, <2>3 DEF NothingLost
<1>7. NoPanic' /\ ReceivedInOrder'
  BY DEF NoPanic, ReceivedInOrder
<1>8. PopInProgress'
  BY <1>1, <1>2 DEF PopInProgress
<1>9. PushInProgress'
  BY <1>1, <1>2, SizeAssumption DEF PushInProgress
<1>10. QED
  BY <1>5, <1>6, <1>7, <1>8, <1>9

LEMMA PopWordInv == Inv /\ (PopWord \/ PopWordNoblk) => Inv'
<1> SUFFICES ASSUME Inv, PopWord \/ PopWordNoblk PROVE Inv'
  OBVIOUS
<1> USE DEF Inv, PopWord, PopWordNoblk, queue, producer
<1>1. /\ cpc = "idle" /\ cpc' = "read" /\ i < MaxPush
      /\ UNCHANGED <<c_buf, head, tail, ppc, pushed, push_success, recv, i, fault>>
  OBVIOUS
<1>2. recv = << >>
  BY <1>1 DEF PopInProgress
<1>3. Held' = Held /\ Sent' = Sent /\ Taken' = Taken
  BY <1>1 DEF Held, Sent, Taken
<1>4. TypeOK' /\ NoPanic' /\ ReceivedInOrder'
  BY <1>1 DEF TypeOK, NoPanic, ReceivedInOrder
<1>5. NothingLost' /\ PushInProgress'
  BY <1>1, <1>3 DEF NothingLost, PushInProgress
<1>6. PopInProgress'
  BY <1>1, <1>2, SizeAssumption DEF PopInProgress
<1>7. QED
  BY <1>4, <1>5, <1>6

\* The byte loaded is the oldest one held: the next byte of the word.
LEMMA PopReadInv == Inv /\ PopRead => Inv'
<1> SUFFICES ASSUME Inv, PopRead PROVE Inv'
  OBVIOUS
<1> USE DEF Inv, PopRead, queue, producer
<1>1. /\ head \in 0 .. N-1 /\ tail \in 0 .. N-1 /\ c_buf \in [0 .. N-1 -> Bytes]
      /\ recv \in Seq(Bytes) /\ i \in Nat /\ Len(recv) < W
      /\ recv' = Append(recv, c_buf[tail])
  BY SizeAssumption DEF TypeOK, PopInProgress
<1>2. Held > 0 /\ Held \in 0 .. N-1
  BY <1>1, NelemIsHeld, SizeAssumption DEF Held, cq_empty
<1>3. /\ recv' \in Seq(Bytes) /\ Len(recv') = Len(recv) + 1
      /\ \A k \in 1 .. Len(recv) : recv'[k] = recv[k]
      /\ recv'[Len(recv) + 1] = c_buf[tail]
  BY <1>1
<1>4. Taken = i * W + Len(recv)
  BY <1>1, SizeAssumption DEF Taken
<1>5. Held' = Held /\ Sent' = Sent /\ Taken' = Taken
  BY <1>1, <1>3, SizeAssumption DEF Held, Sent, Taken
<1>6. c_buf[tail] = Byte(i * W + Len(recv))
  <2>1. c_buf[(tail + 0) % N] = Byte(Taken + 0)
    BY <1>2, SizeAssumption DEF NothingLost
  <2>2. (tail + 0) % N = tail
    BY <1>1, SlotItself
  <2>3. Taken + 0 = i * W + Len(recv)
    BY <1>1, <1>4, SizeAssumption
  <2>4. QED
    BY <2>1, <2>2, <2>3
<1>7. TypeOK'
  BY <1>1, <1>3, SizeAssumption DEF TypeOK
<1>8. ReceivedInOrder'
  <2>1. i' = i
    OBVIOUS
  <2>2. ASSUME NEW k \in 1 .. Len(recv') PROVE recv'[k] = Byte(i * W + k - 1)
    <3>1. CASE k \in 1 .. Len(recv)
      BY <1>3, <3>1 DEF ReceivedInOrder
    <3>2. CASE k = Len(recv) + 1
      <4>1. i * W + k - 1 = i * W + Len(recv)
        BY <1>1, <3>2, SizeAssumption
      <4>2. QED
        BY <1>3, <1>6, <3>2, <4>1
    <3>3. QED
      BY <1>1, <1>3, <3>1, <3>2
  <2>3. QED
    BY <2>1, <2>2 DEF ReceivedInOrder
<1>9. NothingLost' /\ PushInProgress'
  BY <1>5 DEF NothingLost, PushInProgress
<1>10. NoPanic'
  BY DEF NoPanic
<1>11. PopInProgress'
  BY <1>1, <1>2, <1>3, <1>5 DEF PopInProgress
<1>12. QED
  BY <1>7, <1>8, <1>9, <1>10, <1>11

\* Releasing the slot drops the oldest held byte; a complete word is word i.
LEMMA PopAdvanceInv == Inv /\ PopAdvance => Inv'
<1> SUFFICES ASSUME Inv, PopAdvance PROVE Inv'
  OBVIOUS
<1> USE DEF Inv, PopAdvance, producer
<1>1. /\ head \in 0 .. N-1 /\ tail \in 0 .. N-1 /\ N \in Nat \ {0} /\ W \in Nat \ {0}
      /\ recv \in Seq(Bytes) /\ i \in Nat /\ i < MaxPush /\ Len(recv) <= W
      /\ Len(recv) > 0 /\ Held > 0 /\ cpc = "advance"
  BY SizeAssumption DEF TypeOK, PopInProgress
<1>2. Held \in 1 .. N-1 /\ Held' = Held - 1 /\ tail' \in 0 .. N-1
  <2>1. tail' = IF tail + 1 = N THEN 0 ELSE tail + 1
    BY <1>1, NextSlot
  <2>2. Held \in 0 .. N-1
    BY <1>1, NelemIsHeld
  <2>3. QED
    BY <1>1, <2>1, <2>2 DEF Held
<1>3. Sent' = Sent
  BY DEF Sent
<1>4. Taken = i * W + Len(recv) - 1 /\ Taken \in Int
  BY <1>1 DEF Taken
<1>5. Taken' = Taken + 1
  <2>1. CASE Len(recv) < W
    BY <1>1, <1>4, <2>1 DEF Taken
  <2>2. CASE Len(recv) = W
    <3>1. i' = i + 1 /\ Len(recv') = 0 /\ cpc' = "idle"
      BY <1>1, <2>2
    <3>2. (i + 1) * W = i * W + W
      BY <1>1
    <3>3. QED
      BY <1>1, <1>4, <2>2, <3>1, <3>2 DEF Taken
  <2>3. QED
    BY <1>1, <2>1, <2>2
<1>6. Len(recv) = W => \A k \in 1 .. W : recv[k] = <<i, k - 1>>
  <2>1. SUFFICES ASSUME Len(recv) = W, NEW k \in 1 .. W
                 PROVE  recv[k] = <<i, k - 1>>
    OBVIOUS
  <2>2. recv[k] = Byte(i * W + k - 1)
    BY <2>1 DEF ReceivedInOrder
  <2>3. k - 1 \in 0 .. W-1 /\ i * W + (k - 1) = i * W + k - 1
    BY <1>1
  <2>4. Byte(i * W + (k - 1)) = <<i, k - 1>>
    BY <1>1, <2>3, ByteOfWord
  <2>5. QED
    BY <2>2, <2>3, <2>4
<1>7. NoPanic'
  BY <1>1, <1>6 DEF NoPanic
<1>8. TypeOK' /\ ReceivedInOrder'
  <2>1. \/ recv' = recv /\ i' = i
        \/ recv' = << >> /\ i' = i + 1
    BY <1>1
  <2>2. recv' \in Seq(Bytes) /\ Len(recv') <= W /\ i' \in 0 .. MaxPush
    <3>1. << >> \in Seq(Bytes) /\ Len(<< >>) = 0
      OBVIOUS
    <3>2. i + 1 \in 0 .. MaxPush /\ i \in 0 .. MaxPush
      BY <1>1, SizeAssumption
    <3>3. CASE recv' = recv /\ i' = i
      BY <1>1, <3>2, <3>3
    <3>4. CASE recv' = << >> /\ i' = i + 1
      <4>1. Len(recv') = 0 /\ recv' \in Seq(Bytes)
        BY <3>1, <3>4
      <4>2. QED
        BY <1>1, <3>2, <3>4, <4>1
    <3>5. QED
      BY <2>1, <3>3, <3>4
  <2>3. cpc' \in {"read", "idle"}
    BY <1>1
  <2>4. TypeOK'
    BY <1>2, <1>7, <2>2, <2>3 DEF TypeOK, NoPanic
  <2>5. ReceivedInOrder'
    BY <1>1, <2>1 DEF ReceivedInOrder
  <2>6. QED
    BY <2>3, <2>4, <2>5
<1>9. NothingLost'
  <2>1. ASSUME NEW j \in 0 .. N-1, j < Held - 1
        PROVE  c_buf[(tail' + j) % N] = Byte(Taken + 1 + j)
    <3>1. j + 1 \in 0 .. N-1 /\ j + 1 < Held
      BY <1>1, <1>2, <2>1
    <3>2. tail' = IF tail + 1 = N THEN 0 ELSE tail + 1
      BY <1>1, NextSlot
    <3>3. (tail + (j + 1)) % N
            = IF tail + (j + 1) < N THEN tail + (j + 1) ELSE tail + (j + 1) - N
      BY <1>1, <3>1, SlotAt
    <3>4. (tail' + j) % N = IF tail' + j < N THEN tail' + j ELSE tail' + j - N
      BY <1>1, <1>2, NextSlot, SlotAt
    <3>5. (tail' + j) % N = (tail + (j + 1)) % N
      <4>1. CASE tail + 1 = N
        BY <1>1, <2>1, <3>1, <3>2, <3>3, <3>4, <4>1
      <4>2. CASE tail + 1 # N
        <5>1. tail' = tail + 1 /\ tail \in Int /\ j \in Int /\ N \in Int
          BY <1>1, <3>2, <4>2
        <5>2. tail + 1 + j = tail + (j + 1)
          BY <5>1
        <5>3. QED
          BY <3>3, <3>4, <5>1, <5>2
      <4>3. QED
        BY <4>1, <4>2
    <3>6. Taken + (j + 1) = Taken + 1 + j
      BY <1>4, <3>1
    <3>7. QED
      BY <3>1, <3>5, <3>6 DEF NothingLost
  <2>2. Sent' = Taken' + Held'
    BY <1>2, <1>3, <1>4, <1>5 DEF NothingLost
  <2>3. QED
    BY <1>2, <1>5, <2>1, <2>2 DEF NothingLost
<1>10. PushInProgress'
  <2>1. (W - pushed) \in Int /\ Held \in Int
    BY <1>1, <1>2 DEF TypeOK
  <2>2. QED
    BY <1>1, <1>2, <1>3, <2>1 DEF PushInProgress
<1>11. PopInProgress'
  BY <1>1 DEF PopInProgress
<1>12. QED
  BY <1>7, <1>8, <1>9, <1>10, <1>11

LEMMA StepInv == Inv /\ [Next]_vars => Inv'
<1> SUFFICES ASSUME Inv, [Next]_vars PROVE Inv'
  OBVIOUS
<1>1. CASE Producer
  BY <1>1, PushWordInv, PushWriteInv, PushAdvanceInv DEF Producer
<1>2. CASE Consumer
  BY <1>2, PopWordInv, PopReadInv, PopAdvanceInv DEF Consumer
<1>3. CASE UNCHANGED vars
  BY <1>3 DEF vars, queue, producer, consumer, Inv, TypeOK, NothingLost, NoPanic,
     ReceivedInOrder, PushInProgress, PopInProgress, Sent, Taken, Held
<1>4. QED
  BY <1>1, <1>2, <1>3 DEF Next

\* Every reachable state of the queue satisfies the
\* inductive invariant, whichever side is the interrupt handler.
THEOREM InvHolds == Spec => []Inv
<1>1. Inv /\ [Next]_vars => Inv'
  BY StepInv
<1>2. QED
  BY InitInv, <1>1, PTL DEF Spec

\* The queue holds exactly the bytes sent and not yet taken, in order
\* ("single mutator of head, single mutator of tail = lock free").
THEOREM NothingLostHolds == Spec => []NothingLost
<1>1. Inv => NothingLost
  BY DEF Inv
<1>2. QED
  BY <1>1, InvHolds, PTL

\* No push that passed the space test fails, and the client sees 0, 1, 2, ...
THEOREM NoPanicHolds == Spec => []NoPanic
<1>1. Inv => NoPanic
  BY DEF Inv
<1>2. QED
  BY <1>1, InvHolds, PTL
-----------------------------------------------------------------------------
(* The queue implements the bounded FIFO of BoundedFifo. *)

\* Contents is a sequence of Held bytes; position j is j - 1 slots after tail.
LEMMA ContentsIsSeq ==
  ASSUME TypeOK
  PROVE  /\ Contents \in Seq(Bytes) /\ Len(Contents) = Held
         /\ Held \in 0 .. N-1
         /\ \A j \in 1 .. Held : Contents[j] = c_buf[(tail + j - 1) % N]
<1>1. head \in 0 .. N-1 /\ tail \in 0 .. N-1 /\ c_buf \in [0 .. N-1 -> Bytes]
  BY DEF TypeOK
<1>2. Held \in 0 .. N-1
  BY <1>1, NelemIsHeld
<1>3. ASSUME NEW j \in 1 .. Held PROVE c_buf[(tail + j - 1) % N] \in Bytes
  <2>1. j - 1 \in 0 .. N-1 /\ tail + j - 1 = tail + (j - 1)
    BY <1>1, <1>2, SizeAssumption
  <2>2. (tail + (j - 1)) % N \in 0 .. N-1
    BY <1>1, <2>1, SlotAt, SizeAssumption
  <2>3. QED
    BY <1>1, <2>1, <2>2
<1>4. Contents \in [1 .. Held -> Bytes]
  BY <1>3 DEF Contents
<1>5. Held \in Nat
  BY <1>2, SizeAssumption
<1>6. Contents \in Seq(Bytes)
  BY <1>4, <1>5
<1>7. Len(Contents) = Held
  BY <1>5, <1>6 DEF Contents
<1>8. QED
  BY <1>2, <1>6, <1>7 DEF Contents

\* Nothing the contents are made of changes.
LEMMA ContentsUnchanged ==
  UNCHANGED <<c_buf, head, tail>> => UNCHANGED Contents
BY DEF Contents, Held

\* The store is outside the region, so it does not show.
LEMMA PushWriteStutters == Inv /\ PushWrite => UNCHANGED Contents
<1> SUFFICES ASSUME Inv, PushWrite PROVE Contents' = Contents
  OBVIOUS
<1>1. TypeOK /\ TypeOK'
  BY PushWriteInv DEF Inv
<1>2. head' = head /\ tail' = tail /\ Held' = Held
  BY DEF PushWrite, Held
<1>3. head \in 0 .. N-1 /\ tail \in 0 .. N-1 /\ Held \in 0 .. N-1 /\ c_buf \in [0 .. N-1 -> Bytes]
  BY <1>1, ContentsIsSeq DEF TypeOK
<1>4. ASSUME NEW j \in 1 .. Held
      PROVE  c_buf'[(tail + j - 1) % N] = c_buf[(tail + j - 1) % N]
  <2>1. j - 1 \in 0 .. N-1 /\ tail + j - 1 = tail + (j - 1) /\ j - 1 < Held
    BY <1>3, SizeAssumption
  <2>2. (tail + (j - 1)) % N
           = IF tail + (j - 1) < N THEN tail + (j - 1) ELSE tail + (j - 1) - N
    BY <1>3, <2>1, SlotAt
  <2>3. (tail + (j - 1)) % N # head
    BY <1>3, <2>1, <2>2, SizeAssumption DEF Held
  <2>4. c_buf' = c_buf \/ c_buf' = [c_buf EXCEPT ![head] = Byte(push_success * W + pushed)]
    BY DEF PushWrite
  <2>5. (tail + (j - 1)) % N \in 0 .. N-1
    BY <1>3, <2>1, SlotAt, SizeAssumption
  <2>6. QED
    BY <1>3, <2>1, <2>3, <2>4, <2>5
<1>5. QED
  BY <1>2, <1>4 DEF Contents

\* Publishing a slot puts its byte at the back.
LEMMA PushAdvanceIsPut ==
  Inv /\ PushAdvance => \E e \in Bytes : Fifo!Put(e)
<1> SUFFICES ASSUME Inv, PushAdvance PROVE \E e \in Bytes : Fifo!Put(e)
  OBVIOUS
<1>1. TypeOK /\ TypeOK'
  BY PushAdvanceInv DEF Inv
<1>2. /\ head \in 0 .. N-1 /\ tail \in 0 .. N-1 /\ c_buf \in [0 .. N-1 -> Bytes]
      /\ Held \in 0 .. N-1 /\ pushed \in 0 .. W-1 /\ N \in Nat \ {0}
  BY <1>1, ContentsIsSeq, SizeAssumption DEF TypeOK
<1>3. Held <= N - 2
  BY <1>2, SizeAssumption DEF Inv, PushInProgress, PushAdvance
<1>4. head' = (head + 1) % N /\ tail' = tail /\ c_buf' = c_buf
  BY DEF PushAdvance
<1>5. Held' = Held + 1
  BY <1>2, <1>3, <1>4, NextSlot DEF Held
<1>6. PICK e \in Bytes : e = c_buf[head]
  BY <1>2
<1>7. /\ Contents \in Seq(Bytes) /\ Len(Contents) = Held
      /\ \A j \in 1 .. Held : Contents[j] = c_buf[(tail + j - 1) % N]
  BY <1>1, ContentsIsSeq
<1>8. /\ Append(Contents, e) \in Seq(Bytes) /\ Len(Append(Contents, e)) = Held + 1
      /\ \A j \in 1 .. Held : Append(Contents, e)[j] = Contents[j]
      /\ Append(Contents, e)[Held + 1] = e
  BY <1>7
<1>9. /\ Contents' \in Seq(Bytes) /\ Len(Contents') = Held + 1
      /\ \A j \in 1 .. Held + 1 : Contents'[j] = c_buf[(tail + j - 1) % N]
  <2>1. Contents' = [j \in 1 .. Held + 1 |-> c_buf[(tail + j - 1) % N]]
    BY <1>4, <1>5 DEF Contents
  <2>2. ASSUME NEW j \in 1 .. Held + 1 PROVE c_buf[(tail + j - 1) % N] \in Bytes
    <3>1. j - 1 \in 0 .. N-1 /\ tail + j - 1 = tail + (j - 1)
      BY <1>2, <1>3
    <3>2. (tail + (j - 1)) % N \in 0 .. N-1
      BY <1>2, <3>1, SlotAt
    <3>3. QED
      BY <1>2, <3>1, <3>2
  <2>3. Held + 1 \in Nat
    BY <1>2
  <2>4. Contents' \in Seq(Bytes)
    BY <2>1, <2>2, <2>3
  <2>5. QED
    BY <2>1, <2>3, <2>4
<1>10. (tail + (Held + 1) - 1) % N = head
  <2>1. tail + (Held + 1) - 1 = tail + Held
    BY <1>2
  <2>2. (tail + Held) % N = IF tail + Held < N THEN tail + Held ELSE tail + Held - N
    BY <1>2, SlotAt
  <2>3. QED
    BY <1>2, <2>1, <2>2 DEF Held
<1>11. ASSUME NEW j \in 1 .. Held + 1 PROVE Contents'[j] = Append(Contents, e)[j]
  <2>1. CASE j = Held + 1
    BY <1>6, <1>8, <1>9, <1>10, <2>1
  <2>2. CASE j \in 1 .. Held
    BY <1>7, <1>8, <1>9, <2>2
  <2>3. j = Held + 1 \/ j \in 1 .. Held
    <3>1. Held \in Int /\ j \in Int /\ 1 <= j /\ j <= Held + 1
      BY <1>2
    <3>2. QED
      BY <3>1
  <2>4. QED
    BY <2>1, <2>2, <2>3
<1>12. Contents' = Append(Contents, e)
  BY <1>2, <1>8, <1>9, <1>11
<1>13. Len(Contents) < N - 1
  BY <1>2, <1>3, <1>7
<1>14. QED
  BY <1>12, <1>13 DEF Fifo!Put

\* Releasing a slot takes the byte at the front.
LEMMA PopAdvanceIsGet == Inv /\ PopAdvance => Fifo!Get
<1> SUFFICES ASSUME Inv, PopAdvance PROVE Fifo!Get
  OBVIOUS
<1>1. TypeOK /\ TypeOK'
  BY PopAdvanceInv DEF Inv
<1>2. /\ head \in 0 .. N-1 /\ tail \in 0 .. N-1 /\ c_buf \in [0 .. N-1 -> Bytes]
      /\ Held \in 0 .. N-1 /\ N \in Nat \ {0}
  BY <1>1, ContentsIsSeq, SizeAssumption DEF TypeOK
<1>3. Held > 0
  BY DEF Inv, PopInProgress, PopAdvance
<1>4. tail' = (tail + 1) % N /\ head' = head /\ c_buf' = c_buf
  BY DEF PopAdvance
<1>5. tail' = (IF tail + 1 = N THEN 0 ELSE tail + 1) /\ tail' \in 0 .. N-1
  BY <1>2, <1>4, NextSlot
<1>6. Held' = Held - 1
  BY <1>2, <1>3, <1>4, <1>5 DEF Held
<1>7. /\ Contents \in Seq(Bytes) /\ Len(Contents) = Held
      /\ \A j \in 1 .. Held : Contents[j] = c_buf[(tail + j - 1) % N]
  BY <1>1, ContentsIsSeq
<1>8. Contents # << >>
  BY <1>2, <1>3, <1>7
<1>9. /\ Tail(Contents) \in Seq(Bytes) /\ Len(Tail(Contents)) = Held - 1
      /\ \A j \in 1 .. Held - 1 : Tail(Contents)[j] = Contents[j + 1]
  BY <1>2, <1>7, <1>8
<1>10. ASSUME NEW j \in 1 .. Held - 1
       PROVE  /\ (tail' + j - 1) % N = (tail + (j + 1) - 1) % N
              /\ (tail' + j - 1) % N \in 0 .. N-1
  <2>1. j \in 0 .. N-1 /\ j - 1 \in 0 .. N-1
    BY <1>2, <1>3
  <2>2. tail' + j - 1 = tail' + (j - 1) /\ tail + (j + 1) - 1 = tail + j
    BY <1>2, <1>5, <2>1
  <2>3. (tail' + (j - 1)) % N
           = IF tail' + (j - 1) < N THEN tail' + (j - 1) ELSE tail' + (j - 1) - N
    BY <1>5, <2>1, SlotAt
  <2>4. (tail + j) % N = IF tail + j < N THEN tail + j ELSE tail + j - N
    BY <1>2, <2>1, SlotAt
  <2>5. CASE tail + 1 = N
    BY <1>2, <1>5, <2>1, <2>2, <2>3, <2>4, <2>5
  <2>6. CASE tail + 1 # N
    <3>1. tail' = tail + 1
      BY <1>5, <2>6
    <3>2. tail' + (j - 1) = tail + j
      BY <1>2, <2>1, <3>1
    <3>3. QED
      BY <1>2, <2>1, <2>2, <2>3, <2>4, <3>2
  <2>7. QED
    BY <2>5, <2>6
<1>11. /\ Contents' \in Seq(Bytes) /\ Len(Contents') = Held - 1
       /\ \A j \in 1 .. Held - 1 : Contents'[j] = c_buf[(tail' + j - 1) % N]
  <2>1. Contents' = [j \in 1 .. Held - 1 |-> c_buf[(tail' + j - 1) % N]]
    BY <1>4, <1>6 DEF Contents
  <2>2. Held - 1 \in Nat
    BY <1>2, <1>3
  <2>3. Contents' \in Seq(Bytes)
    BY <1>2, <1>10, <2>1, <2>2
  <2>4. QED
    BY <2>1, <2>2, <2>3
<1>12. ASSUME NEW j \in 1 .. Held - 1 PROVE Contents'[j] = Tail(Contents)[j]
  <2>1. j + 1 \in 1 .. Held
    BY <1>2
  <2>2. QED
    BY <1>7, <1>9, <1>10, <1>11, <2>1
<1>13. Contents' = Tail(Contents)
  BY <1>2, <1>9, <1>11, <1>12
<1>14. QED
  BY <1>8, <1>13 DEF Fifo!Get

\* At its two publishing steps the queue is the FIFO's Put and Get; a store,
\* a load and the start of a call do not show.
THEOREM ImplementsFifoHolds == Spec => ImplementsFifo
<1>1. Init => Fifo!Init
  <2> SUFFICES ASSUME Init PROVE Contents = << >>
    BY DEF Fifo!Init
  <2>2. TypeOK
    BY InitInv DEF Inv
  <2>3. Held = 0
    BY DEF Init, Held
  <2>4. Contents \in Seq(Bytes) /\ Len(Contents) = 0
    BY <2>2, <2>3, ContentsIsSeq
  <2>5. QED
    BY <2>4
<1>2. Inv /\ [Next]_vars => [Fifo!Next]_Contents
  <2> SUFFICES ASSUME Inv, [Next]_vars PROVE Fifo!Next \/ UNCHANGED Contents
    OBVIOUS
  <2>1. CASE PushAdvance
    BY <2>1, PushAdvanceIsPut DEF Fifo!Next
  <2>2. CASE PopAdvance
    BY <2>2, PopAdvanceIsGet DEF Fifo!Next
  <2>3. CASE PushWrite
    BY <2>3, PushWriteStutters
  <2>4. CASE PushWord \/ PopWord \/ PopWordNoblk \/ PopRead \/ UNCHANGED vars
    BY <2>4, ContentsUnchanged DEF PushWord, PopWord, PopWordNoblk, PopRead, vars, queue
  <2>5. QED
    BY <2>1, <2>2, <2>3, <2>4 DEF Next, Producer, Consumer
<1>3. QED
  BY <1>1, <1>2, InvHolds, PTL DEF Spec, ImplementsFifo, Fifo!Spec
=============================================================================
