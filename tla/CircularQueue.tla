--------------------------- MODULE CircularQueue ---------------------------
(***************************************************************************)
(* libpi/libc/circular.h: the lock-free queue between an interrupt handler *)
(* and the client code it interrupts, driven as in                         *)
(* labs/3-ir/0-circular-example/1-circular-example32.c: one side pushes    *)
(* the words 0, 1, 2, ... byte by byte (cq_push32), the other pops words   *)
(* (cq_pop32, cq_pop32_noblk) and panics if they are not 0, 1, 2, ...      *)
(*                                                                         *)
(* A step is what the C code does between two reads or writes of memory    *)
(* the other side also uses.  Handler names the side that is the interrupt *)
(* handler: it runs to completion, so the other side steps only while it   *)
(* is idle.  "none" lets both sides be preempted (two threads on one core).*)
(***************************************************************************)
EXTENDS Integers, Sequences

CONSTANTS
  N,        \* CQ_N, the number of slots
  M,        \* 2^32: the modulus of the unsigned head and tail arithmetic
  W,        \* bytes of a word: sizeof(uint32_t)
  MaxPush,  \* max_push: words the example pushes
  Handler   \* which side is the interrupt handler

\* circular.h:46 sizes the queue 8192, a power of two, so N divides 2^32;
\* head - tail wraps below zero modulo M before it is reduced modulo N.
ASSUME SizeAssumption ==
  /\ N \in Nat \ {0}
  /\ M \in Nat \ {0} /\ \E k \in 1 .. M : M = k * N
  /\ W \in Nat \ {0}
  /\ MaxPush \in Nat

ASSUME ModeAssumption == Handler \in {"producer", "consumer", "none"}

VARIABLES
  c_buf, head, tail,   \* cq_t
  ppc,                 \* where the pushing side is: idle, write, advance
  pushed,              \* bytes of the current word already in the queue
  push_success,        \* words pushed: the value of the next word
  cpc,                 \* where the popping side is: idle, read, advance
  recv,                \* bytes taken by the call in progress
  i,                   \* words popped: the value the client expects next
  fault                \* the panic or assert that stopped the program

queue    == <<c_buf, head, tail>>
producer == <<ppc, pushed, push_success>>
consumer == <<cpc, recv, i>>
vars     == <<queue, producer, consumer, fault>>

\* Byte number p of the stream: byte p % W of word p \div W.
Byte(p) == <<p \div W, p % W>>
Zero    == <<0, 0>>
Bytes   == (0 .. MaxPush) \X (0 .. W-1)

-----------------------------------------------------------------------------
\* Mutant: a single element counts as none.
cq_emptyOffByOne == (tail + 1) % N = head \/ head = tail

cq_empty  == head = tail
cq_full   == (head + 1) % N = tail
cq_nelem  == ((head - tail) % M) % N
cq_nspace == (N - 1) - cq_nelem

ProducerRuns == fault = "none" /\ (Handler = "consumer" => cpc = "idle")
ConsumerRuns == fault = "none" /\ (Handler = "producer" => ppc = "idle")

\* cq_init: memset, then head = tail = 0.
Init ==
  /\ c_buf = [s \in 0 .. N-1 |-> Zero]
  /\ head = 0 /\ tail = 0
  /\ ppc = "idle" /\ pushed = 0 /\ push_success = 0
  /\ cpc = "idle" /\ recv = << >> /\ i = 0
  /\ fault = "none"

-----------------------------------------------------------------------------
(* The pushing side. *)

\* Mutant: cq_push_n without its test of cq_nspace.
PushWordUnchecked ==
  /\ ProducerRuns
  /\ ppc = "idle"
  /\ push_success < MaxPush
  /\ ppc' = "write"
  /\ UNCHANGED <<queue, pushed, push_success, consumer, fault>>

\* cq_push32 -> cq_push_n: all W bytes fit, or nothing is pushed (the
\* example only counts the failure and tries again at the next interrupt).
PushWord ==
  /\ ProducerRuns
  /\ ppc = "idle"
  /\ push_success < MaxPush
  /\ cq_nspace >= W
  /\ ppc' = "write"
  /\ UNCHANGED <<queue, pushed, push_success, consumer, fault>>

\* Mutant: the slot is published first (step 2 before step 1).
PushWritePublishFirst ==
  /\ ProducerRuns
  /\ ppc = "write"
  /\ head' = (head + 1) % N
  /\ ppc' = "advance"
  /\ UNCHANGED <<c_buf, tail, pushed, push_success, consumer, fault>>

\* cq_push, step 1: the full test, the assert on cq_nspace, the store.
PushWrite ==
  /\ ProducerRuns
  /\ ppc = "write"
  /\ IF cq_full \/ cq_nspace <= 0
     THEN /\ fault' = "push"
          /\ UNCHANGED <<c_buf, ppc>>
     ELSE /\ c_buf' = [c_buf EXCEPT ![head] = Byte(push_success * W + pushed)]
          /\ ppc' = "advance"
          /\ UNCHANGED fault
  /\ UNCHANGED <<head, tail, pushed, push_success, consumer>>

\* cq_push, step 2: publish the slot; after the last byte the word counts.
PushAdvance ==
  /\ ProducerRuns
  /\ ppc = "advance"
  /\ head' = (head + 1) % N
  /\ IF pushed + 1 = W
     THEN /\ ppc' = "idle" /\ pushed' = 0
          /\ push_success' = push_success + 1
     ELSE /\ ppc' = "write" /\ pushed' = pushed + 1
          /\ UNCHANGED push_success
  /\ UNCHANGED <<c_buf, tail, consumer, fault>>

-----------------------------------------------------------------------------
(* The popping side. *)

\* cq_pop32 -> cq_pop_n: blocking, so never called by a handler.
PopWord ==
  /\ ConsumerRuns
  /\ Handler # "consumer"
  /\ cpc = "idle" /\ i < MaxPush
  /\ cpc' = "read"
  /\ UNCHANGED <<queue, producer, recv, i, fault>>

\* cq_pop32_noblk -> cq_pop_n_noblk: only if a whole word is there.
PopWordNoblk ==
  /\ ConsumerRuns
  /\ cpc = "idle" /\ i < MaxPush
  /\ cq_nelem >= W
  /\ cpc' = "read"
  /\ UNCHANGED <<queue, producer, recv, i, fault>>

\* cq_pop_nonblock, step 1: the empty test and the load (cq_pop spins on it).
PopRead ==
  /\ ConsumerRuns
  /\ cpc = "read"
  /\ ~cq_empty
  /\ recv' = Append(recv, c_buf[tail])
  /\ cpc' = "advance"
  /\ UNCHANGED <<queue, producer, i, fault>>

\* Mutant: the tail wraps one slot early.
PopAdvanceWrapsEarly ==
  /\ ConsumerRuns
  /\ cpc = "advance"
  /\ tail' = (tail + 1) % (N - 1)
  /\ IF Len(recv) < W
     THEN cpc' = "read" /\ UNCHANGED <<recv, i>>
     ELSE cpc' = "idle" /\ recv' = << >> /\ i' = i + 1
  /\ UNCHANGED <<c_buf, head, producer, fault>>

\* cq_pop_nonblock, step 2: release the slot.  The last byte of a popped
\* word completes the call, and the client compares the word with i.
PopAdvance ==
  /\ ConsumerRuns
  /\ cpc = "advance"
  /\ tail' = (tail + 1) % N
  /\ \/ /\ Len(recv) < W
        /\ cpc' = "read"
        /\ UNCHANGED <<recv, i, fault>>
     \/ /\ Len(recv) = W
        /\ cpc' = "idle" /\ recv' = << >> /\ i' = i + 1
        /\ fault' = IF \A k \in 1..W : recv[k] = <<i, k - 1>>
                    THEN "none" ELSE "pop"
  /\ UNCHANGED <<c_buf, head, producer>>

Producer == PushWord \/ PushWrite \/ PushAdvance
Consumer == PopWord \/ PopWordNoblk \/ PopRead \/ PopAdvance
Next == Producer \/ Consumer

Spec == Init /\ [][Next]_vars

\* The timer keeps interrupting, a started handler runs on, and interrupts
\* are further apart than a handler is long, so the client keeps advancing.
FairSpec == Spec /\ WF_vars(Producer) /\ SF_vars(Consumer)

-----------------------------------------------------------------------------
(* Properties. *)

\* Every variable has the type of its C declaration, indices within c_buf.
TypeOK ==
  /\ c_buf \in [0 .. N-1 -> Bytes]
  /\ head \in 0 .. N-1 /\ tail \in 0 .. N-1
  /\ ppc \in {"idle", "write", "advance"}
  /\ pushed \in 0 .. W-1
  /\ push_success \in 0 .. MaxPush
  /\ cpc \in {"idle", "read", "advance"}
  /\ recv \in Seq(Bytes) /\ Len(recv) <= W
  /\ i \in 0 .. MaxPush
  /\ fault \in {"none", "push", "pop"}

\* Bytes that have entered the queue and bytes that have left it.
Sent  == push_success * W + pushed
Taken == i * W + Len(recv) - (IF cpc = "advance" THEN 1 ELSE 0)

\* Bytes between tail and head, counted without the unsigned wrap-around.
Held == IF head >= tail THEN head - tail ELSE head - tail + N

\* The queue holds exactly the bytes sent and not yet taken, in order: no
\* interleaving of cq_push and cq_pop loses, duplicates or reorders one.
NothingLost ==
  /\ Sent = Taken + Held
  /\ \A j \in 0 .. N-1 : j < Held => c_buf[(tail + j) % N] = Byte(Taken + j)

\* No panic or assert of circular.h or of the client fires: a push that
\* passed the space test finds space for every byte, popped words are in order.
NoPanic == fault = "none"

\* The strengthening of NothingLost and NoPanic that every step preserves.
ReceivedInOrder == \A k \in 1 .. Len(recv) : recv[k] = Byte(i * W + k - 1)
PushInProgress  ==
  /\ ppc = "idle" => pushed = 0
  /\ ppc # "idle" => push_success < MaxPush /\ Held + (W - pushed) <= N - 1
  /\ ppc = "advance" => c_buf[head] = Byte(Sent)
PopInProgress   ==
  /\ cpc = "idle" => recv = << >>
  /\ cpc # "idle" => i < MaxPush
  /\ cpc = "read" => Len(recv) < W
  /\ cpc = "advance" => recv # << >> /\ Held > 0
Inv == /\ TypeOK
       /\ NothingLost
       /\ NoPanic
       /\ ReceivedInOrder
       /\ PushInProgress
       /\ PopInProgress

\* Every word the handler pushes reaches the client.
AllDelivered == <>(i = MaxPush)

\* The queue is a bounded FIFO: PushAdvance is its Put, PopAdvance its Get.
Contents == [j \in 1 .. Held |-> c_buf[(tail + j - 1) % N]]
Fifo == INSTANCE BoundedFifo WITH
          Elements <- Bytes, Capacity <- N - 1, q <- Contents
ImplementsFifo == Fifo!Spec
=============================================================================
