---------------------------- MODULE CircularPeek ----------------------------
(***************************************************************************)
(* libpi/libc/circular.h: cq_peek_n on top of the queue.  It pops n        *)
(* elements in the usual way and then puts the tail back to where it was.  *)
(***************************************************************************)
EXTENDS CircularQueue

VARIABLE peek   \* cq_peek_n's locals while it runs: [on, tail, sz]

peekVars == <<vars, peek>>
NoPeek   == [on |-> FALSE, tail |-> 0, sz |-> 0]

PeekInit == Init /\ peek = NoPeek

\* cq_peek_n: note the size and the tail, then pop n elements.
PeekWord ==
  /\ ConsumerRuns
  /\ cpc = "idle"
  /\ cq_nelem >= W
  /\ peek' = [on |-> TRUE, tail |-> tail, sz |-> cq_nelem]
  /\ cpc' = "read"
  /\ UNCHANGED <<queue, producer, recv, i, fault>>

\* The last pop of cq_peek_n.
PeekAdvance ==
  /\ ConsumerRuns
  /\ cpc = "advance" /\ peek.on /\ Len(recv) = W
  /\ tail' = (tail + 1) % N
  /\ cpc' = "restore"
  /\ UNCHANGED <<c_buf, head, producer, recv, i, peek, fault>>

\* cq_peek_n: put the saved tail back.
PeekRestore ==
  /\ ConsumerRuns
  /\ cpc = "restore"
  /\ tail' = peek.tail
  /\ recv' = << >>
  /\ cpc' = "check"
  /\ UNCHANGED <<c_buf, head, producer, i, peek, fault>>

\* cq_peek_n: assert(sz == cq_nelem(c)).
PeekCheck ==
  /\ ConsumerRuns
  /\ cpc = "check"
  /\ fault' = IF peek.sz = cq_nelem THEN "none" ELSE "peek"
  /\ cpc' = "idle"
  /\ peek' = NoPeek
  /\ UNCHANGED <<queue, producer, recv, i>>

PeekNext ==
  \/ (peek.on => Len(recv) < W \/ cpc # "advance") /\ Next /\ UNCHANGED peek
  \/ PeekWord \/ PeekAdvance \/ PeekRestore \/ PeekCheck

PeekSpec == PeekInit /\ [][PeekNext]_peekVars

\* Peeking is non-destructive (circular.h:141): the words popped afterwards
\* are still the ones pushed.
PeekIsNonDestructive == fault # "pop"
=============================================================================
