---------------------------- MODULE BoundedFifo ----------------------------
(***************************************************************************)
(* What libpi/libc/circular.h promises its two users: a first-in first-out *)
(* channel of at most Capacity elements.  An element enters at the back,   *)
(* leaves at the front, and is never changed in between.                   *)
(***************************************************************************)
EXTENDS Naturals, Sequences

CONSTANTS Elements, Capacity

VARIABLE q

Init == q = << >>

Put(e) == /\ Len(q) < Capacity
          /\ q' = Append(q, e)

Get == /\ q # << >>
       /\ q' = Tail(q)

Next == (\E e \in Elements : Put(e)) \/ Get

Spec == Init /\ [][Next]_q
=============================================================================
