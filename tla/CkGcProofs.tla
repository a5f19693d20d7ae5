------------------------------ MODULE CkGcProofs ------------------------------
(***************************************************************************)
(* Proofs about KrMalloc and CkGc, with and without the quarantine, for a  *)
(* heap, blocks, roots and requests of any number and size: the blocks of  *)
(* kr_malloc tile the heap and ckalloc's count is the length of its list;  *)
(* the collector frees no block that can be reached, leaves none that      *)
(* cannot, and reports exactly those that are lost.                        *)
(*                                                                         *)
(* The argument goes from the memory up.  The free list is a ring through  *)
(* a set of addresses, in their order, so that kr_free's walk ends at the  *)
(* one place where a block belongs, from wherever it starts.  The blocks   *)
(* in use are those of two lists, of which one is counted.  On top of that,*)
(* marks: what is marked is never more than what is reachable, and what is *)
(* marked and not still to be looked at leads to nothing that is not       *)
(* marked.  Both are smallest closed sets in the end, hence the same.      *)
(***************************************************************************)
EXTENDS CkGc, FiniteSetTheorems, SequenceTheorems, WellFoundedInduction, TLAPS

-----------------------------------------------------------------------------
(* Induction, and the existence of functions defined by recursion. *)

\* A set of naturals that is not empty has a least element.
LEMMA Least ==
  ASSUME NEW T, T \subseteq Nat, T # {}
  PROVE  \E n \in T : \A m \in T : n <= m
<1>1. PICK R : R = OpToRel(<, Nat)
  OBVIOUS
<1>2. R = {p \in Nat \X Nat : p[1] < p[2]}
  BY <1>1 DEF OpToRel
<1>3. IsWellFoundedOn(R, Nat)
  BY <1>1, NatLessThanWellFounded
<1>4. PICK n \in T : \A m \in T : ~ (<<m, n>> \in R)
  BY <1>3, WFMin
<1>5. ASSUME NEW m \in T PROVE n <= m
  <2>1. n \in Nat /\ m \in Nat
    BY <1>5
  <2>2. m < n => <<m, n>> \in R
    BY <1>2, <2>1
  <2>3. QED
    BY <1>4, <1>5, <2>1, <2>2
<1>6. QED
  BY <1>4, <1>5

\* From 0 on, up to n.
LEMMA InductTo ==
  ASSUME NEW n \in Nat, NEW S, 0 \in S, \A k \in 0 .. n - 1 : k \in S => k + 1 \in S
  PROVE  0 .. n \subseteq S
<1> SUFFICES ASSUME {k \in 0 .. n : k \notin S} # {} PROVE FALSE
  OBVIOUS
<1>1. PICK k \in 0 .. n : k \notin S /\ \A m \in 0 .. n : m \notin S => k <= m
  <2>1. {k \in 0 .. n : k \notin S} \subseteq Nat
    OBVIOUS
  <2>2. QED
    BY <2>1, Least
<1>2. k # 0 /\ k - 1 \in 0 .. n - 1 /\ k - 1 \in S
  BY <1>1
<1>3. (k - 1) + 1 = k
  BY <1>1
<1>4. QED
  BY <1>1, <1>2, <1>3

Rule(G, n, D)         == G \in [0 .. n - 1 -> [D -> D]]
Solves(g, c, G, n, D) ==
  g \in [0 .. n -> D] /\ g[0] = c /\ \A k \in 0 .. n - 1 : g[k+1] = G[k][g[k]]

\* A function that each of its values determines the next one of exists.
LEMMA Recursion ==
  ASSUME NEW n \in Nat, NEW D, NEW c \in D, NEW G, Rule(G, n, D)
  PROVE  \E g : Solves(g, c, G, n, D)
<1>1. PICK S : S = {i \in 0 .. n : \E g \in [0 .. i -> D] :
                      g[0] = c /\ \A k \in 0 .. i - 1 : g[k+1] = G[k][g[k]]}
  OBVIOUS
<1>2. 0 \in S
  <2>1. PICK g : g = [k \in 0 .. 0 |-> c]
    OBVIOUS
  <2>2. g \in [0 .. 0 -> D] /\ g[0] = c
    BY <2>1
  <2>3. QED
    BY <1>1, <2>2
<1>3. ASSUME NEW i \in 0 .. n - 1, i \in S PROVE i + 1 \in S
  <2>1. PICK g \in [0 .. i -> D] : g[0] = c /\ \A k \in 0 .. i - 1 : g[k+1] = G[k][g[k]]
    BY <1>1, <1>3
  <2>2. PICK d \in D : d = G[i][g[i]]
    <3>1. G[i] \in [D -> D] /\ g[i] \in D
      BY <1>3, <2>1 DEF Rule
    <3>2. QED
      BY <3>1
  <2>3. PICK h : h = [k \in 0 .. i + 1 |-> IF k = i + 1 THEN d ELSE g[k]]
    OBVIOUS
  <2>4. h \in [0 .. i + 1 -> D]
    BY <2>1, <2>2, <2>3
  <2>5. h[0] = c /\ h[i+1] = d /\ \A k \in 0 .. i : h[k] = g[k]
    BY <2>1, <2>3
  <2>6. ASSUME NEW k \in 0 .. i PROVE h[k+1] = G[k][h[k]]
    <3>1. CASE k = i
      BY <2>2, <2>5, <3>1
    <3>2. CASE k \in 0 .. i - 1
      <4>1. k + 1 \in 0 .. i
        BY <3>2
      <4>2. QED
        BY <2>1, <2>5, <3>2, <4>1
    <3>3. QED
      BY <2>6, <3>1, <3>2
  <2>7. (i + 1) - 1 = i /\ i + 1 \in 0 .. n
    BY <1>3
  <2>8. QED
    BY <1>1, <2>4, <2>5, <2>6, <2>7
<1>4. n \in S
  <2>1. 0 .. n \subseteq S
    BY <1>2, <1>3, InductTo
  <2>2. QED
    BY <2>1
<1>5. QED
  BY <1>1, <1>4 DEF Solves

-----------------------------------------------------------------------------
(* The memory of kr_malloc.  The free list is a ring through the set F of   *)
(* addresses, base included; U holds the blocks that are in use.            *)

Heap == [ptr : [Addresses -> Addresses], size : [Addresses -> Nat],
         freep : Addresses, brk : 1 .. NUnits + 1]

\* p's successor is the next free block, which it does not touch, or base.
Follows(m, F, p) ==
  \/ m.ptr[p] = 0 /\ \A q \in F : q <= p
  \/ m.ptr[p] > p + m.size[p] /\ \A q \in F : q <= p \/ q >= m.ptr[p]

Ringed(m, F) ==
  /\ F \subseteq Addresses /\ 0 \in F /\ m.freep \in F /\ m.size[0] = 0
  /\ \A p \in F : m.ptr[p] \in F /\ Follows(m, F, p)

\* The blocks B, free or not, are apart and cover what sbrk gave.
Apart(m, B)  == \A b, c \in B : b < c => b + m.size[b] <= c
Inside(m, B) == \A b \in B : b >= 1 /\ m.size[b] >= 1 /\ b + m.size[b] <= m.brk
Covers(m, B) == \A u \in 1 .. m.brk - 1 : \E b \in B : b <= u /\ u < b + m.size[b]

Tiled(m, F, U) ==
  /\ U \subseteq Addresses \ F
  /\ Apart(m, (F \ {0}) \cup U) /\ Inside(m, (F \ {0}) \cup U) /\ Covers(m, (F \ {0}) \cup U)

KrHeap(m, F, U) == m \in Heap /\ Ringed(m, F) /\ Tiled(m, F, U)

\* Ring is the recursive function it is defined by.
LEMMA RingStep ==
  ASSUME NEW m \in Heap
  PROVE  /\ Ring(m) \in [0 .. NUnits -> Addresses]
         /\ Ring(m)[0] = m.freep
         /\ \A k \in 0 .. NUnits - 1 : Ring(m)[k+1] = m.ptr[Ring(m)[k]]
<1>1. NUnits \in Nat /\ m.freep \in Addresses /\ m.ptr \in [Addresses -> Addresses]
  BY KrAssumption DEF Heap
<1>2. PICK G : G = [k \in 0 .. NUnits - 1 |-> m.ptr]
  OBVIOUS
<1>3. PICK g \in [0 .. NUnits -> Addresses] :
        g[0] = m.freep /\ \A k \in 0 .. NUnits - 1 : g[k+1] = G[k][g[k]]
  <2>1. G \in [0 .. NUnits - 1 -> [Addresses -> Addresses]]
    BY <1>1, <1>2
  <2>2. PICK D : D = Addresses
    OBVIOUS
  <2>3. PICK c \in D : c = m.freep
    BY <1>1, <2>2
  <2>4. Rule(G, NUnits, D)
    BY <2>1, <2>2 DEF Rule
  <2>5. \E g : Solves(g, c, G, NUnits, D)
    BY <1>1, <2>4, Recursion
  <2>6. QED
    BY <2>2, <2>3, <2>5 DEF Solves
<1>4. \A k \in 0 .. NUnits - 1 : g[k+1] = m.ptr[g[k]]
  BY <1>2, <1>3
<1>5. g = [k \in 0 .. NUnits |-> IF k = 0 THEN m.freep ELSE m.ptr[g[k-1]]]
  <2>1. ASSUME NEW k \in 0 .. NUnits
        PROVE  g[k] = IF k = 0 THEN m.freep ELSE m.ptr[g[k-1]]
    <3>1. CASE k = 0
      BY <1>3, <3>1
    <3>2. CASE k # 0
      <4>1. k - 1 \in 0 .. NUnits - 1 /\ (k - 1) + 1 = k
        BY <1>1, <3>2
      <4>2. QED
        BY <1>4, <3>2, <4>1
    <3>3. QED
      BY <3>1, <3>2
  <2>2. QED
    BY <2>1
<1>6. PICK r : r = Ring(m)
  OBVIOUS
<1>7. r = [k \in 0 .. NUnits |-> IF k = 0 THEN m.freep ELSE m.ptr[r[k-1]]]
  BY <1>5, <1>6 DEF Ring
<1>8. r[0] = m.freep /\ \A k \in 0 .. NUnits - 1 : r[k+1] = m.ptr[r[k]]
  <2>1. r[0] = m.freep
    BY <1>1, <1>7
  <2>2. ASSUME NEW k \in 0 .. NUnits - 1 PROVE r[k+1] = m.ptr[r[k]]
    <3>1. k + 1 \in 0 .. NUnits /\ k + 1 # 0 /\ (k + 1) - 1 = k
      BY <1>1
    <3>2. QED
      BY <1>7, <3>1
  <2>3. QED
    BY <2>1, <2>2
<1>9. r \in [0 .. NUnits -> Addresses]
  <2>1. PICK S : S = {k \in 0 .. NUnits : r[k] \in Addresses}
    OBVIOUS
  <2>2. 0 \in S
    BY <1>1, <1>8, <2>1
  <2>3. ASSUME NEW k \in 0 .. NUnits - 1, k \in S PROVE k + 1 \in S
    <3>1. k + 1 \in 0 .. NUnits /\ r[k] \in Addresses
      BY <1>1, <2>1, <2>3
    <3>2. r[k+1] \in Addresses
      BY <1>1, <1>8, <3>1
    <3>3. QED
      BY <2>1, <3>1, <3>2
  <2>4. 0 .. NUnits \subseteq S
    BY <1>1, <2>2, <2>3, InductTo
  <2>5. \A k \in 0 .. NUnits : r[k] \in Addresses
    BY <2>1, <2>4
  <2>6. r = [k \in 0 .. NUnits |-> r[k]]
    BY <1>7
  <2>7. QED
    BY <2>5, <2>6
<1>10. QED
  BY <1>6, <1>8, <1>9

\* The ring from freep on meets each free block.
LEMMA RingIs ==
  ASSUME NEW m \in Heap, NEW F, Ringed(m, F)
  PROVE  /\ \A k \in 0 .. NUnits : Ring(m)[k] \in F
         /\ {Ring(m)[k] : k \in 0 .. NUnits} = F
<1>1. PICK r : r = Ring(m)
  OBVIOUS
<1>2. NUnits \in Nat /\ F \subseteq 0 .. NUnits /\ 0 \in F /\ m.freep \in F
  BY KrAssumption DEF Ringed, Addresses
<1>3. r[0] = m.freep /\ \A k \in 0 .. NUnits - 1 : r[k+1] = m.ptr[r[k]]
  BY <1>1, RingStep
<1>4. \A p \in F : m.ptr[p] \in F /\ Follows(m, F, p)
  BY DEF Ringed
<1>5. \A k \in 0 .. NUnits : r[k] \in F
  <2>1. PICK S : S = {k \in 0 .. NUnits : r[k] \in F}
    OBVIOUS
  <2>2. 0 \in S
    BY <1>2, <1>3, <2>1
  <2>3. ASSUME NEW k \in 0 .. NUnits - 1, k \in S PROVE k + 1 \in S
    <3>1. k + 1 \in 0 .. NUnits /\ r[k] \in F
      BY <1>2, <2>1, <2>3
    <3>2. QED
      BY <1>3, <1>4, <2>1, <3>1
  <2>4. 0 .. NUnits \subseteq S
    BY <1>2, <2>2, <2>3, InductTo
  <2>5. QED
    BY <2>1, <2>4
<1>6. PICK W : W = [k \in 0 .. NUnits |-> {r[j] : j \in 0 .. k}]
  OBVIOUS
<1>7. \A k \in 0 .. NUnits - 1 : W[k+1] = W[k] \cup {r[k+1]}
  <2>1. ASSUME NEW k \in 0 .. NUnits - 1
        PROVE  W[k+1] = W[k] \cup {r[k+1]}
    <3>1. k + 1 \in 0 .. NUnits /\ k \in 0 .. NUnits /\ 0 .. k + 1 = (0 .. k) \cup {k + 1}
      BY <1>2
    <3>2. QED
      BY <1>6, <3>1
  <2>2. QED
    BY <2>1
<1>8. PICK f \in 0 .. NUnits : f = m.freep
  BY <1>2
\* Up to the wrap; from it to freep; after that.
<1>9. PICK S : S = {k \in 0 .. NUnits :
          \/ r[k] >= f + k /\ \A q \in F : f <= q /\ q <= r[k] => q \in W[k]
          \/ r[k] >= k - (NUnits - f) - 1 /\ \A q \in F : f <= q \/ q <= r[k] => q \in W[k]
          \/ F \subseteq W[k]}
  OBVIOUS
<1>10. 0 \in S
  <2>1. r[0] \in W[0] /\ r[0] = f
    BY <1>2, <1>3, <1>6, <1>8
  <2>2. ASSUME NEW q \in F, f <= q, q <= r[0] PROVE q \in W[0]
    <3>1. q \in 0 .. NUnits /\ q = f
      BY <1>2, <2>1, <2>2
    <3>2. QED
      BY <2>1, <3>1
  <2>3. QED
    BY <1>2, <1>9, <2>1, <2>2
<1>11. ASSUME NEW k \in 0 .. NUnits - 1, k \in S PROVE k + 1 \in S
  <2>1. k + 1 \in 0 .. NUnits /\ k \in 0 .. NUnits
    BY <1>2
  <2>2. PICK x \in F, y \in F : x = r[k] /\ y = r[k+1]
    BY <1>5, <2>1
  <2>3. y = m.ptr[x] /\ W[k+1] = W[k] \cup {y} /\ x \in 0 .. NUnits /\ y \in 0 .. NUnits
    BY <1>2, <1>3, <1>7, <2>2
  <2>4. \/ y = 0 /\ \A q \in F : q <= x
        \/ y > x + m.size[x] /\ \A q \in F : q <= x \/ q >= y
    BY <1>4, <2>2, <2>3 DEF Follows
  <2>5. m.size[x] \in Nat
    BY <2>3 DEF Heap, Addresses
  <2>6. \/ x >= f + k /\ \A q \in F : f <= q /\ q <= x => q \in W[k]
        \/ x >= k - (NUnits - f) - 1 /\ \A q \in F : f <= q \/ q <= x => q \in W[k]
        \/ F \subseteq W[k]
    BY <1>9, <1>11, <2>2
  <2>7. CASE x >= f + k /\ \A q \in F : f <= q /\ q <= x => q \in W[k]
    <3>1. CASE y = 0 /\ \A q \in F : q <= x
      <4>1. y >= (k + 1) - (NUnits - f) - 1
        BY <1>2, <2>3, <2>7, <3>1
      <4>2. \A q \in F : f <= q \/ q <= y => q \in W[k+1]
        BY <1>2, <2>3, <2>7, <3>1
      <4>3. QED
        BY <1>9, <2>1, <2>2, <4>1, <4>2
    <3>2. CASE y > x + m.size[x] /\ \A q \in F : q <= x \/ q >= y
      <4>1. y >= f + (k + 1)
        BY <1>2, <2>3, <2>5, <2>7, <3>2
      <4>2. \A q \in F : f <= q /\ q <= y => q \in W[k+1]
        BY <1>2, <2>3, <2>7, <3>2
      <4>3. QED
        BY <1>9, <2>1, <2>2, <4>1, <4>2
    <3>3. QED
      BY <2>4, <3>1, <3>2
  <2>8. CASE x >= k - (NUnits - f) - 1 /\ \A q \in F : f <= q \/ q <= x => q \in W[k]
    <3>1. CASE y = 0 /\ \A q \in F : q <= x
      <4>1. F \subseteq W[k+1]
        BY <2>3, <2>8, <3>1
      <4>2. QED
        BY <1>9, <2>1, <4>1
    <3>2. CASE y > x + m.size[x] /\ \A q \in F : q <= x \/ q >= y
      <4>1. y >= (k + 1) - (NUnits - f) - 1
        BY <1>2, <2>3, <2>5, <2>8, <3>2
      <4>2. \A q \in F : f <= q \/ q <= y => q \in W[k+1]
        BY <1>2, <2>3, <2>8, <3>2
      <4>3. QED
        BY <1>9, <2>1, <2>2, <4>1, <4>2
    <3>3. QED
      BY <2>4, <3>1, <3>2
  <2>9. CASE F \subseteq W[k]
    BY <1>9, <2>1, <2>3, <2>9
  <2>10. QED
    BY <2>6, <2>7, <2>8, <2>9
<1>12. F \subseteq W[NUnits]
  <2>1. NUnits \in S
    <3>1. 0 .. NUnits \subseteq S
      BY <1>2, <1>10, <1>11, InductTo
    <3>2. QED
      BY <1>2, <3>1
  <2>2. PICK x \in F : x = r[NUnits]
    <3>1. NUnits \in 0 .. NUnits
      BY <1>2
    <3>2. QED
      BY <1>5, <3>1
  <2>3. x \in 0 .. NUnits
    BY <1>2
  <2>4. CASE x >= f + NUnits /\ \A q \in F : f <= q /\ q <= x => q \in W[NUnits]
    BY <1>2, <2>3, <2>4
  <2>5. CASE x >= NUnits - (NUnits - f) - 1 /\ \A q \in F : f <= q \/ q <= x => q \in W[NUnits]
    BY <1>2, <2>3, <2>5
  <2>6. QED
    BY <1>9, <2>1, <2>2, <2>4, <2>5
<1>13. W[NUnits] = {r[k] : k \in 0 .. NUnits}
  BY <1>2, <1>6
<1>14. QED
  BY <1>1, <1>5, <1>12, <1>13

\* Min of FiniteSetsExt, which is a CHOOSE.
LEMMA MinIs ==
  ASSUME NEW T, T \subseteq Nat, T # {}
  PROVE  Min(T) \in T /\ \A n \in T : Min(T) <= n
BY Least DEF Min

\* Outside X, memory is as it was.
Same(m, r, X) ==
  /\ r.brk = m.brk
  /\ \A a \in Addresses \ X : r.ptr[a] = m.ptr[a] /\ r.size[a] = m.size[a]

\* Where kr_free's loop stops: at the last free block below bp.
Place(m, bp) == Ring(m)[Min({k \in 0 .. NUnits : Belongs(m, Ring(m)[k], bp)})]

\* kr_free's loop ends, between the free neighbours of bp.
LEMMA PlaceIs ==
  ASSUME NEW m \in Heap, NEW F, Ringed(m, F), NEW bp \in Addresses \ F
  PROVE  /\ Place(m, bp) \in F
         /\ Place(m, bp) < bp
         /\ \A q \in F : q <= Place(m, bp) \/ q > bp
<1>1. F \subseteq 0 .. NUnits /\ 0 \in F /\ NUnits \in Nat /\ bp \in 1 .. NUnits
  BY KrAssumption DEF Ringed, Addresses
<1>2. PICK p \in F : p < bp /\ \A q \in F : q <= p \/ q > bp
  <2>1. PICK T : T = {d \in 0 .. NUnits : bp - d \in F}
    OBVIOUS
  <2>2. T \subseteq Nat /\ bp \in T
    BY <1>1, <2>1
  <2>3. PICK d \in T : \A e \in T : d <= e
    BY <2>2, Least
  <2>4. d \in 0 .. NUnits /\ bp - d \in F /\ d # 0
    BY <1>1, <2>1, <2>3
  <2>5. ASSUME NEW q \in F, q > bp - d, q <= bp PROVE FALSE
    <3>1. q \in 0 .. NUnits
      BY <1>1
    <3>2. bp - q \in 0 .. NUnits /\ bp - (bp - q) = q /\ bp - q < d
      BY <1>1, <2>4, <2>5, <3>1
    <3>3. bp - q \in T
      BY <2>1, <2>5, <3>2
    <3>4. d <= bp - q
      BY <2>3, <3>3
    <3>5. QED
      BY <1>1, <2>4, <3>1, <3>2, <3>4
  <2>6. bp - d < bp
    BY <1>1, <2>4
  <2>7. \A q \in F : q <= bp - d \/ q > bp
    BY <1>1, <2>4, <2>5
  <2>8. QED
    BY <2>4, <2>6, <2>7
<1>3. \A q \in F : m.ptr[q] \in F /\ Follows(m, F, q)
  BY DEF Ringed
<1>4. m.size[p] \in Nat
  BY <1>1 DEF Heap, Addresses
<1>5. Belongs(m, p, bp)
  <2>1. m.ptr[p] \in 0 .. NUnits /\ p \in 0 .. NUnits /\ m.ptr[p] \in F
    BY <1>1, <1>3
  <2>2. CASE m.ptr[p] = 0 /\ \A q \in F : q <= p
    BY <1>1, <1>2, <2>1, <2>2 DEF Belongs
  <2>3. CASE m.ptr[p] > p + m.size[p] /\ \A q \in F : q <= p \/ q >= m.ptr[p]
    BY <1>1, <1>2, <1>4, <2>1, <2>3 DEF Belongs
  <2>4. QED
    BY <1>3, <2>2, <2>3 DEF Follows
<1>6. ASSUME NEW x \in F, Belongs(m, x, bp)
      PROVE  x < bp /\ \A q \in F : q <= x \/ q > bp
  <2>1. m.ptr[x] \in 0 .. NUnits /\ x \in 0 .. NUnits /\ m.ptr[x] \in F
    BY <1>1, <1>3
  <2>2. m.size[x] \in Nat
    BY <2>1 DEF Heap, Addresses
  <2>3. CASE m.ptr[x] = 0 /\ \A q \in F : q <= x
    BY <1>1, <1>6, <2>1, <2>3 DEF Belongs
  <2>4. CASE m.ptr[x] > x + m.size[x] /\ \A q \in F : q <= x \/ q >= m.ptr[x]
    <3>1. m.ptr[x] > x
      BY <2>1, <2>2, <2>4
    <3>2. bp > x /\ bp < m.ptr[x]
      BY <1>1, <1>6, <2>1, <3>1 DEF Belongs
    <3>3. QED
      BY <1>1, <2>1, <2>4, <3>2
  <2>5. QED
    BY <1>3, <2>3, <2>4 DEF Follows
<1>7. PICK T : T = {k \in 0 .. NUnits : Belongs(m, Ring(m)[k], bp)}
  OBVIOUS
<1>8. T # {} /\ T \subseteq Nat
  <2>1. PICK k \in 0 .. NUnits : Ring(m)[k] = p
    BY RingIs
  <2>2. k \in T
    BY <1>5, <1>7, <2>1
  <2>3. QED
    BY <1>1, <1>7, <2>2
<1>9. PICK k \in 0 .. NUnits : k = Min(T) /\ Belongs(m, Ring(m)[k], bp)
  <2>1. Min(T) \in T
    BY <1>8, MinIs
  <2>2. QED
    BY <1>7, <2>1
<1>10. PICK x : x = Ring(m)[k]
  OBVIOUS
<1>11. x \in F /\ Belongs(m, x, bp)
  BY <1>9, <1>10, RingIs
<1>12. x = Place(m, bp)
  BY <1>7, <1>9, <1>10 DEF Place
<1>13. QED
  BY <1>6, <1>11, <1>12

-----------------------------------------------------------------------------
(* kr_free. *)

\* What is above the block bp, its upper neighbour joined to it: R is free, V
\* in use, sz the block's size, nx its successor, p the free block below it.
Gap(m, R, V, p, bp, nx, sz) ==
  /\ R \subseteq Addresses \ {bp} /\ V \subseteq Addresses \ (R \cup {bp})
  /\ p \in R /\ 0 \in R /\ nx \in R /\ p < bp
  /\ \/ nx = 0 /\ \A q \in R : q <= p
     \/ nx > bp + sz /\ \A q \in R : q <= p \/ q >= nx
  /\ \A q \in R : q <= p \/ q > bp
  /\ \A q \in R \ {p} : m.ptr[q] \in R /\ Follows(m, R, q)
GapTiled(m, R, V, bp, sz) ==
  /\ sz >= 1 /\ bp + sz <= m.brk
  /\ \A b \in (R \ {0}) \cup V : (b < bp => b + m.size[b] <= bp) /\ (b > bp => bp + sz <= b)
  /\ Apart(m, (R \ {0}) \cup V) /\ Inside(m, (R \ {0}) \cup V)
  /\ \A u \in 1 .. m.brk - 1 : \/ bp <= u /\ u < bp + sz
                              \/ \E b \in (R \ {0}) \cup V : b <= u /\ u < b + m.size[b]

\* The block does not touch its upper neighbour.
LEMMA GapAlone ==
  ASSUME NEW m \in Heap, NEW F, NEW U, KrHeap(m, F, U), NEW bp \in U, NEW p \in F, p < bp,
         \A q \in F : q <= p \/ q > bp, bp + m.size[bp] # m.ptr[p]
  PROVE  Gap(m, F, U \ {bp}, p, bp, m.ptr[p], m.size[bp]) /\ GapTiled(m, F, U \ {bp}, bp, m.size[bp])
<1>1. PICK V, B, up, sz : V = U \ {bp} /\ B = (F \ {0}) \cup U /\ up = m.ptr[p] /\ sz = m.size[bp]
  OBVIOUS
<1>2. /\ F \subseteq 0 .. NUnits /\ U \subseteq (0 .. NUnits) \ F /\ 0 \in F /\ NUnits \in Nat
      /\ m.brk \in 1 .. NUnits + 1 /\ m.size[0] = 0
  BY KrAssumption DEF KrHeap, Ringed, Tiled, Addresses, Heap
<1>3. \A q \in F : m.ptr[q] \in F /\ Follows(m, F, q)
  BY DEF KrHeap, Ringed
<1>4. \A a \in 0 .. NUnits : m.size[a] \in Nat
  BY DEF Heap, Addresses
<1>5. bp \in B /\ bp \notin F /\ bp \in 1 .. NUnits /\ up \in F
  BY <1>1, <1>2, <1>3
<1>6. Apart(m, B) /\ Inside(m, B) /\ Covers(m, B)
  BY <1>1 DEF KrHeap, Tiled
<1>7. (F \ {0}) \cup V = B \ {bp}
  BY <1>1, <1>5
<1>8. sz >= 1 /\ bp + sz <= m.brk
  BY <1>1, <1>5, <1>6 DEF Inside
<1>9. \A b \in B : (b < bp => b + m.size[b] <= bp) /\ (b > bp => bp + sz <= b)
  BY <1>1, <1>5, <1>6 DEF Apart
<1>10. \/ up = 0 /\ \A q \in F : q <= p
       \/ up > bp + sz /\ \A q \in F : q <= p \/ q >= up
  <2>1. CASE up = 0 /\ \A q \in F : q <= p
    BY <2>1
  <2>2. CASE up > p + m.size[p] /\ \A q \in F : q <= p \/ q >= up
    <3>1. up \in 0 .. NUnits /\ p \in 0 .. NUnits /\ m.size[p] \in Nat
      BY <1>2, <1>4, <1>5
    <3>2. up > bp /\ up # 0
      BY <1>2, <1>5, <2>2, <3>1
    <3>3. bp + sz <= up
      BY <1>1, <1>5, <1>9, <3>2
    <3>4. sz \in Nat
      BY <1>1, <1>4, <1>5
    <3>5. QED
      BY <1>1, <1>5, <2>2, <3>1, <3>3, <3>4
  <2>3. QED
    BY <1>1, <1>3, <2>1, <2>2 DEF Follows
<1>11. Gap(m, F, V, p, bp, up, sz)
  <2>1. F \subseteq Addresses \ {bp} /\ V \subseteq Addresses \ (F \cup {bp})
    BY <1>1, <1>2, <1>5 DEF Addresses
  <2>2. QED
    BY <1>2, <1>3, <1>5, <1>10, <2>1 DEF Gap
<1>12. GapTiled(m, F, V, bp, sz)
  <2>1. Apart(m, B \ {bp}) /\ Inside(m, B \ {bp})
    BY <1>6 DEF Apart, Inside
  <2>2. ASSUME NEW u \in 1 .. m.brk - 1
        PROVE  \/ bp <= u /\ u < bp + sz
               \/ \E b \in B \ {bp} : b <= u /\ u < b + m.size[b]
    BY <1>1, <1>6 DEF Covers
  <2>3. QED
    BY <1>7, <1>8, <1>9, <2>1, <2>2 DEF GapTiled
<1>13. QED
  BY <1>1, <1>11, <1>12

\* It does, and takes over the neighbour's units and successor.
LEMMA GapJoined ==
  ASSUME NEW m \in Heap, NEW F, NEW U, KrHeap(m, F, U), NEW bp \in U, NEW p \in F, p < bp,
         \A q \in F : q <= p \/ q > bp, NEW up, up = m.ptr[p], bp + m.size[bp] = up
  PROVE  /\ Gap(m, F \ {up}, U \ {bp}, p, bp, m.ptr[up], m.size[bp] + m.size[up])
         /\ GapTiled(m, F \ {up}, U \ {bp}, bp, m.size[bp] + m.size[up])
         /\ up \in F
<1>1. PICK V, B, R, sz, nx : /\ V = U \ {bp} /\ B = (F \ {0}) \cup U /\ R = F \ {up}
                             /\ sz = m.size[bp] + m.size[up] /\ nx = m.ptr[up]
  OBVIOUS
<1>2. /\ F \subseteq 0 .. NUnits /\ U \subseteq (0 .. NUnits) \ F /\ 0 \in F /\ NUnits \in Nat
      /\ m.brk \in 1 .. NUnits + 1 /\ m.size[0] = 0
  BY KrAssumption DEF KrHeap, Ringed, Tiled, Addresses, Heap
<1>3. \A q \in F : m.ptr[q] \in F /\ Follows(m, F, q)
  BY DEF KrHeap, Ringed
<1>4. \A a \in 0 .. NUnits : m.size[a] \in Nat
  BY DEF Heap, Addresses
<1>5. bp \in B /\ bp \notin F /\ bp \in 1 .. NUnits /\ up \in F /\ p \in 0 .. NUnits
  BY <1>1, <1>2, <1>3
<1>6. Apart(m, B) /\ Inside(m, B) /\ Covers(m, B)
  BY <1>1 DEF KrHeap, Tiled
<1>7. up \in 1 .. NUnits /\ up > bp /\ m.size[bp] >= 1 /\ m.size[bp] \in Nat /\ m.size[up] \in Nat
  <2>1. m.size[bp] >= 1
    BY <1>5, <1>6 DEF Inside
  <2>2. up \in 0 .. NUnits /\ m.size[bp] \in Nat
    BY <1>2, <1>4, <1>5
  <2>3. QED
    BY <1>4, <1>5, <2>1, <2>2
<1>8. up \in B /\ up # p /\ m.size[up] >= 1 /\ up + m.size[up] <= m.brk
  <2>1. up \in B /\ up # p
    BY <1>1, <1>5, <1>7
  <2>2. QED
    BY <1>6, <2>1 DEF Inside
<1>9. (R \ {0}) \cup V = B \ {bp, up}
  BY <1>1, <1>2, <1>5
<1>10. sz \in Nat /\ sz >= 1 /\ bp + sz <= m.brk /\ bp + sz = up + m.size[up]
  BY <1>1, <1>2, <1>5, <1>7, <1>8
<1>11. \A b \in B \ {bp, up} : (b < bp => b + m.size[b] <= bp) /\ (b > bp => bp + sz <= b)
  <2>1. ASSUME NEW b \in B \ {bp, up}, b < bp PROVE b + m.size[b] <= bp
    BY <1>5, <1>6, <2>1 DEF Apart
  <2>2. ASSUME NEW b \in B \ {bp, up}, b > bp PROVE bp + sz <= b
    <3>1. b \in 0 .. NUnits /\ b # up
      BY <1>1, <1>2, <2>2
    <3>2. bp + m.size[bp] <= b
      BY <1>5, <1>6, <2>2 DEF Apart
    <3>3. up < b
      BY <1>7, <3>1, <3>2
    <3>4. up + m.size[up] <= b
      BY <1>6, <1>8, <2>2, <3>3 DEF Apart
    <3>5. QED
      BY <1>10, <3>4
  <2>3. QED
    BY <2>1, <2>2
<1>12. \A q \in F : q <= p \/ q >= up
  <2>1. up # 0
    BY <1>7
  <2>2. QED
    BY <1>3, <2>1 DEF Follows
<1>13. nx \in R /\ \/ nx = 0 /\ \A q \in R : q <= p
                   \/ nx > bp + sz /\ \A q \in R : q <= p \/ q >= nx
  <2>1. nx \in F
    BY <1>1, <1>3, <1>5
  <2>2. CASE nx = 0 /\ \A q \in F : q <= up
    <3>1. ASSUME NEW q \in R PROVE q <= p
      <4>1. q \in 0 .. NUnits /\ q <= up /\ q # up /\ (q <= p \/ q >= up)
        BY <1>1, <1>2, <1>12, <2>2
      <4>2. QED
        BY <1>5, <1>7, <4>1
    <3>2. QED
      BY <1>1, <1>7, <2>1, <2>2, <3>1
  <2>3. CASE nx > up + m.size[up] /\ \A q \in F : q <= up \/ q >= nx
    <3>1. ASSUME NEW q \in R PROVE q <= p \/ q >= nx
      <4>1. q \in 0 .. NUnits /\ q # up /\ (q <= p \/ q >= up) /\ (q <= up \/ q >= nx)
        BY <1>1, <1>2, <1>12, <2>3
      <4>2. QED
        BY <1>5, <1>7, <4>1
    <3>2. nx # up
      BY <1>2, <1>7, <2>1, <2>3
    <3>3. QED
      BY <1>1, <1>10, <2>1, <2>3, <3>1, <3>2
  <2>4. QED
    BY <1>1, <1>3, <1>5, <2>2, <2>3 DEF Follows
<1>14. ASSUME NEW q \in R \ {p} PROVE m.ptr[q] \in R /\ Follows(m, R, q)
  <2>1. q \in 0 .. NUnits /\ q \in F /\ q # up /\ q # p /\ m.ptr[q] \in F /\ m.size[q] \in Nat
    BY <1>1, <1>2, <1>3, <1>4
  <2>2. m.ptr[q] # up
    <3>1. SUFFICES ASSUME m.ptr[q] = up PROVE FALSE
      OBVIOUS
    <3>2. \A x \in F : x <= q \/ x >= up
      BY <1>3, <1>7, <2>1, <3>1 DEF Follows
    <3>3. p <= q \/ p >= up
      BY <3>2
    <3>4. q <= p \/ q >= up
      BY <1>12, <2>1
    <3>5. up > q + m.size[q]
      BY <1>3, <1>7, <2>1, <3>1 DEF Follows
    <3>6. QED
      BY <1>5, <1>7, <2>1, <3>3, <3>4, <3>5
  <2>3. Follows(m, R, q)
    BY <1>1, <1>3, <2>1 DEF Follows
  <2>4. QED
    BY <1>1, <2>1, <2>2, <2>3
<1>15. Gap(m, R, V, p, bp, nx, sz)
  <2>1. R \subseteq Addresses \ {bp} /\ V \subseteq Addresses \ (R \cup {bp})
    BY <1>1, <1>2, <1>5 DEF Addresses
  <2>2. p \in R /\ 0 \in R
    BY <1>1, <1>2, <1>7, <1>8
  <2>3. \A q \in R : q <= p \/ q > bp
    BY <1>1
  <2>4. QED
    BY <1>13, <1>14, <2>1, <2>2, <2>3 DEF Gap
<1>16. GapTiled(m, R, V, bp, sz)
  <2>1. Apart(m, B \ {bp, up}) /\ Inside(m, B \ {bp, up})
    BY <1>6 DEF Apart, Inside
  <2>2. ASSUME NEW u \in 1 .. m.brk - 1
        PROVE  \/ bp <= u /\ u < bp + sz
               \/ \E b \in B \ {bp, up} : b <= u /\ u < b + m.size[b]
    <3>1. PICK b \in B : b <= u /\ u < b + m.size[b]
      BY <1>6 DEF Covers
    <3>2. u \in Int /\ m.brk \in Int
      BY <1>2
    <3>3. CASE b = bp
      BY <1>1, <1>5, <1>7, <3>1, <3>2, <3>3
    <3>4. CASE b = up
      BY <1>5, <1>7, <1>10, <3>1, <3>2, <3>4
    <3>5. QED
      BY <3>1, <3>3, <3>4
  <2>3. QED
    BY <1>9, <1>10, <1>11, <2>1, <2>2 DEF GapTiled
<1>17. QED
  BY <1>1, <1>5, <1>15, <1>16

\* r is m with the block bp put above p on the list.
PutAbove(m, r, R, V, p, bp, nx, sz) ==
  /\ r \in Heap /\ r.brk = m.brk /\ r.freep = p
  /\ \A a \in (R \cup V) \ {p} : r.ptr[a] = m.ptr[a] /\ r.size[a] = m.size[a]
  /\ IF p + m.size[p] = bp
     THEN r.ptr[p] = nx /\ r.size[p] = m.size[p] + sz
     ELSE /\ r.ptr[p] = bp /\ r.size[p] = m.size[p]
          /\ r.ptr[bp] = nx /\ r.size[bp] = sz

\* The block becomes one of the free list.
LEMMA AboveAlone ==
  ASSUME NEW m \in Heap, NEW r, NEW R, NEW V, NEW p, NEW bp \in Addresses, NEW nx, NEW sz \in Nat,
         m.size[0] = 0, Gap(m, R, V, p, bp, nx, sz), GapTiled(m, R, V, bp, sz),
         PutAbove(m, r, R, V, p, bp, nx, sz), p + m.size[p] # bp
  PROVE  KrHeap(r, R \cup {bp}, V)
<1>1. PICK G : G = R \cup {bp}
  OBVIOUS
<1>2. /\ R \subseteq (0 .. NUnits) \ {bp} /\ V \subseteq (0 .. NUnits) \ (R \cup {bp})
      /\ bp \in 0 .. NUnits /\ NUnits \in Nat
      /\ p \in R /\ 0 \in R /\ nx \in R /\ p < bp
  BY KrAssumption DEF Gap, Addresses
<1>3. /\ r \in Heap /\ r.brk = m.brk /\ r.freep = p
      /\ r.ptr[p] = bp /\ r.size[p] = m.size[p] /\ r.ptr[bp] = nx /\ r.size[bp] = sz
      /\ \A a \in (R \cup V) \ {p} : r.ptr[a] = m.ptr[a] /\ r.size[a] = m.size[a]
  BY DEF PutAbove
<1>4. \A q \in R : q <= p \/ q > bp
  BY DEF Gap
<1>5. \A a \in 0 .. NUnits : m.size[a] \in Nat /\ m.ptr[a] \in 0 .. NUnits
  BY DEF Heap, Addresses
<1>6. /\ sz >= 1 /\ bp + sz <= m.brk
      /\ \A b \in (R \ {0}) \cup V : (b < bp => b + m.size[b] <= bp) /\ (b > bp => bp + sz <= b)
  BY DEF GapTiled
<1>7. p \in 0 .. NUnits /\ p + m.size[p] < bp
  <2>1. CASE p = 0
    BY <1>2, <2>1
  <2>2. CASE p # 0
    <3>1. p + m.size[p] <= bp
      BY <1>2, <1>6, <2>2
    <3>2. p \in 0 .. NUnits /\ m.size[p] \in Nat
      BY <1>2, <1>5
    <3>3. QED
      BY <1>2, <3>1, <3>2
  <2>3. QED
    BY <1>2, <2>1, <2>2
<1>8. \A a \in R \cup V : r.size[a] = m.size[a]
  BY <1>3
<1>9. ASSUME NEW q \in G PROVE r.ptr[q] \in G /\ Follows(r, G, q)
  <2>1. CASE q = p
    <3>1. \A x \in G : x <= p \/ x >= bp
      BY <1>1, <1>2, <1>4
    <3>2. QED
      BY <1>1, <1>3, <1>7, <2>1, <3>1 DEF Follows
  <2>2. CASE q = bp
    <3>1. CASE nx = 0 /\ \A x \in R : x <= p
      <4>1. ASSUME NEW x \in G PROVE x <= bp
        <5>1. x \in 0 .. NUnits /\ p \in 0 .. NUnits /\ (x = bp \/ x <= p)
          BY <1>1, <1>2, <3>1
        <5>2. QED
          BY <1>2, <5>1
      <4>2. QED
        BY <1>1, <1>2, <1>3, <2>2, <3>1, <4>1 DEF Follows
    <3>2. CASE nx > bp + sz /\ \A x \in R : x <= p \/ x >= nx
      <4>1. \A x \in G : x <= bp \/ x >= nx
        BY <1>1, <1>2, <3>2
      <4>2. QED
        BY <1>1, <1>2, <1>3, <2>2, <3>2, <4>1 DEF Follows
    <3>3. QED
      BY <3>1, <3>2 DEF Gap
  <2>3. CASE q \in R \ {p}
    <3>1. m.ptr[q] \in R /\ Follows(m, R, q) /\ q \in 0 .. NUnits
      BY <1>2, <2>3 DEF Gap
    <3>2. r.ptr[q] = m.ptr[q] /\ r.size[q] = m.size[q]
      BY <1>3, <2>3
    <3>3. CASE m.ptr[q] = 0 /\ \A x \in R : x <= q
      <4>1. q > bp
        BY <1>2, <1>4, <1>7, <2>3, <3>1, <3>3
      <4>2. \A x \in G : x <= q
        BY <1>1, <1>2, <3>1, <3>3, <4>1
      <4>3. QED
        BY <1>1, <1>2, <3>2, <3>3, <4>2 DEF Follows
    <3>4. CASE m.ptr[q] > q + m.size[q] /\ \A x \in R : x <= q \/ x >= m.ptr[q]
      <4>1. bp <= q \/ bp >= m.ptr[q]
        <5>1. q > bp \/ p >= m.ptr[q]
          BY <1>2, <1>4, <1>5, <1>7, <2>3, <3>1, <3>4
        <5>2. m.ptr[q] \in 0 .. NUnits
          BY <1>2, <3>1
        <5>3. QED
          BY <1>2, <1>7, <3>1, <5>1, <5>2
      <4>2. \A x \in G : x <= q \/ x >= m.ptr[q]
        BY <1>1, <3>4, <4>1
      <4>3. QED
        BY <1>1, <3>1, <3>2, <3>4, <4>2 DEF Follows
    <3>5. QED
      BY <3>1, <3>3, <3>4 DEF Follows
  <2>4. QED
    BY <1>1, <1>9, <2>1, <2>2, <2>3
<1>10. Ringed(r, G)
  BY <1>1, <1>2, <1>3, <1>8, <1>9 DEF Ringed, Addresses
<1>11. PICK B : B = (R \ {0}) \cup V
  OBVIOUS
<1>12. (G \ {0}) \cup V = B \cup {bp} /\ bp # 0 /\ bp \notin B /\ B \subseteq 0 .. NUnits
  BY <1>1, <1>2, <1>11
<1>13. Apart(m, B) /\ Inside(m, B) /\ \A b \in B : r.size[b] = m.size[b]
  BY <1>8, <1>11 DEF GapTiled
<1>14. Apart(r, B \cup {bp})
  <2>1. ASSUME NEW b \in B, NEW c \in B, b < c PROVE b + r.size[b] <= c
    BY <1>13, <2>1 DEF Apart
  <2>2. ASSUME NEW b \in B PROVE (b < bp => b + r.size[b] <= bp) /\ (b > bp => bp + r.size[bp] <= b)
    BY <1>3, <1>6, <1>11, <1>13, <2>2
  <2>3. ~ (bp < bp)
    BY <1>2
  <2>4. QED
    BY <1>2, <1>12, <2>1, <2>2, <2>3 DEF Apart
<1>15. Inside(r, B \cup {bp})
  <2>1. bp >= 1
    BY <1>2, <1>12
  <2>2. QED
    BY <1>3, <1>6, <1>13, <2>1 DEF Inside
<1>16. Covers(r, B \cup {bp})
  <2>1. ASSUME NEW u \in 1 .. r.brk - 1 PROVE \E b \in B \cup {bp} : b <= u /\ u < b + r.size[b]
    <3>1. \/ bp <= u /\ u < bp + sz
          \/ \E b \in B : b <= u /\ u < b + m.size[b]
      BY <1>3, <1>11 DEF GapTiled
    <3>2. QED
      BY <1>3, <1>13, <3>1
  <2>2. QED
    BY <2>1 DEF Covers
<1>17. V \subseteq Addresses \ G
  BY <1>1, <1>2 DEF Addresses
<1>18. QED
  BY <1>1, <1>3, <1>10, <1>12, <1>14, <1>15, <1>16, <1>17 DEF KrHeap, Tiled

\* The block below takes it in, and its own place in the list stays.
LEMMA AboveJoined ==
  ASSUME NEW m \in Heap, NEW r, NEW R, NEW V, NEW p, NEW bp \in Addresses, NEW nx, NEW sz \in Nat,
         m.size[0] = 0, Gap(m, R, V, p, bp, nx, sz), GapTiled(m, R, V, bp, sz),
         PutAbove(m, r, R, V, p, bp, nx, sz), p + m.size[p] = bp
  PROVE  KrHeap(r, R, V)
<1>1. /\ R \subseteq (0 .. NUnits) \ {bp} /\ V \subseteq (0 .. NUnits) \ (R \cup {bp})
      /\ bp \in 0 .. NUnits /\ NUnits \in Nat
      /\ p \in R /\ 0 \in R /\ nx \in R /\ p < bp
  BY KrAssumption DEF Gap, Addresses
<1>2. /\ r \in Heap /\ r.brk = m.brk /\ r.freep = p
      /\ r.ptr[p] = nx /\ r.size[p] = m.size[p] + sz
      /\ \A a \in (R \cup V) \ {p} : r.ptr[a] = m.ptr[a] /\ r.size[a] = m.size[a]
  BY DEF PutAbove
<1>3. \A q \in R : q <= p \/ q > bp
  BY DEF Gap
<1>4. \A a \in 0 .. NUnits : m.size[a] \in Nat /\ m.ptr[a] \in 0 .. NUnits
  BY DEF Heap, Addresses
<1>5. /\ sz >= 1 /\ bp + sz <= m.brk
      /\ \A b \in (R \ {0}) \cup V : (b < bp => b + m.size[b] <= bp) /\ (b > bp => bp + sz <= b)
  BY DEF GapTiled
<1>6. p \in 1 .. NUnits /\ p + r.size[p] = bp + sz /\ m.size[p] \in Nat
  <2>1. p # 0
    BY <1>1
  <2>2. p \in 1 .. NUnits /\ m.size[p] \in Nat
    BY <1>1, <1>4, <2>1
  <2>3. QED
    BY <1>2, <2>2
<1>7. ASSUME NEW q \in R PROVE r.ptr[q] \in R /\ Follows(r, R, q)
  <2>1. CASE q = p
    <3>1. \/ nx = 0 /\ \A x \in R : x <= p
          \/ nx > bp + sz /\ \A x \in R : x <= p \/ x >= nx
      BY DEF Gap
    <3>2. QED
      BY <1>1, <1>2, <1>6, <2>1, <3>1 DEF Follows
  <2>2. CASE q # p
    <3>1. m.ptr[q] \in R /\ Follows(m, R, q)
      BY <2>2 DEF Gap
    <3>2. r.ptr[q] = m.ptr[q] /\ r.size[q] = m.size[q]
      BY <1>2, <2>2
    <3>3. QED
      BY <3>1, <3>2 DEF Follows
  <2>3. QED
    BY <2>1, <2>2
<1>8. Ringed(r, R)
  <2>1. r.size[0] = 0
    BY <1>1, <1>2, <1>6
  <2>2. QED
    BY <1>1, <1>2, <1>7, <2>1 DEF Ringed, Addresses
<1>9. PICK B : B = (R \ {0}) \cup V
  OBVIOUS
<1>10. B \subseteq 1 .. NUnits /\ p \in B
  BY <1>1, <1>6, <1>9
<1>11. Apart(m, B) /\ Inside(m, B) /\ \A b \in B \ {p} : r.size[b] = m.size[b]
  BY <1>2, <1>9 DEF GapTiled
<1>12. Apart(r, B)
  <2>1. ASSUME NEW b \in B, NEW c \in B, b < c PROVE b + r.size[b] <= c
    <3>1. CASE b = p
      <4>1. p + m.size[p] <= c
        BY <1>11, <2>1, <3>1 DEF Apart
      <4>2. c > bp
        BY <1>1, <1>6, <1>9, <1>10, <4>1
      <4>3. QED
        BY <1>5, <1>6, <1>9, <3>1, <4>2
    <3>2. CASE b # p
      BY <1>11, <2>1, <3>2 DEF Apart
    <3>3. QED
      BY <3>1, <3>2
  <2>2. QED
    BY <2>1 DEF Apart
<1>13. Inside(r, B)
  <2>1. ASSUME NEW b \in B PROVE b >= 1 /\ r.size[b] >= 1 /\ b + r.size[b] <= r.brk
    <3>1. CASE b = p
      BY <1>2, <1>5, <1>6, <3>1
    <3>2. CASE b # p
      BY <1>2, <1>11, <3>2 DEF Inside
    <3>3. QED
      BY <3>1, <3>2
  <2>2. QED
    BY <2>1 DEF Inside
<1>14. Covers(r, B)
  <2>1. ASSUME NEW u \in 1 .. r.brk - 1 PROVE \E b \in B : b <= u /\ u < b + r.size[b]
    <3>1. \/ bp <= u /\ u < bp + sz
          \/ \E b \in B : b <= u /\ u < b + m.size[b]
      BY <1>2, <1>9 DEF GapTiled
    <3>2. u \in Int /\ m.brk \in Int
      BY <1>2 DEF Heap
    <3>3. CASE bp <= u /\ u < bp + sz
      BY <1>1, <1>6, <1>10, <3>2, <3>3
    <3>4. ASSUME NEW b \in B, b <= u, u < b + m.size[b] PROVE \E c \in B : c <= u /\ u < c + r.size[c]
      <4>1. CASE b = p
        BY <1>1, <1>2, <1>6, <1>10, <3>2, <3>4, <4>1
      <4>2. CASE b # p
        BY <1>11, <3>4, <4>2
      <4>3. QED
        BY <4>1, <4>2
    <3>5. QED
      BY <3>1, <3>3, <3>4
  <2>2. QED
    BY <2>1 DEF Covers
<1>15. V \subseteq Addresses \ R
  BY <1>1 DEF Addresses
<1>16. QED
  BY <1>2, <1>8, <1>9, <1>12, <1>13, <1>14, <1>15 DEF KrHeap, Tiled

\* What kr_free does when it puts bp above p.
Freeing(m, bp, p) ==
  LET upper == m.ptr[p]
      joinU == bp + m.size[bp] = upper
      next  == IF joinU THEN m.ptr[upper] ELSE upper
      size  == IF joinU THEN m.size[bp] + m.size[upper] ELSE m.size[bp]
      joinL == p + m.size[p] = bp
  IN  [m EXCEPT !.ptr[bp]  = next, !.ptr[p]   = IF joinL THEN next ELSE bp,
                !.size[bp] = size, !.size[p]  = IF joinL THEN @ + size ELSE @,
                !.freep    = p]

\* kr_free, with the place its loop finds.
LEMMA FreeingIs ==
  ASSUME NEW m, NEW bp
  PROVE  kr_free(m, bp) = Freeing(m, bp, Place(m, bp))
BY DEF kr_free, Freeing, Place

\* Field by field: the block joined to its upper neighbour has size sz and
\* successor nx.
LEMMA FreeingFields ==
  ASSUME NEW m \in Heap, NEW bp \in Addresses, NEW p \in Addresses, p # bp,
         NEW nx \in Addresses, NEW sz \in Nat, NEW r, r = Freeing(m, bp, p),
         IF bp + m.size[bp] = m.ptr[p]
         THEN nx = m.ptr[m.ptr[p]] /\ sz = m.size[bp] + m.size[m.ptr[p]]
         ELSE nx = m.ptr[p] /\ sz = m.size[bp]
  PROVE  /\ r \in Heap /\ r.brk = m.brk /\ r.freep = p
         /\ \A a \in Addresses \ {p, bp} : r.ptr[a] = m.ptr[a] /\ r.size[a] = m.size[a]
         /\ r.ptr[bp] = nx /\ r.size[bp] = sz
         /\ IF p + m.size[p] = bp
            THEN r.ptr[p] = nx /\ r.size[p] = m.size[p] + sz
            ELSE r.ptr[p] = bp /\ r.size[p] = m.size[p]
<1>1. m.ptr \in [Addresses -> Addresses] /\ m.size \in [Addresses -> Nat] /\ m.brk \in 1 .. NUnits + 1
  BY DEF Heap
<1>2. PICK np, ns : /\ np = IF p + m.size[p] = bp THEN nx ELSE bp
                    /\ ns = IF p + m.size[p] = bp THEN m.size[p] + sz ELSE m.size[p]
  OBVIOUS
<1>3. np \in Addresses /\ ns \in Nat
  <2>1. m.size[p] \in Nat
    BY <1>1
  <2>2. QED
    BY <1>2, <2>1
<1>4. PICK f, g : f = [m.ptr EXCEPT ![bp] = nx, ![p] = np] /\ g = [m.size EXCEPT ![bp] = sz, ![p] = ns]
  OBVIOUS
<1>5. r = [m EXCEPT !.ptr = f, !.size = g, !.freep = p]
  BY <1>1, <1>2, <1>4 DEF Freeing
<1>6. f \in [Addresses -> Addresses] /\ g \in [Addresses -> Nat]
  BY <1>1, <1>3, <1>4
<1>7. r \in Heap /\ r.brk = m.brk /\ r.freep = p /\ r.ptr = f /\ r.size = g
  BY <1>1, <1>5, <1>6 DEF Heap
<1>8. QED
  BY <1>1, <1>2, <1>4, <1>7

\* After kr_free of n units: a block of that size is where the search of
\* kr_malloc starts, or where it ends.
Offers(r, n) ==
  \/ r.size[r.ptr[r.freep]] >= n
  \/ r.freep # 0 /\ r.size[r.freep] >= n /\ r.size[r.freep] >= 2

\* kr_free: bp's units are free; blocks in use and their data stay as they are.
LEMMA KrFreeOk ==
  ASSUME NEW m, NEW F, NEW U, KrHeap(m, F, U), NEW bp \in U, NEW r, r = kr_free(m, bp)
  PROVE  /\ \E G : KrHeap(r, G, U \ {bp}) /\ G \subseteq F \cup {bp}
         /\ Same(m, r, F \cup {bp})
         /\ Offers(r, m.size[bp])
<1>1. m \in Heap /\ Ringed(m, F) /\ bp \in Addresses \ F /\ F \subseteq Addresses /\ m.size[0] = 0
  BY DEF KrHeap, Ringed, Tiled
<1>2. PICK p \in F : p = Place(m, bp) /\ p < bp /\ \A q \in F : q <= p \/ q > bp
  BY <1>1, PlaceIs
<1>3. r = Freeing(m, bp, p) /\ p # bp /\ p \in Addresses
  BY <1>1, <1>2, FreeingIs
<1>4. \A a \in Addresses : m.ptr[a] \in Addresses /\ m.size[a] \in Nat
  BY <1>1 DEF Heap
<1>5. PICK V : V = U \ {bp}
  OBVIOUS
<1>6. PICK R, nx, sz :
        /\ nx \in Addresses /\ sz \in Nat /\ R \subseteq F
        /\ Gap(m, R, V, p, bp, nx, sz) /\ GapTiled(m, R, V, bp, sz)
        /\ IF bp + m.size[bp] = m.ptr[p]
           THEN nx = m.ptr[m.ptr[p]] /\ sz = m.size[bp] + m.size[m.ptr[p]]
           ELSE nx = m.ptr[p] /\ sz = m.size[bp]
  <2>1. PICK up \in Addresses : up = m.ptr[p]
    BY <1>3, <1>4
  <2>2. CASE bp + m.size[bp] = up
    <3>1. PICK R, nx, sz : R = F \ {up} /\ nx = m.ptr[up] /\ sz = m.size[bp] + m.size[up]
      OBVIOUS
    <3>2. Gap(m, R, V, p, bp, nx, sz) /\ GapTiled(m, R, V, bp, sz)
      BY <1>1, <1>2, <1>5, <2>1, <2>2, <3>1, GapJoined
    <3>3. nx \in Addresses /\ sz \in Nat
      <4>1. m.size[bp] \in Nat /\ m.size[up] \in Nat
        BY <1>1, <1>4
      <4>2. QED
        BY <1>4, <3>1, <4>1
    <3>4. QED
      BY <2>1, <2>2, <3>1, <3>2, <3>3
  <2>3. CASE bp + m.size[bp] # up
    <3>1. PICK sz : sz = m.size[bp]
      OBVIOUS
    <3>2. Gap(m, F, V, p, bp, up, sz) /\ GapTiled(m, F, V, bp, sz)
      BY <1>1, <1>2, <1>5, <2>1, <2>3, <3>1, GapAlone
    <3>3. sz \in Nat
      BY <1>1, <1>4, <3>1
    <3>4. QED
      BY <2>1, <2>3, <3>1, <3>2, <3>3
  <2>4. QED
    BY <2>2, <2>3
<1>7. /\ r \in Heap /\ r.brk = m.brk /\ r.freep = p
      /\ \A a \in Addresses \ {p, bp} : r.ptr[a] = m.ptr[a] /\ r.size[a] = m.size[a]
      /\ r.ptr[bp] = nx /\ r.size[bp] = sz
      /\ IF p + m.size[p] = bp
         THEN r.ptr[p] = nx /\ r.size[p] = m.size[p] + sz
         ELSE r.ptr[p] = bp /\ r.size[p] = m.size[p]
  BY <1>1, <1>3, <1>6, FreeingFields
<1>8. PutAbove(m, r, R, V, p, bp, nx, sz)
  <2>1. (R \cup V) \ {p} \subseteq Addresses \ {p, bp}
    BY <1>6 DEF Gap
  <2>2. QED
    BY <1>7, <2>1 DEF PutAbove
<1>9. \E G : KrHeap(r, G, V) /\ G \subseteq F \cup {bp}
  <2>1. CASE p + m.size[p] = bp
    BY <1>1, <1>6, <1>8, <2>1, AboveJoined
  <2>2. CASE p + m.size[p] # bp
    <3>1. PICK G : G = R \cup {bp}
      OBVIOUS
    <3>2. KrHeap(r, G, V)
      BY <1>1, <1>6, <1>8, <2>2, <3>1, AboveAlone
    <3>3. QED
      BY <1>6, <3>1, <3>2
  <2>3. QED
    BY <2>1, <2>2
<1>10. Same(m, r, F \cup {bp})
  BY <1>2, <1>7 DEF Same
<1>11. Offers(r, m.size[bp])
  <2>1. m.size[bp] \in Nat /\ m.size[p] \in Nat /\ m.size[bp] >= 1 /\ bp >= 1
    BY <1>1, <1>3, <1>4 DEF KrHeap, Tiled, Inside
  <2>2. sz >= m.size[bp]
    <3>1. m.size[m.ptr[p]] \in Nat
      BY <1>3, <1>4
    <3>2. QED
      BY <1>6, <2>1, <3>1
  <2>3. CASE p + m.size[p] = bp
    <3>1. p # 0
      BY <1>1, <2>1, <2>3
    <3>2. m.size[p] >= 1
      BY <1>2, <3>1 DEF KrHeap, Tiled, Inside
    <3>3. QED
      BY <1>6, <1>7, <2>1, <2>2, <2>3, <3>1, <3>2 DEF Offers
  <2>4. CASE p + m.size[p] # bp
    BY <1>7, <2>2, <2>4 DEF Offers
  <2>5. QED
    BY <2>3, <2>4
<1>12. QED
  BY <1>5, <1>9, <1>10, <1>11

-----------------------------------------------------------------------------
(* kr_malloc. *)

\* What Take does with the block p after prevp.
Taking(m, nu, p, prevp) ==
  IF m.size[p] = nu
  THEN [mem   |-> [m EXCEPT !.ptr[prevp] = m.ptr[p], !.freep = prevp],
        block |-> p]
  ELSE [mem   |-> [m EXCEPT !.size[p] = @ - nu, !.size[p + m.size[p] - nu] = nu,
                            !.freep = prevp],
        block |-> p + m.size[p] - nu]

\* Take's block is a free one that is large enough.
LEMMA TakeIs ==
  ASSUME NEW m \in Heap, NEW F, Ringed(m, F), NEW nu \in Nat, Fits(m, nu) # {}
  PROVE  \E p \in F, prevp \in F : /\ m.ptr[prevp] = p /\ m.size[p] >= nu
                                   /\ Take(m, nu) = Taking(m, nu, p, prevp)
<1>1. PICK T : T = Fits(m, nu)
  OBVIOUS
<1>2. T \subseteq 1 .. NUnits /\ T # {} /\ NUnits \in Nat /\ \A k \in T : m.size[Ring(m)[k]] >= nu
  BY <1>1, KrAssumption DEF Fits
<1>3. PICK k \in T : k = Min(T)
  <2>1. T \subseteq Nat
    BY <1>2
  <2>2. QED
    BY <1>2, <2>1, MinIs
<1>4. k \in 0 .. NUnits /\ k - 1 \in 0 .. NUnits - 1 /\ k - 1 \in 0 .. NUnits /\ (k - 1) + 1 = k
  BY <1>2, <1>3
<1>5. PICK p \in F, prevp \in F : p = Ring(m)[k] /\ prevp = Ring(m)[k-1]
  BY <1>4, RingIs
<1>6. m.ptr[prevp] = p
  BY <1>4, <1>5, RingStep
<1>7. Take(m, nu) = Taking(m, nu, p, prevp)
  BY <1>1, <1>3, <1>5 DEF Take, Taking
<1>8. m.size[p] >= nu
  BY <1>2, <1>3, <1>5
<1>9. QED
  BY <1>6, <1>7, <1>8

\* A block that fits as a whole leaves the list.
LEMMA TakeWhole ==
  ASSUME NEW m, NEW F, NEW U, KrHeap(m, F, U), NEW p \in F, NEW prevp \in F,
         p # 0, m.ptr[prevp] = p, NEW r, r = [m EXCEPT !.ptr[prevp] = m.ptr[p], !.freep = prevp]
  PROVE  KrHeap(r, F \ {p}, U \cup {p}) /\ Same(m, r, F)
<1>1. PICK G : G = F \ {p}
  OBVIOUS
<1>2. /\ F \subseteq 0 .. NUnits /\ U \subseteq (0 .. NUnits) \ F /\ 0 \in F /\ NUnits \in Nat
      /\ m.size[0] = 0 /\ m \in Heap
  BY KrAssumption DEF KrHeap, Ringed, Tiled, Addresses
<1>3. \A q \in F : m.ptr[q] \in F /\ Follows(m, F, q)
  BY DEF KrHeap, Ringed
<1>4. m.ptr \in [Addresses -> Addresses] /\ m.size \in [Addresses -> Nat] /\ Addresses = 0 .. NUnits
  BY <1>2 DEF Heap, Addresses
<1>5. p \in 1 .. NUnits /\ m.size[p] \in Nat /\ m.ptr[p] \in 0 .. NUnits /\ m.ptr[p] \in F
  BY <1>2, <1>3, <1>4
<1>6. /\ r \in Heap /\ r.freep = prevp /\ r.size = m.size /\ r.brk = m.brk
      /\ r.ptr = [m.ptr EXCEPT ![prevp] = m.ptr[p]]
  BY <1>2, <1>4, <1>5 DEF Heap
<1>7. r.ptr[prevp] = m.ptr[p] /\ \A a \in Addresses \ {prevp} : r.ptr[a] = m.ptr[a]
  BY <1>2, <1>4, <1>6
<1>8. m.ptr[p] # p
  BY <1>3, <1>5 DEF Follows
<1>9. prevp # p
  BY <1>8
<1>10. prevp \in 0 .. NUnits /\ m.size[prevp] \in Nat /\ p > prevp + m.size[prevp]
  <2>1. prevp \in 0 .. NUnits /\ m.size[prevp] \in Nat
    BY <1>2, <1>4
  <2>2. QED
    BY <1>3, <1>5, <2>1 DEF Follows
<1>11. \A q \in F : q <= prevp \/ q >= p
  BY <1>3, <1>5 DEF Follows
<1>12. ASSUME NEW q \in G PROVE r.ptr[q] \in G /\ Follows(r, G, q)
  <2>1. CASE q = prevp
    <3>1. CASE m.ptr[p] = 0 /\ \A x \in F : x <= p
      <4>1. ASSUME NEW x \in G PROVE x <= prevp
        <5>1. x \in 0 .. NUnits /\ x # p /\ x <= p /\ (x <= prevp \/ x >= p)
          BY <1>1, <1>2, <1>11, <3>1
        <5>2. QED
          BY <1>5, <1>10, <5>1
      <4>2. QED
        BY <1>1, <1>2, <1>5, <1>6, <1>7, <1>8, <2>1, <3>1, <4>1 DEF Follows
    <3>2. CASE m.ptr[p] > p + m.size[p] /\ \A x \in F : x <= p \/ x >= m.ptr[p]
      <4>1. m.ptr[p] > prevp + m.size[prevp]
        BY <1>5, <1>10, <3>2
      <4>2. ASSUME NEW x \in G PROVE x <= prevp \/ x >= m.ptr[p]
        <5>1. x \in 0 .. NUnits /\ x # p /\ (x <= prevp \/ x >= p) /\ (x <= p \/ x >= m.ptr[p])
          BY <1>1, <1>2, <1>11, <3>2
        <5>2. QED
          BY <1>5, <1>10, <5>1
      <4>3. QED
        BY <1>1, <1>5, <1>6, <1>7, <1>8, <2>1, <4>1, <4>2 DEF Follows
    <3>3. QED
      BY <1>3, <3>1, <3>2 DEF Follows
  <2>2. CASE q # prevp
    <3>1. q \in F /\ q \in 0 .. NUnits /\ m.ptr[q] \in F /\ Follows(m, F, q) /\ q # p
      BY <1>1, <1>2, <1>3, <1>12
    <3>2. r.ptr[q] = m.ptr[q] /\ r.size[q] = m.size[q]
      BY <1>4, <1>6, <1>7, <2>2, <3>1
    <3>3. m.ptr[q] # p
      <4>1. SUFFICES ASSUME m.ptr[q] = p PROVE FALSE
        OBVIOUS
      <4>2. p > q + m.size[q] /\ \A x \in F : x <= q \/ x >= p
        BY <1>5, <3>1, <4>1 DEF Follows
      <4>3. m.size[q] \in Nat
        BY <1>4, <3>1
      <4>4. (prevp <= q \/ prevp >= p) /\ (q <= prevp \/ q >= p)
        BY <1>11, <3>1, <4>2
      <4>5. QED
        BY <1>5, <1>10, <2>2, <3>1, <4>2, <4>3, <4>4
    <3>4. Follows(r, G, q)
      BY <1>1, <3>1, <3>2 DEF Follows
    <3>5. QED
      BY <1>1, <3>1, <3>2, <3>3, <3>4
  <2>3. QED
    BY <2>1, <2>2
<1>13. Ringed(r, G)
  <2>1. G \subseteq Addresses /\ 0 \in G /\ prevp \in G
    BY <1>1, <1>2, <1>4, <1>5, <1>9
  <2>2. r.size[0] = 0 /\ r.freep = prevp
    BY <1>2, <1>6
  <2>3. QED
    BY <1>12, <2>1, <2>2 DEF Ringed
<1>14. (G \ {0}) \cup (U \cup {p}) = (F \ {0}) \cup U
  BY <1>1, <1>5
<1>15. Tiled(r, G, U \cup {p})
  <2>1. U \cup {p} \subseteq Addresses \ G
    BY <1>1, <1>2, <1>4, <1>5
  <2>2. PICK B : B = (F \ {0}) \cup U
    OBVIOUS
  <2>3. Apart(m, B) /\ Inside(m, B) /\ Covers(m, B)
    BY <2>2 DEF KrHeap, Tiled
  <2>4. Apart(r, B) /\ Inside(r, B) /\ Covers(r, B)
    BY <1>6, <2>3 DEF Apart, Inside, Covers
  <2>5. QED
    BY <1>14, <2>1, <2>2, <2>4 DEF Tiled
<1>16. Same(m, r, F)
  BY <1>6, <1>7 DEF Same
<1>17. QED
  BY <1>1, <1>6, <1>13, <1>15, <1>16 DEF KrHeap

\* The tail of a larger block: the rest of it stays on the list.
CutTail(m, nu, p, tail, prevp) ==
  [m EXCEPT !.size[p] = @ - nu, !.size[tail] = nu, !.freep = prevp]

\* The tail is in use, and the free list as it was.
LEMMA TakeTail ==
  ASSUME NEW m, NEW F, NEW U, KrHeap(m, F, U), NEW p \in F, NEW prevp \in F,
         p # 0, NEW nu \in Nat \ {0}, m.size[p] > nu, NEW tail, tail = p + m.size[p] - nu,
         NEW r, r = CutTail(m, nu, p, tail, prevp)
  PROVE  /\ KrHeap(r, F, U \cup {tail}) /\ Same(m, r, F \cup {tail})
         /\ tail \notin U /\ tail \in Addresses /\ r.size[tail] = nu
<1>1. PICK B : B = (F \ {0}) \cup U
  OBVIOUS
<1>2. /\ F \subseteq 0 .. NUnits /\ U \subseteq (0 .. NUnits) \ F /\ 0 \in F /\ NUnits \in Nat
      /\ m.size[0] = 0 /\ m \in Heap /\ m.brk \in 1 .. NUnits + 1
  BY KrAssumption DEF KrHeap, Ringed, Tiled, Addresses, Heap
<1>3. Apart(m, B) /\ Inside(m, B) /\ Covers(m, B)
  BY <1>1 DEF KrHeap, Tiled
<1>4. m.ptr \in [Addresses -> Addresses] /\ m.size \in [Addresses -> Nat] /\ Addresses = 0 .. NUnits
  BY <1>2 DEF Heap, Addresses
<1>5. p \in B /\ p \in 1 .. NUnits /\ m.size[p] \in Nat /\ p + m.size[p] <= m.brk
  BY <1>1, <1>2, <1>3, <1>4 DEF Inside
<1>6. tail \in 1 .. NUnits /\ tail > p /\ tail + nu = p + m.size[p]
  BY <1>2, <1>5
<1>7. \A b \in B : b # tail
  <2>1. SUFFICES ASSUME tail \in B PROVE FALSE
    OBVIOUS
  <2>2. p + m.size[p] <= tail
    BY <1>3, <1>5, <1>6, <2>1 DEF Apart
  <2>3. QED
    BY <1>5, <1>6, <2>2
<1>8. /\ r \in Heap /\ r.freep = prevp /\ r.ptr = m.ptr /\ r.brk = m.brk
      /\ r.size = [m.size EXCEPT ![p] = m.size[p] - nu, ![tail] = nu]
  <2>1. m.size[p] - nu \in Nat
    BY <1>5
  <2>2. p \in Addresses /\ tail \in Addresses /\ prevp \in Addresses /\ p # tail
    <3>1. F \subseteq Addresses
      BY <1>2, <1>4
    <3>2. tail \in Addresses
      BY <1>4, <1>6
    <3>3. p # tail
      BY <1>5, <1>6
    <3>4. QED
      BY <3>1, <3>2, <3>3
  <2>3. PICK g : g = [m.size EXCEPT ![p] = m.size[p] - nu, ![tail] = nu]
    OBVIOUS
  <2>4. g \in [Addresses -> Nat]
    BY <1>4, <2>1, <2>2, <2>3
  <2>5. r = [m EXCEPT !.size = g, !.freep = prevp]
    BY <1>2, <1>4, <2>2, <2>3 DEF Heap, CutTail
  <2>6. QED
    BY <1>2, <2>2, <2>3, <2>4, <2>5 DEF Heap
<1>9. /\ r.size[p] = m.size[p] - nu /\ r.size[tail] = nu
      /\ \A a \in Addresses \ {p, tail} : r.size[a] = m.size[a]
  <2>1. p \in Addresses /\ tail \in Addresses /\ p # tail
    <3>1. p \in 0 .. NUnits /\ tail \in 0 .. NUnits /\ p # tail
      BY <1>2, <1>5, <1>6
    <3>2. QED
      BY <1>4, <3>1
  <2>2. QED
    BY <1>4, <1>8, <2>1
<1>10. tail \notin F /\ tail \notin U
  BY <1>1, <1>6, <1>7
<1>11. Ringed(r, F)
  <2>1. ASSUME NEW q \in F PROVE r.ptr[q] \in F /\ Follows(r, F, q)
    <3>1. m.ptr[q] \in F /\ Follows(m, F, q) /\ q \in Addresses /\ q # tail
      BY <1>2, <1>4, <1>10 DEF KrHeap, Ringed
    <3>2. r.size[q] <= m.size[q] /\ r.size[q] \in Nat /\ m.size[q] \in Nat
      <4>1. CASE q = p
        BY <1>5, <1>9, <4>1
      <4>2. CASE q # p
        <5>1. m.size[q] \in Nat /\ r.size[q] = m.size[q]
          BY <1>4, <1>9, <3>1, <4>2
        <5>2. QED
          BY <5>1
      <4>3. QED
        BY <4>1, <4>2
    <3>3. q \in Int /\ m.ptr[q] \in Int
      BY <1>2, <1>4, <3>1
    <3>4. m.ptr[q] > q + m.size[q] => m.ptr[q] > q + r.size[q]
      BY <3>2, <3>3
    <3>5. QED
      BY <1>8, <3>1, <3>4 DEF Follows
  <2>2. r.size[0] = 0
    <3>1. 0 \in Addresses /\ 0 # p /\ 0 # tail
      BY <1>2, <1>4, <1>5, <1>6
    <3>2. QED
      BY <1>2, <1>9, <3>1
  <2>3. QED
    BY <1>2, <1>4, <1>8, <2>1, <2>2 DEF Ringed
<1>12. B \subseteq 1 .. NUnits /\ B \subseteq Addresses
  <2>1. \A b \in B : b >= 1 /\ b \in 0 .. NUnits
    BY <1>1, <1>2, <1>3 DEF Inside
  <2>2. B \subseteq 1 .. NUnits
    BY <1>2, <2>1
  <2>3. B \subseteq Addresses
    BY <1>4, <2>1
  <2>4. QED
    BY <2>2, <2>3
<1>13. \A b \in B \ {p} : r.size[b] = m.size[b]
  BY <1>7, <1>9, <1>12
<1>14. Apart(r, B \cup {tail})
  <2>1. ASSUME NEW b \in B, NEW c \in B, b < c PROVE b + r.size[b] <= c
    <3>1. b + m.size[b] <= c
      BY <1>3, <2>1 DEF Apart
    <3>2. CASE b = p
      BY <1>5, <1>9, <1>12, <3>1, <3>2
    <3>3. CASE b # p
      BY <1>13, <3>1, <3>3
    <3>4. QED
      BY <3>2, <3>3
  <2>2. ASSUME NEW b \in B, b < tail PROVE b + r.size[b] <= tail
    <3>1. CASE b = p
      BY <1>5, <1>6, <1>9, <3>1
    <3>2. CASE b # p
      <4>1. b \in 1 .. NUnits /\ (b < p \/ b > p)
        BY <1>5, <1>12, <3>2
      <4>2. CASE b < p
        <5>1. b + m.size[b] <= p
          BY <1>3, <1>5, <4>2 DEF Apart
        <5>2. b + m.size[b] \in Int
          <6>1. m.size[b] \in Nat /\ b \in 1 .. NUnits
            BY <1>4, <1>12
          <6>2. QED
            BY <1>2, <6>1
        <5>3. b + m.size[b] <= tail
          BY <1>5, <1>6, <5>1, <5>2
        <5>4. QED
          BY <1>13, <3>2, <5>3
      <4>3. CASE b > p
        <5>1. p + m.size[p] <= b
          BY <1>3, <1>5, <4>3 DEF Apart
        <5>2. QED
          BY <1>5, <1>6, <2>2, <4>1, <5>1
      <4>4. QED
        BY <4>1, <4>2, <4>3
    <3>3. QED
      BY <3>1, <3>2
  <2>3. ASSUME NEW b \in B, tail < b PROVE tail + r.size[tail] <= b
    <3>1. b \in 1 .. NUnits /\ p < b
      BY <1>5, <1>6, <1>12, <2>3
    <3>2. p + m.size[p] <= b
      BY <1>3, <1>5, <3>1 DEF Apart
    <3>3. QED
      BY <1>6, <1>9, <3>2
  <2>4. ~ (tail < tail)
    BY <1>6
  <2>5. QED
    BY <2>1, <2>2, <2>3, <2>4 DEF Apart
<1>15. Inside(r, B \cup {tail})
  <2>1. ASSUME NEW b \in B PROVE b >= 1 /\ r.size[b] >= 1 /\ b + r.size[b] <= r.brk
    <3>1. CASE b = p
      BY <1>2, <1>5, <1>8, <1>9, <3>1
    <3>2. CASE b # p
      BY <1>3, <1>8, <1>13, <3>2 DEF Inside
    <3>3. QED
      BY <3>1, <3>2
  <2>2. tail >= 1 /\ r.size[tail] >= 1 /\ tail + r.size[tail] <= r.brk
    BY <1>5, <1>6, <1>8, <1>9
  <2>3. QED
    BY <2>1, <2>2 DEF Inside
<1>16. Covers(r, B \cup {tail})
  <2>1. ASSUME NEW u \in 1 .. r.brk - 1 PROVE \E b \in B \cup {tail} : b <= u /\ u < b + r.size[b]
    <3>1. PICK b \in B : b <= u /\ u < b + m.size[b]
      BY <1>3, <1>8 DEF Covers
    <3>2. u \in Int
      BY <1>2, <1>8
    <3>3. CASE b = p
      <4>1. u < tail \/ u >= tail
        BY <1>6, <3>2
      <4>2. CASE u < tail
        BY <1>5, <1>6, <1>9, <3>1, <3>2, <3>3, <4>2
      <4>3. CASE u >= tail
        BY <1>5, <1>6, <1>9, <3>1, <3>2, <3>3, <4>3
      <4>4. QED
        BY <4>1, <4>2, <4>3
    <3>4. CASE b # p
      BY <1>13, <3>1, <3>4
    <3>5. QED
      BY <3>3, <3>4
  <2>2. QED
    BY <2>1 DEF Covers
<1>17. Tiled(r, F, U \cup {tail})
  <2>1. (F \ {0}) \cup (U \cup {tail}) = B \cup {tail}
    BY <1>1
  <2>2. U \cup {tail} \subseteq Addresses \ F
    <3>1. U \subseteq Addresses \ F
      BY <1>2, <1>4
    <3>2. tail \in Addresses
      BY <1>4, <1>6
    <3>3. QED
      BY <1>10, <3>1, <3>2
  <2>3. QED
    BY <1>14, <1>15, <1>16, <2>1, <2>2 DEF Tiled
<1>18. Same(m, r, F \cup {tail})
  BY <1>8, <1>9 DEF Same
<1>19. tail \in Addresses
  BY <1>4, <1>6
<1>20. QED
  BY <1>8, <1>9, <1>10, <1>11, <1>17, <1>18, <1>19 DEF KrHeap

\* Taking nu units: they are in use, blocks that were in use stay as they are.
LEMMA TakeOk ==
  ASSUME NEW m, NEW F, NEW U, KrHeap(m, F, U), NEW nu \in Nat \ {0}, Fits(m, nu) # {},
         NEW got, got = Take(m, nu)
  PROVE  /\ \E G : KrHeap(got.mem, G, U \cup {got.block})
         /\ got.block \in Addresses \ U /\ got.mem.size[got.block] = nu
         /\ Same(m, got.mem, F \cup {got.block})
<1>1. m \in Heap /\ Ringed(m, F) /\ m.size[0] = 0 /\ F \subseteq Addresses /\ U \subseteq Addresses \ F
  BY DEF KrHeap, Ringed, Tiled
<1>2. PICK p \in F, prevp \in F :
        m.ptr[prevp] = p /\ m.size[p] >= nu /\ Take(m, nu) = Taking(m, nu, p, prevp)
  BY <1>1, TakeIs
<1>3. p # 0
  BY <1>1, <1>2
<1>4. m.size[p] \in Nat
  BY <1>1, <1>2 DEF Heap
<1>5. CASE m.size[p] = nu
  <2>1. PICK r : r = [m EXCEPT !.ptr[prevp] = m.ptr[p], !.freep = prevp]
    OBVIOUS
  <2>2. got.mem = r /\ got.block = p
    BY <1>2, <1>5, <2>1 DEF Taking
  <2>3. KrHeap(r, F \ {p}, U \cup {p}) /\ Same(m, r, F)
    BY <1>2, <1>3, <2>1, TakeWhole
  <2>4. r.size[p] = nu
    BY <1>1, <1>5, <2>1 DEF Heap
  <2>5. p \in Addresses \ U
    BY <1>1
  <2>6. Same(m, r, F \cup {p})
    BY <2>3 DEF Same
  <2>7. QED
    BY <2>2, <2>3, <2>4, <2>5, <2>6
<1>6. CASE m.size[p] # nu
  <2>1. PICK tail : tail = p + m.size[p] - nu
    OBVIOUS
  <2>2. PICK r : r = CutTail(m, nu, p, tail, prevp)
    OBVIOUS
  <2>3. got.mem = r /\ got.block = tail
    BY <1>2, <1>6, <2>1, <2>2 DEF Taking, CutTail
  <2>4. m.size[p] > nu
    BY <1>2, <1>4, <1>6
  <2>5. /\ KrHeap(r, F, U \cup {tail}) /\ Same(m, r, F \cup {tail})
        /\ tail \notin U /\ tail \in Addresses /\ r.size[tail] = nu
    BY <1>3, <2>1, <2>2, <2>4, TakeTail
  <2>6. QED
    BY <2>3, <2>5
<1>7. QED
  BY <1>5, <1>6

\* From a block of two units or more the ring comes back to it.
LEMMA RingReturns ==
  ASSUME NEW m \in Heap, NEW F, Ringed(m, F), m.freep # 0, m.size[m.freep] >= 2,
         m.freep + m.size[m.freep] <= NUnits + 1
  PROVE  \E k \in 1 .. NUnits : Ring(m)[k] = m.freep
<1>1. PICK r : r = Ring(m)
  OBVIOUS
<1>2. NUnits \in Nat \ {0} /\ F \subseteq 0 .. NUnits /\ 0 \in F /\ m.freep \in F
  <2>1. F \subseteq Addresses /\ 0 \in F /\ m.freep \in F
    BY DEF Ringed
  <2>2. NUnits \in Nat \ {0}
    BY KrAssumption
  <2>3. QED
    BY <2>1, <2>2 DEF Addresses
<1>3. PICK f \in 1 .. NUnits : f = m.freep
  <2>1. m.freep \in 0 .. NUnits
    BY <1>2
  <2>2. m.freep \in 1 .. NUnits
    BY <1>2, <2>1
  <2>3. QED
    BY <2>2, Zenon
<1>4. r[0] = f /\ \A k \in 0 .. NUnits - 1 : r[k+1] = m.ptr[r[k]]
  BY <1>1, <1>3, RingStep
<1>5. \A k \in 0 .. NUnits : r[k] \in F
  BY <1>1, RingIs
<1>6. f \in F /\ f + m.size[f] <= NUnits + 1 /\ m.size[f] >= 2 /\ m.size[f] \in Nat
  <2>1. m.size[f] \in Nat
    BY <1>3 DEF Heap, Addresses
  <2>2. QED
    BY <1>2, <1>3, <2>1
<1>7. SUFFICES ASSUME \A k \in 1 .. NUnits : r[k] # f PROVE FALSE
  BY <1>1, <1>3
<1>8. PICK S : S = {k \in 0 .. NUnits : \/ k = 0
                                        \/ k # 0 /\ r[k] >= f + k + 1
                                        \/ k # 0 /\ r[k] < f /\ r[k] >= k - (NUnits - f)}
  OBVIOUS
<1>9. 0 \in S
  BY <1>2, <1>8
<1>10. ASSUME NEW k \in 0 .. NUnits - 1, k \in S PROVE k + 1 \in S
  <2>1. k + 1 \in 1 .. NUnits /\ k + 1 \in 0 .. NUnits /\ k \in 0 .. NUnits /\ k + 1 # 0
    BY <1>2
  <2>2. PICK x \in F, y \in F : x = r[k] /\ y = r[k+1]
    BY <1>5, <2>1
  <2>3. y = m.ptr[x] /\ x \in 0 .. NUnits /\ y \in 0 .. NUnits /\ y # f
    BY <1>2, <1>4, <1>7, <2>1, <2>2
  <2>4. \/ y = 0 /\ \A q \in F : q <= x
        \/ y > x + m.size[x] /\ \A q \in F : q <= x \/ q >= y
    BY <2>2, <2>3 DEF Ringed, Follows
  <2>5. m.size[x] \in Nat
    BY <2>3 DEF Heap, Addresses
  <2>6. CASE k = 0
    <3>1. x = f
      BY <1>4, <2>2, <2>6
    <3>2. (y < f /\ y >= 1 - (NUnits - f)) \/ y >= f + 1 + 1
      <4>1. CASE y = 0
        BY <1>2, <1>3, <1>6, <4>1
      <4>2. CASE y > x + m.size[x]
        BY <1>6, <2>3, <3>1, <4>2
      <4>3. QED
        BY <2>4, <4>1, <4>2
    <3>3. QED
      BY <1>8, <2>1, <2>2, <2>6, <3>2
  <2>7. CASE k # 0 /\ x >= f + k + 1
    <3>1. (y < f /\ y >= (k + 1) - (NUnits - f)) \/ y >= f + (k + 1) + 1
      <4>1. CASE y = 0
        BY <1>2, <1>3, <2>3, <2>7, <4>1
      <4>2. CASE y > x + m.size[x]
        BY <2>3, <2>5, <2>7, <4>2
      <4>3. QED
        BY <2>4, <4>1, <4>2
    <3>2. QED
      BY <1>8, <2>1, <2>2, <3>1
  <2>8. CASE k # 0 /\ x < f /\ x >= k - (NUnits - f)
    <3>1. y > x + m.size[x] /\ (f <= x \/ f >= y)
      BY <1>3, <1>6, <2>3, <2>4, <2>8
    <3>2. y < f /\ y >= (k + 1) - (NUnits - f)
      BY <1>2, <1>3, <2>3, <2>5, <2>8, <3>1
    <3>3. QED
      BY <1>8, <2>1, <2>2, <3>2
  <2>9. QED
    BY <1>8, <1>10, <2>2, <2>6, <2>7, <2>8
<1>11. NUnits \in S
  <2>1. 0 .. NUnits \subseteq S
    BY <1>2, <1>9, <1>10, InductTo
  <2>2. QED
    BY <1>2, <2>1
<1>12. PICK x \in F : x = r[NUnits]
  <2>1. NUnits \in 0 .. NUnits
    BY <1>2
  <2>2. QED
    BY <1>5, <2>1
<1>13. x >= f + NUnits + 1 \/ (x < f /\ x >= NUnits - (NUnits - f))
  BY <1>2, <1>8, <1>11, <1>12
<1>14. x \in 0 .. NUnits
  BY <1>2
<1>15. QED
  BY <1>2, <1>3, <1>13, <1>14

\* After a block of n units was freed, a search for no more succeeds.
LEMMA OffersFits ==
  ASSUME NEW m \in Heap, NEW F, Ringed(m, F), NEW n \in Nat, NEW nu \in Nat, nu <= n, Offers(m, n),
         m.freep # 0 => m.freep + m.size[m.freep] <= NUnits + 1
  PROVE  Fits(m, nu) # {}
<1>1. NUnits \in Nat \ {0}
  BY KrAssumption
<1>2. \A a \in Addresses : m.size[a] \in Nat /\ m.ptr[a] \in Addresses
  BY DEF Heap
<1>3. m.freep \in Addresses
  BY DEF Heap
<1>4. \E k \in 1 .. NUnits : m.size[Ring(m)[k]] >= n
  <2>1. CASE m.size[m.ptr[m.freep]] >= n
    <3>1. Ring(m)[0] = m.freep /\ \A k \in 0 .. NUnits - 1 : Ring(m)[k+1] = m.ptr[Ring(m)[k]]
      BY RingStep
    <3>2. 0 \in 0 .. NUnits - 1 /\ 0 + 1 = 1 /\ 1 \in 1 .. NUnits
      BY <1>1
    <3>3. Ring(m)[1] = m.ptr[m.freep]
      BY <3>1, <3>2
    <3>4. QED
      BY <2>1, <3>2, <3>3
  <2>2. CASE m.freep # 0 /\ m.size[m.freep] >= n /\ m.size[m.freep] >= 2
    BY <2>2, RingReturns
  <2>3. QED
    BY <2>1, <2>2 DEF Offers
<1>5. PICK k \in 1 .. NUnits : m.size[Ring(m)[k]] >= n
  BY <1>4
<1>6. m.size[Ring(m)[k]] \in Nat
  <2>1. k \in 0 .. NUnits
    BY <1>1
  <2>2. Ring(m)[k] \in Addresses
    BY <2>1, RingStep
  <2>3. QED
    BY <1>2, <2>2
<1>7. m.size[Ring(m)[k]] >= nu
  BY <1>5, <1>6
<1>8. QED
  BY <1>5, <1>7 DEF Fits

\* morecore's new block before kr_free.
Grown(m, nu) == [m EXCEPT !.size[m.brk] = Asked(nu), !.brk = @ + Asked(nu)]

GrewBy(m, r, bp, n) ==
  /\ r.size[bp] = n /\ r.ptr = m.ptr
  /\ \A a \in Addresses \ {bp} : r.size[a] = m.size[a]

\* It lies behind all the others.
LEMMA GrownOk ==
  ASSUME NEW m, NEW F, NEW U, KrHeap(m, F, U), NEW nu \in Nat \ {0}, HasMore(m, nu),
         NEW r, r = Grown(m, nu)
  PROVE  /\ KrHeap(r, F, U \cup {m.brk}) /\ m.brk \in Addresses \ (F \cup U)
         /\ GrewBy(m, r, m.brk, Asked(nu))
<1>1. PICK bp, n, B : bp = m.brk /\ n = Asked(nu) /\ B = (F \ {0}) \cup U
  OBVIOUS
<1>2. n \in Nat /\ n >= 1 /\ n >= nu
  BY <1>1, KrAssumption DEF Asked
<1>3. /\ F \subseteq 0 .. NUnits /\ U \subseteq (0 .. NUnits) \ F /\ 0 \in F /\ NUnits \in Nat
      /\ m.size[0] = 0 /\ m \in Heap /\ bp \in 1 .. NUnits + 1 /\ bp + n <= NUnits + 1
  BY <1>1, KrAssumption DEF KrHeap, Ringed, Tiled, Addresses, Heap, HasMore
<1>4. Apart(m, B) /\ Inside(m, B) /\ Covers(m, B)
  BY <1>1 DEF KrHeap, Tiled
<1>5. m.ptr \in [Addresses -> Addresses] /\ m.size \in [Addresses -> Nat] /\ Addresses = 0 .. NUnits
      /\ m.freep \in Addresses
  BY <1>3 DEF Heap, Addresses
<1>6. bp \in 1 .. NUnits /\ bp \in Addresses
  BY <1>2, <1>3, <1>5
<1>7. /\ r \in Heap /\ r.ptr = m.ptr /\ r.freep = m.freep /\ r.brk = bp + n
      /\ r.size = [m.size EXCEPT ![bp] = n]
  <2>1. PICK g : g = [m.size EXCEPT ![bp] = n]
    OBVIOUS
  <2>2. g \in [Addresses -> Nat]
    BY <1>2, <1>5, <2>1
  <2>3. r = [m EXCEPT !.size = g, !.brk = bp + n]
    BY <1>1, <1>3, <2>1 DEF Grown, Heap
  <2>4. bp + n \in 1 .. NUnits + 1
    BY <1>2, <1>3
  <2>5. QED
    BY <1>3, <2>1, <2>2, <2>3, <2>4 DEF Heap
<1>8. r.size[bp] = n /\ \A a \in Addresses \ {bp} : r.size[a] = m.size[a]
  BY <1>5, <1>6, <1>7
<1>9. ASSUME NEW b \in B PROVE b \in 1 .. NUnits /\ m.size[b] \in Nat /\ b + m.size[b] <= bp /\ b < bp
  <2>1. b \in 0 .. NUnits /\ b >= 1 /\ m.size[b] >= 1 /\ b + m.size[b] <= bp
    BY <1>1, <1>3, <1>4 DEF Inside
  <2>2. m.size[b] \in Nat
    BY <1>5, <2>1
  <2>3. QED
    BY <1>3, <2>1, <2>2
<1>10. bp \notin B /\ bp \notin F /\ bp \notin U
  <2>1. bp \notin B
    BY <1>6, <1>9
  <2>2. QED
    BY <1>1, <1>6, <2>1
<1>11. \A b \in B : r.size[b] = m.size[b]
  BY <1>1, <1>3, <1>5, <1>8, <1>10
<1>12. Ringed(r, F)
  <2>1. \A q \in F : r.size[q] = m.size[q]
    BY <1>3, <1>5, <1>8, <1>10
  <2>2. \A q \in F : r.ptr[q] \in F /\ Follows(r, F, q)
    BY <1>7, <2>1 DEF KrHeap, Ringed, Follows
  <2>3. QED
    BY <1>3, <1>7, <2>1, <2>2 DEF KrHeap, Ringed
<1>13. Apart(r, B \cup {bp})
  <2>1. ASSUME NEW b \in B, NEW c \in B, b < c PROVE b + r.size[b] <= c
    BY <1>4, <1>11, <2>1 DEF Apart
  <2>2. \A b \in B : b + r.size[b] <= bp /\ ~ (bp < b)
    BY <1>6, <1>9, <1>11
  <2>3. ~ (bp < bp)
    BY <1>6
  <2>4. QED
    BY <2>1, <2>2, <2>3 DEF Apart
<1>14. Inside(r, B \cup {bp})
  <2>1. ASSUME NEW b \in B PROVE b >= 1 /\ r.size[b] >= 1 /\ b + r.size[b] <= r.brk
    <3>1. b \in 1 .. NUnits /\ r.size[b] \in Nat /\ b + r.size[b] <= bp /\ r.size[b] >= 1 /\ b >= 1
      BY <1>4, <1>9, <1>11 DEF Inside
    <3>2. QED
      BY <1>2, <1>6, <1>7, <3>1
  <2>2. bp >= 1 /\ r.size[bp] >= 1 /\ bp + r.size[bp] <= r.brk
    BY <1>2, <1>6, <1>7, <1>8
  <2>3. QED
    BY <2>1, <2>2 DEF Inside
<1>15. Covers(r, B \cup {bp})
  <2>1. ASSUME NEW u \in 1 .. r.brk - 1 PROVE \E b \in B \cup {bp} : b <= u /\ u < b + r.size[b]
    <3>1. u \in Nat /\ u >= 1 /\ u < bp + n
      BY <1>2, <1>6, <1>7
    <3>2. CASE u < bp
      <4>1. u \in 1 .. m.brk - 1
        BY <1>1, <1>6, <3>1, <3>2
      <4>2. PICK b \in B : b <= u /\ u < b + m.size[b]
        BY <1>4, <4>1 DEF Covers
      <4>3. QED
        BY <1>11, <4>2
    <3>3. CASE bp <= u
      BY <1>8, <3>1, <3>3
    <3>4. QED
      BY <1>6, <3>1, <3>2, <3>3
  <2>2. QED
    BY <2>1 DEF Covers
<1>16. Tiled(r, F, U \cup {bp})
  <2>1. (F \ {0}) \cup (U \cup {bp}) = B \cup {bp}
    BY <1>1
  <2>2. U \cup {bp} \subseteq Addresses \ F
    BY <1>3, <1>5, <1>6, <1>10
  <2>3. QED
    BY <1>13, <1>14, <1>15, <2>1, <2>2 DEF Tiled
<1>17. QED
  BY <1>1, <1>6, <1>7, <1>8, <1>10, <1>12, <1>16 DEF KrHeap, GrewBy

\* What an allocation leaves alone: the blocks in use, header and data.
Untouched(m, r, U) ==
  \A b \in U : \A a \in b .. b + m.size[b] - 1 : r.ptr[a] = m.ptr[a] /\ r.size[a] = m.size[a]

\* morecore: a block of at least nu units is on the list.
LEMMA MorecoreOk ==
  ASSUME NEW m, NEW F, NEW U, KrHeap(m, F, U), NEW nu \in Nat \ {0}, HasMore(m, nu),
         NEW r, r = morecore(m, nu)
  PROVE  /\ \E G : KrHeap(r, G, U) /\ G \subseteq F \cup {m.brk}
         /\ \A a \in Addresses \ (F \cup {m.brk}) : r.ptr[a] = m.ptr[a] /\ r.size[a] = m.size[a]
         /\ Fits(r, nu) # {}
<1>1. PICK g, bp : g = Grown(m, nu) /\ bp = m.brk
  OBVIOUS
<1>2. PICK W : W = U \cup {bp}
  OBVIOUS
<1>3. /\ KrHeap(g, F, W) /\ bp \in Addresses \ (F \cup U)
      /\ g.size[bp] = Asked(nu) /\ g.ptr = m.ptr
      /\ \A a \in Addresses \ {bp} : g.size[a] = m.size[a]
  <2>1. /\ KrHeap(g, F, U \cup {m.brk}) /\ m.brk \in Addresses \ (F \cup U)
        /\ GrewBy(m, g, m.brk, Asked(nu))
    BY <1>1, GrownOk
  <2>2. QED
    BY <1>1, <1>2, <2>1 DEF GrewBy
<1>4. r = kr_free(g, bp)
  BY <1>1 DEF morecore, Grown
<1>5. bp \in W
  BY <1>2
<1>6. /\ \E G : KrHeap(r, G, W \ {bp}) /\ G \subseteq F \cup {bp}
      /\ Same(g, r, F \cup {bp})
      /\ Offers(r, g.size[bp])
  BY <1>3, <1>4, <1>5, KrFreeOk
<1>7. W \ {bp} = U
  BY <1>2, <1>3
<1>8. PICK G : KrHeap(r, G, U) /\ G \subseteq F \cup {bp}
  BY <1>6, <1>7
<1>9. \A a \in Addresses \ (F \cup {bp}) : r.ptr[a] = m.ptr[a] /\ r.size[a] = m.size[a]
  BY <1>3, <1>6 DEF Same
<1>10. Fits(r, nu) # {}
  <2>1. PICK n : n = Asked(nu)
    OBVIOUS
  <2>2. n \in Nat /\ nu <= n /\ nu \in Nat
    BY <2>1, KrAssumption DEF Asked
  <2>3. r \in Heap /\ Ringed(r, G) /\ Offers(r, n)
    BY <1>3, <1>6, <1>8, <2>1 DEF KrHeap
  <2>4. r.freep # 0 => r.freep + r.size[r.freep] <= NUnits + 1
    <3>1. r.freep \in G
      BY <1>8 DEF KrHeap, Ringed
    <3>2. ASSUME r.freep # 0 PROVE r.freep + r.size[r.freep] <= NUnits + 1
      <4>1. r.freep + r.size[r.freep] <= r.brk
        BY <1>8, <3>1, <3>2 DEF KrHeap, Tiled, Inside
      <4>2. r.brk \in 1 .. NUnits + 1 /\ r.freep \in 0 .. NUnits /\ r.size[r.freep] \in Nat
        BY <2>3 DEF Heap, Addresses
      <4>3. QED
        BY <4>1, <4>2, KrAssumption
    <3>3. QED
      BY <3>2
  <2>5. QED
    BY <2>2, <2>3, <2>4, OffersFits
<1>11. QED
  BY <1>1, <1>8, <1>9, <1>10

\* The units of a block in use are inside the heap and in no other block.
LEMMA InUse ==
  ASSUME NEW m, NEW F, NEW U, KrHeap(m, F, U), NEW b \in U, NEW a \in b .. b + m.size[b] - 1
  PROVE  /\ a \in Addresses /\ a >= 1 /\ a < m.brk /\ a \notin F
         /\ \A c \in U : c # b => a \notin c .. c + m.size[c] - 1
<1>1. /\ F \subseteq 0 .. NUnits /\ U \subseteq (0 .. NUnits) \ F /\ NUnits \in Nat
      /\ m \in Heap /\ m.brk \in 1 .. NUnits + 1
  BY KrAssumption DEF KrHeap, Ringed, Tiled, Addresses, Heap
<1>2. PICK B : B = (F \ {0}) \cup U
  OBVIOUS
<1>3. Apart(m, B) /\ Inside(m, B)
  BY <1>2 DEF KrHeap, Tiled
<1>4. \A c \in 0 .. NUnits : m.size[c] \in Nat
  BY <1>1 DEF Heap, Addresses
<1>5. b \in B /\ b \in 1 .. NUnits /\ b >= 1 /\ b + m.size[b] <= m.brk /\ m.size[b] \in Nat /\ b \notin F
  <2>1. b \in B /\ b \in 0 .. NUnits /\ b \notin F
    BY <1>1, <1>2
  <2>2. b >= 1 /\ b + m.size[b] <= m.brk
    BY <1>3, <2>1 DEF Inside
  <2>3. QED
    BY <1>1, <1>4, <2>1, <2>2
<1>6. a \in Int /\ a >= b /\ a < b + m.size[b]
  BY <1>5
<1>7. a \in Addresses /\ a >= 1 /\ a < m.brk
  BY <1>1, <1>5, <1>6 DEF Addresses
<1>8. ASSUME NEW c \in B, c # b PROVE a < c \/ a >= c + m.size[c]
  <2>1. c \in 0 .. NUnits /\ m.size[c] \in Nat
    BY <1>1, <1>2, <1>4
  <2>2. CASE c < b
    <3>1. c + m.size[c] <= b
      BY <1>3, <1>5, <1>8, <2>2 DEF Apart
    <3>2. QED
      BY <1>5, <1>6, <2>1, <3>1
  <2>3. CASE b < c
    <3>1. b + m.size[b] <= c
      BY <1>3, <1>5, <1>8, <2>3 DEF Apart
    <3>2. QED
      BY <1>5, <1>6, <2>1, <3>1
  <2>4. QED
    BY <1>5, <1>8, <2>1, <2>2, <2>3
<1>9. a \notin F
  <2>1. SUFFICES ASSUME a \in F PROVE FALSE
    OBVIOUS
  <2>2. a \in B /\ a # b
    BY <1>2, <1>5, <1>7, <2>1
  <2>3. a >= a + m.size[a] /\ m.size[a] >= 1
    BY <1>3, <1>6, <1>8, <2>2 DEF Inside
  <2>4. m.size[a] \in Nat
    BY <1>1, <1>4, <2>1
  <2>5. QED
    BY <1>6, <2>3, <2>4
<1>10. ASSUME NEW c \in U, c # b PROVE a \notin c .. c + m.size[c] - 1
  <2>1. c \in B /\ c \in 0 .. NUnits /\ m.size[c] \in Nat
    BY <1>1, <1>2, <1>4
  <2>2. QED
    BY <1>6, <1>8, <1>10, <2>1
<1>11. QED
  BY <1>7, <1>9, <1>10

\* kr_malloc when it finds room: nu units nobody had; blocks in use, header
\* and data, stay as they are.
LEMMA KrMallocOk ==
  ASSUME NEW m, NEW F, NEW U, KrHeap(m, F, U), NEW nu \in Nat \ {0}, CanMalloc(m, nu),
         NEW got, got = kr_malloc(m, nu)
  PROVE  /\ \E G : KrHeap(got.mem, G, U \cup {got.block})
         /\ got.block \in Addresses \ U /\ got.mem.size[got.block] = nu
         /\ Untouched(m, got.mem, U)
<1>1. PICK w : w = IF Fits(m, nu) # {} THEN m ELSE morecore(m, nu)
  OBVIOUS
<1>2. got = Take(w, nu)
  BY <1>1 DEF kr_malloc
<1>3. PICK H : KrHeap(w, H, U) /\ Untouched(m, w, U) /\ Fits(w, nu) # {}
  <2>1. CASE Fits(m, nu) # {}
    BY <1>1, <2>1 DEF Untouched
  <2>2. CASE Fits(m, nu) = {}
    <3>1. HasMore(m, nu) /\ w = morecore(m, nu)
      BY <1>1, <2>2 DEF CanMalloc
    <3>2. PICK H : KrHeap(w, H, U)
      BY <3>1, MorecoreOk
    <3>3. /\ \A a \in Addresses \ (F \cup {m.brk}) : w.ptr[a] = m.ptr[a] /\ w.size[a] = m.size[a]
          /\ Fits(w, nu) # {}
      BY <3>1, MorecoreOk
    <3>4. ASSUME NEW b \in U, NEW a \in b .. b + m.size[b] - 1
          PROVE  w.ptr[a] = m.ptr[a] /\ w.size[a] = m.size[a]
      <4>1. a \in Addresses /\ a < m.brk /\ a \notin F
        BY <3>4, InUse
      <4>2. a # m.brk
        BY <4>1, KrAssumption DEF Addresses
      <4>3. QED
        BY <3>3, <4>1, <4>2
    <3>5. QED
      BY <3>2, <3>3, <3>4 DEF Untouched
  <2>3. QED
    BY <2>1, <2>2
<1>4. PICK r, t : r = got.mem /\ t = got.block
  OBVIOUS
<1>5. PICK W : W = U \cup {t}
  OBVIOUS
<1>6. PICK G : KrHeap(r, G, W)
  BY <1>2, <1>3, <1>4, <1>5, TakeOk
<1>7. t \in Addresses \ U /\ r.size[t] = nu /\ Same(w, r, H \cup {t})
  BY <1>2, <1>3, <1>4, TakeOk
<1>8. ASSUME NEW b \in U
      PROVE  \A a \in b .. b + m.size[b] - 1 : r.ptr[a] = m.ptr[a] /\ r.size[a] = m.size[a]
  <2>1. \A a \in b .. b + m.size[b] - 1 : w.ptr[a] = m.ptr[a] /\ w.size[a] = m.size[a]
    BY <1>3 DEF Untouched
  <2>2. b \in b .. b + m.size[b] - 1
    <3>1. m.size[b] >= 1 /\ b \in Addresses /\ m \in Heap
      BY DEF KrHeap, Tiled, Inside
    <3>2. m.size[b] \in Nat
      BY <3>1 DEF Heap
    <3>3. b \in Nat
      BY <3>1 DEF Addresses
    <3>4. QED
      BY <3>1, <3>2, <3>3
  <2>3. w.size[b] = m.size[b]
    BY <2>1, <2>2
  <2>4. b \in Addresses /\ b \notin H /\ b # t
    BY <1>3, <1>7 DEF KrHeap, Tiled
  <2>5. r.size[b] = m.size[b]
    BY <1>7, <2>3, <2>4 DEF Same
  <2>6. ASSUME NEW a \in b .. b + m.size[b] - 1
        PROVE  r.ptr[a] = m.ptr[a] /\ r.size[a] = m.size[a]
    <3>1. a \in b .. b + w.size[b] - 1 /\ a \in b .. b + r.size[b] - 1
      BY <2>3, <2>5
    <3>2. a \in Addresses /\ a \notin H
      BY <1>3, <3>1, InUse
    <3>3. b \in W /\ t \in W /\ b # t
      BY <1>5, <2>4
    <3>4. a \notin t .. t + r.size[t] - 1
      BY <1>6, <3>1, <3>3, InUse
    <3>5. a # t
      <4>1. t \in Nat /\ r.size[t] \in Nat /\ r.size[t] >= 1
        BY <1>7 DEF Addresses
      <4>2. t \in t .. t + r.size[t] - 1
        BY <4>1
      <4>3. QED
        BY <3>4, <4>2
    <3>6. r.ptr[a] = w.ptr[a] /\ r.size[a] = w.size[a]
      BY <1>7, <3>2, <3>5 DEF Same
    <3>7. QED
      BY <2>1, <3>6
  <2>7. QED
    BY <2>6
<1>9. QED
  BY <1>4, <1>5, <1>6, <1>7, <1>8 DEF Untouched

-----------------------------------------------------------------------------
(* Lists of blocks. *)

\* s lists the blocks H in the order in which m links them from first on.
Chain(m, first, H, n, s) ==
  /\ s \in [1 .. n -> H]
  /\ \A i, j \in 1 .. n : s[i] = s[j] => i = j
  /\ \A h \in H : \E i \in 1 .. n : s[i] = h
  /\ first = IF n = 0 THEN 0 ELSE s[1]
  /\ \A i \in 1 .. n : m.ptr[s[i]] = IF i = n THEN 0 ELSE s[i+1]

\* t counts the data of the blocks listed.
Counts(m, n, s, t) ==
  t \in [0 .. n -> Nat] /\ t[0] = 0 /\ \A i \in 1 .. n : t[i] = t[i-1] + m.size[s[i]]

\* The blocks in use, named by their hdr_t: the unit before is kr_malloc's.
Under(H) == {h - 1 : h \in H}
Headed(m, H) == /\ H \subseteq Addresses
                /\ \A h \in H : m.size[h] >= 1 /\ m.size[h - 1] = m.size[h] + 2

\* A block in use, its data and both headers lie in the heap.
LEMMA HeadedIs ==
  ASSUME NEW m, NEW F, NEW H, KrHeap(m, F, Under(H)), Headed(m, H), NEW h \in H
  PROVE  /\ h \in 2 .. NUnits /\ m.size[h] \in Nat /\ m.size[h] >= 1 /\ m.size[h-1] = m.size[h] + 2
         /\ h + m.size[h] < m.brk /\ h + m.size[h] \in Addresses
         /\ h - 1 \in Under(H) /\ h \notin F /\ h - 1 \notin F
         /\ h - 1 \in Addresses
<1>1. h \in 0 .. NUnits /\ NUnits \in Nat /\ m \in Heap /\ h \in Addresses
  BY KrAssumption DEF Headed, Addresses, KrHeap
<1>2. m.size[h] \in Nat /\ m.size[h] >= 1 /\ m.size[h-1] = m.size[h] + 2 /\ m.brk \in 1 .. NUnits + 1
  BY <1>1 DEF Headed, Heap
<1>3. h - 1 \in Under(H)
  BY DEF Under
<1>4. h - 1 >= 1 /\ (h - 1) + m.size[h-1] <= m.brk /\ h - 1 \in Addresses /\ h - 1 \notin F
  BY <1>3 DEF KrHeap, Tiled, Inside
<1>5. h \in 2 .. NUnits /\ h + m.size[h] < m.brk /\ h + m.size[h] \in 0 .. NUnits
  BY <1>1, <1>2, <1>4
<1>6. h \in h - 1 .. (h - 1) + m.size[h-1] - 1
  BY <1>2, <1>5
<1>7. h \notin F
  BY <1>3, <1>6, InUse
<1>8. QED
  BY <1>2, <1>3, <1>4, <1>5, <1>7 DEF Addresses

\* Two blocks in use share no unit.
LEMMA BlocksApart ==
  ASSUME NEW m, NEW F, NEW H, KrHeap(m, F, Under(H)), Headed(m, H), NEW g \in H, NEW h \in H, g < h
  PROVE  g + m.size[g] + 1 < h
<1>1. g \in 2 .. NUnits /\ h \in 2 .. NUnits /\ g - 1 \in Under(H) /\ h - 1 \in Under(H)
      /\ m.size[g] \in Nat /\ m.size[g-1] = m.size[g] + 2
  BY HeadedIs
<1>2. g - 1 < h - 1
  BY <1>1
<1>3. (g - 1) + m.size[g-1] <= h - 1
  BY <1>1, <1>2 DEF KrHeap, Tiled, Apart
<1>4. QED
  BY <1>1, <1>3

\* Each of them has at least three.
LEMMA ChainShort ==
  ASSUME NEW m, NEW F, NEW H, KrHeap(m, F, Under(H)), Headed(m, H),
         NEW A, A \subseteq H, NEW first, NEW n \in Nat, NEW s, Chain(m, first, A, n, s)
  PROVE  /\ n <= MaxBlocks /\ MaxBlocks \in Nat
         /\ IsFiniteSet(A) /\ Cardinality(A) = n
<1>1. s \in [1 .. n -> A] /\ (\A i, j \in 1 .. n : s[i] = s[j] => i = j)
      /\ \A h \in A : \E i \in 1 .. n : s[i] = h
  BY DEF Chain
<1>2. IsFiniteSet(A) /\ Cardinality(A) = n
  <2>1. s \in Injection(1 .. n, A)
    BY <1>1 DEF Injection, IsInjective
  <2>2. s \in Surjection(1 .. n, A)
    BY <1>1 DEF Surjection
  <2>3. IsFiniteSet(1 .. n) /\ Cardinality(1 .. n) = n
    <3>1. 1 \in Int /\ n \in Int
      OBVIOUS
    <3>2. Cardinality(1 .. n) = (IF 1 > n THEN 0 ELSE n - 1 + 1) /\ IsFiniteSet(1 .. n)
      BY <3>1, FS_Interval
    <3>3. QED
      BY <3>2
  <2>4. ExistsBijection(1 .. n, A)
    BY <2>1, <2>2 DEF Bijection, ExistsBijection
  <2>5. QED
    BY <2>3, <2>4, FS_Bijection
<1>3. NUnits \in Nat /\ \A h \in A : h \in 2 .. NUnits /\ h + 1 \in 0 .. NUnits
  <2>1. NUnits \in Nat
    BY KrAssumption
  <2>2. ASSUME NEW h \in A PROVE h \in 2 .. NUnits /\ h + 1 \in 0 .. NUnits
    <3>1. h \in 2 .. NUnits /\ m.size[h] \in Nat /\ m.size[h] >= 1 /\ h + m.size[h] \in 0 .. NUnits
      BY HeadedIs DEF Addresses
    <3>2. QED
      BY <2>1, <3>1
  <2>3. QED
    BY <2>1, <2>2
<1>4. PICK P : P = A \X (0 .. 2)
  OBVIOUS
<1>5. PICK f : f = [x \in P |-> x[1] - 1 + x[2]]
  OBVIOUS
<1>6. f \in [P -> 1 .. NUnits]
  <2>1. ASSUME NEW x \in P PROVE x[1] - 1 + x[2] \in 1 .. NUnits
    <3>1. x[1] \in A /\ x[2] \in 0 .. 2
      BY <1>4
    <3>2. x[1] \in 2 .. NUnits /\ x[1] + 1 <= NUnits
      BY <1>3, <3>1
    <3>3. QED
      BY <1>3, <3>1, <3>2
  <2>2. QED
    BY <1>5, <2>1
<1>7. ASSUME NEW x \in P, NEW y \in P, f[x] = f[y] PROVE x = y
  <2>1. PICK g \in A, d \in 0 .. 2 : x = <<g, d>>
    BY <1>4
  <2>2. PICK h \in A, e \in 0 .. 2 : y = <<h, e>>
    BY <1>4
  <2>3. g \in 2 .. NUnits /\ h \in 2 .. NUnits /\ g - 1 + d = h - 1 + e
    BY <1>3, <1>5, <1>7, <2>1, <2>2
  <2>4. ASSUME NEW a \in A, NEW b \in A, a < b PROVE a + 2 < b
    <3>1. a \in H /\ b \in H
      OBVIOUS
    <3>2. a + m.size[a] + 1 < b
      BY <2>4, <3>1, BlocksApart
    <3>3. m.size[a] \in Nat /\ m.size[a] >= 1 /\ a \in 2 .. NUnits /\ b \in 2 .. NUnits
      BY <3>1, HeadedIs
    <3>4. QED
      BY <3>2, <3>3
  <2>5. g < h => g + 2 < h
    BY <2>4
  <2>6. h < g => h + 2 < g
    BY <2>4
  <2>7. g = h /\ d = e
    BY <2>3, <2>5, <2>6
  <2>8. QED
    BY <2>1, <2>2, <2>7
<1>8. f \in Injection(P, 1 .. NUnits)
  BY <1>6, <1>7 DEF Injection, IsInjective
<1>9. IsFiniteSet(0 .. 2) /\ Cardinality(0 .. 2) = 3
  <2>1. 0 \in Int /\ 2 \in Int
    OBVIOUS
  <2>2. Cardinality(0 .. 2) = (IF 0 > 2 THEN 0 ELSE 2 - 0 + 1) /\ IsFiniteSet(0 .. 2)
    BY <2>1, FS_Interval
  <2>3. QED
    BY <2>2
<1>10. Cardinality(P) = n * 3
  BY <1>2, <1>4, <1>9, FS_Product
<1>11. IsFiniteSet(1 .. NUnits) /\ Cardinality(1 .. NUnits) = NUnits
  <2>1. 1 \in Int /\ NUnits \in Int
    BY <1>3
  <2>2. Cardinality(1 .. NUnits) = (IF 1 > NUnits THEN 0 ELSE NUnits - 1 + 1) /\ IsFiniteSet(1 .. NUnits)
    BY <2>1, FS_Interval
  <2>3. QED
    BY <1>3, <2>2
<1>12. n * 3 <= NUnits
  <2>1. Cardinality(P) <= Cardinality(1 .. NUnits)
    BY <1>8, <1>11, FS_Injection
  <2>2. QED
    BY <1>10, <1>11, <2>1
<1>13. n <= NUnits \div 3 /\ NUnits \div 3 \in Nat
  BY <1>3, <1>12
<1>14. QED
  BY <1>2, <1>13 DEF MaxBlocks

\* Listed is the recursive function it is defined by.
LEMMA ListedStep ==
  ASSUME NEW m \in Heap, NEW first \in Addresses, MaxBlocks \in Nat
  PROVE  /\ Listed(m, first)[0] = first
         /\ \A k \in 0 .. MaxBlocks :
              Listed(m, first)[k+1] = IF Listed(m, first)[k] = 0 THEN 0
                                      ELSE m.ptr[Listed(m, first)[k]]
<1>1. PICK N \in Nat : N = MaxBlocks + 1
  OBVIOUS
<1>2. m.ptr \in [Addresses -> Addresses] /\ 0 \in Addresses
  <2>1. 0 \in Addresses
    BY KrAssumption DEF Addresses
  <2>2. QED
    BY <2>1 DEF Heap
<1>3. PICK D : D = Addresses
  OBVIOUS
<1>4. PICK c \in D : c = first
  BY <1>3
<1>5. PICK u : u = [a \in D |-> IF a = 0 THEN 0 ELSE m.ptr[a]]
  OBVIOUS
<1>6. u \in [D -> D]
  BY <1>2, <1>3, <1>5
<1>7. PICK G : G = [k \in 0 .. N - 1 |-> u]
  OBVIOUS
<1>8. PICK g : Solves(g, c, G, N, D)
  <2>1. Rule(G, N, D)
    BY <1>6, <1>7 DEF Rule
  <2>2. QED
    BY <2>1, Recursion
<1>9. /\ g \in [0 .. N -> D] /\ g[0] = first
      /\ \A k \in 0 .. N - 1 : g[k+1] = IF g[k] = 0 THEN 0 ELSE m.ptr[g[k]]
  <2>1. g \in [0 .. N -> D] /\ g[0] = first /\ \A k \in 0 .. N - 1 : g[k+1] = G[k][g[k]]
    BY <1>4, <1>8 DEF Solves
  <2>2. ASSUME NEW k \in 0 .. N - 1 PROVE g[k+1] = IF g[k] = 0 THEN 0 ELSE m.ptr[g[k]]
    <3>1. g[k] \in D /\ G[k] = u
      BY <1>7, <2>1
    <3>2. QED
      BY <1>5, <2>1, <3>1
  <2>3. QED
    BY <2>1, <2>2
<1>10. g = [k \in 0 .. MaxBlocks + 1 |->
              IF k = 0 THEN first ELSE IF g[k-1] = 0 THEN 0 ELSE m.ptr[g[k-1]]]
  <2>1. ASSUME NEW k \in 0 .. MaxBlocks + 1
        PROVE  g[k] = IF k = 0 THEN first ELSE IF g[k-1] = 0 THEN 0 ELSE m.ptr[g[k-1]]
    <3>1. CASE k = 0
      BY <1>9, <3>1
    <3>2. CASE k # 0
      <4>1. k - 1 \in 0 .. N - 1 /\ (k - 1) + 1 = k
        BY <1>1, <3>2
      <4>2. QED
        BY <1>9, <3>2, <4>1
    <3>3. QED
      BY <3>1, <3>2
  <2>2. QED
    BY <1>1, <1>9, <2>1
<1>11. PICK h : h = Listed(m, first)
  OBVIOUS
<1>12. h = [k \in 0 .. MaxBlocks + 1 |->
              IF k = 0 THEN first ELSE IF h[k-1] = 0 THEN 0 ELSE m.ptr[h[k-1]]]
  BY <1>10, <1>11 DEF Listed
<1>13. h[0] = first
  BY <1>12
<1>14. ASSUME NEW k \in 0 .. MaxBlocks PROVE h[k+1] = IF h[k] = 0 THEN 0 ELSE m.ptr[h[k]]
  <2>1. k + 1 \in 0 .. MaxBlocks + 1 /\ k + 1 # 0 /\ (k + 1) - 1 = k
    OBVIOUS
  <2>2. QED
    BY <1>12, <2>1
<1>15. QED
  BY <1>11, <1>13, <1>14

\* Listed is the chain, then 0.
IsListed(m, first, n, s) ==
  \A k \in 0 .. MaxBlocks + 1 : Listed(m, first)[k] = IF k < n THEN s[k+1] ELSE 0

\* Listed goes along the list, and then stays at 0: Blocks has the blocks.
LEMMA ListedIs ==
  ASSUME NEW m, NEW F, NEW H, KrHeap(m, F, Under(H)), Headed(m, H), NEW A, A \subseteq H,
         NEW first, NEW n \in Nat, NEW s, Chain(m, first, A, n, s)
  PROVE  IsListed(m, first, n, s) /\ Blocks(m, first) = A /\ first \in {0} \cup A
         /\ Listed(m, first)[MaxBlocks + 1] = 0
<1>1. n <= MaxBlocks /\ MaxBlocks \in Nat
  BY ChainShort
<1>2. /\ s \in [1 .. n -> A] /\ \A h \in A : \E i \in 1 .. n : s[i] = h
      /\ first = IF n = 0 THEN 0 ELSE s[1]
      /\ \A i \in 1 .. n : m.ptr[s[i]] = IF i = n THEN 0 ELSE s[i+1]
  BY DEF Chain
<1>3. \A h \in A : h # 0 /\ h \in Addresses
  <2>1. ASSUME NEW h \in A PROVE h # 0 /\ h \in Addresses
    <3>1. h \in H
      OBVIOUS
    <3>2. h \in 2 .. NUnits
      BY <3>1, HeadedIs
    <3>3. QED
      BY <3>2, KrAssumption DEF Addresses
  <2>2. QED
    BY <2>1
<1>4. first \in {0} \cup A /\ first \in Addresses /\ m \in Heap
  <2>1. first \in {0} \cup A
    <3>1. CASE n = 0
      BY <1>2, <3>1
    <3>2. CASE n # 0
      <4>1. 1 \in 1 .. n
        BY <3>2
      <4>2. QED
        BY <1>2, <3>2, <4>1
    <3>3. QED
      BY <3>1, <3>2
  <2>2. QED
    BY <1>3, <2>1, KrAssumption DEF KrHeap, Addresses
<1>5. PICK h : h = Listed(m, first)
  OBVIOUS
<1>6. h[0] = first /\ \A k \in 0 .. MaxBlocks : h[k+1] = IF h[k] = 0 THEN 0 ELSE m.ptr[h[k]]
  BY <1>1, <1>4, <1>5, ListedStep
<1>7. PICK S : S = {k \in 0 .. MaxBlocks + 1 : h[k] = IF k < n THEN s[k+1] ELSE 0}
  OBVIOUS
<1>8. 0 \in S
  BY <1>1, <1>2, <1>6, <1>7
<1>9. ASSUME NEW k \in 0 .. (MaxBlocks + 1) - 1, k \in S PROVE k + 1 \in S
  <2>1. k \in 0 .. MaxBlocks /\ k + 1 \in 0 .. MaxBlocks + 1 /\ h[k] = IF k < n THEN s[k+1] ELSE 0
    BY <1>1, <1>7, <1>9
  <2>2. CASE k < n
    <3>1. k + 1 \in 1 .. n
      BY <2>1, <2>2
    <3>2. h[k] = s[k+1] /\ s[k+1] \in A
      BY <1>2, <2>1, <2>2, <3>1
    <3>3. h[k+1] = m.ptr[s[k+1]]
      BY <1>3, <1>6, <2>1, <3>2
    <3>4. h[k+1] = IF k + 1 = n THEN 0 ELSE s[(k+1)+1]
      BY <1>2, <3>1, <3>3
    <3>5. k + 1 = n \/ k + 1 < n
      BY <3>1
    <3>6. QED
      BY <1>7, <2>1, <3>1, <3>4, <3>5
  <2>3. CASE ~ (k < n)
    <3>1. h[k+1] = 0 /\ ~ (k + 1 < n)
      BY <1>6, <2>1, <2>3
    <3>2. QED
      BY <1>7, <2>1, <3>1
  <2>4. QED
    BY <2>2, <2>3
<1>10. 0 .. MaxBlocks + 1 \subseteq S
  <2>1. MaxBlocks + 1 \in Nat
    BY <1>1
  <2>2. QED
    BY <1>8, <1>9, <2>1, InductTo
<1>11. \A k \in 0 .. MaxBlocks + 1 : h[k] = IF k < n THEN s[k+1] ELSE 0
  BY <1>7, <1>10
<1>12. Blocks(m, first) = {h[k] : k \in 0 .. MaxBlocks} \ {0}
  BY <1>5 DEF Blocks
<1>13. ASSUME NEW b \in A PROVE b \in {h[k] : k \in 0 .. MaxBlocks} \ {0}
  <2>1. PICK i \in 1 .. n : s[i] = b
    BY <1>2
  <2>2. i - 1 \in 0 .. MaxBlocks /\ i - 1 \in 0 .. MaxBlocks + 1 /\ i - 1 < n /\ (i - 1) + 1 = i
    BY <1>1
  <2>3. h[i-1] = b
    BY <1>11, <2>1, <2>2
  <2>4. QED
    BY <1>3, <2>2, <2>3
<1>14. ASSUME NEW k \in 0 .. MaxBlocks, h[k] # 0 PROVE h[k] \in A
  <2>1. k \in 0 .. MaxBlocks + 1
    BY <1>1
  <2>2. k < n /\ h[k] = s[k+1]
    BY <1>11, <1>14, <2>1
  <2>3. k + 1 \in 1 .. n
    BY <2>2
  <2>4. QED
    BY <1>2, <2>2, <2>3
<1>15. Blocks(m, first) = A
  BY <1>12, <1>13, <1>14
<1>16. h[MaxBlocks + 1] = 0
  <2>1. MaxBlocks + 1 \in 0 .. MaxBlocks + 1 /\ ~ (MaxBlocks + 1 < n)
    BY <1>1
  <2>2. QED
    BY <1>11, <2>1
<1>17. QED
  BY <1>4, <1>5, <1>11, <1>15, <1>16 DEF IsListed

-----------------------------------------------------------------------------
(* ckalloc's way to the end of the list: it counts bytes. *)

\* Seen is the recursive function it is defined by.
LEMMA SeenStep ==
  ASSUME mem \in Heap, MaxBlocks \in Nat,
         \A k \in 0 .. MaxBlocks + 1 : Listed(mem, alloc_list)[k] \in Addresses
  PROVE  /\ Seen[0] = 0
         /\ \A k \in 0 .. MaxBlocks : Seen[k+1] = Seen[k] + mem.size[Listed(mem, alloc_list)[k]]
<1>1. PICK N \in Nat : N = MaxBlocks + 1
  OBVIOUS
<1>2. PICK h, z : h = Listed(mem, alloc_list) /\ z = mem.size
  OBVIOUS
<1>3. \A k \in 0 .. N : z[h[k]] \in Nat
  BY <1>1, <1>2 DEF Heap
<1>4. PICK G : G = [k \in 0 .. N - 1 |-> [x \in Nat |-> x + z[h[k]]]]
  OBVIOUS
<1>5. PICK c \in Nat : c = 0
  OBVIOUS
<1>6. Rule(G, N, Nat)
  <2>1. ASSUME NEW k \in 0 .. N - 1, NEW x \in Nat PROVE x + z[h[k]] \in Nat
    BY <1>1, <1>3
  <2>2. QED
    BY <1>4, <2>1 DEF Rule
<1>7. PICK g : Solves(g, c, G, N, Nat)
  BY <1>6, Recursion
<1>8. /\ g \in [0 .. N -> Nat] /\ g[0] = 0
      /\ \A k \in 0 .. N - 1 : g[k+1] = g[k] + z[h[k]]
  <2>1. g \in [0 .. N -> Nat] /\ g[0] = 0 /\ \A k \in 0 .. N - 1 : g[k+1] = G[k][g[k]]
    BY <1>5, <1>7 DEF Solves
  <2>2. ASSUME NEW k \in 0 .. N - 1 PROVE g[k+1] = g[k] + z[h[k]]
    <3>1. g[k] \in Nat /\ G[k] = [x \in Nat |-> x + z[h[k]]]
      BY <1>1, <1>4, <2>1
    <3>2. QED
      BY <2>1, <3>1
  <2>3. QED
    BY <2>1, <2>2
<1>9. g = [k \in 0 .. MaxBlocks + 1 |-> IF k = 0 THEN 0 ELSE g[k-1] + z[h[k-1]]]
  <2>1. ASSUME NEW k \in 0 .. MaxBlocks + 1
        PROVE  g[k] = IF k = 0 THEN 0 ELSE g[k-1] + z[h[k-1]]
    <3>1. CASE k = 0
      BY <1>8, <3>1
    <3>2. CASE k # 0
      <4>1. k - 1 \in 0 .. N - 1 /\ (k - 1) + 1 = k
        BY <1>1, <3>2
      <4>2. QED
        BY <1>8, <3>2, <4>1
    <3>3. QED
      BY <3>1, <3>2
  <2>2. QED
    BY <1>1, <1>8, <2>1
<1>10. PICK e : e = Seen
  OBVIOUS
<1>11. e = [k \in 0 .. MaxBlocks + 1 |-> IF k = 0 THEN 0 ELSE e[k-1] + z[h[k-1]]]
  BY <1>2, <1>9, <1>10 DEF Seen
<1>12. e[0] = 0
  BY <1>11
<1>13. ASSUME NEW k \in 0 .. MaxBlocks PROVE e[k+1] = e[k] + z[h[k]]
  <2>1. k + 1 \in 0 .. MaxBlocks + 1 /\ k + 1 # 0 /\ (k + 1) - 1 = k
    OBVIOUS
  <2>2. QED
    BY <1>11, <2>1
<1>14. QED
  BY <1>2, <1>10, <1>12, <1>13

\* No block is empty, so that each adds to the count.
LEMMA CountsGrow ==
  ASSUME NEW m, NEW n \in Nat, NEW s, NEW t, Counts(m, n, s, t),
         \A i \in 1 .. n : m.size[s[i]] \in Nat /\ m.size[s[i]] >= 1,
         NEW i \in 0 .. n, NEW j \in 0 .. n, i < j
  PROVE  t[i] < t[j]
<1>1. t \in [0 .. n -> Nat] /\ \A x \in 1 .. n : t[x] = t[x-1] + m.size[s[x]]
  BY DEF Counts
<1>2. PICK d \in Nat : d = (j - i) - 1
  OBVIOUS
<1>3. PICK S : S = {x \in 0 .. d : t[i] < t[(i + 1) + x]}
  OBVIOUS
<1>4. \A x \in 0 .. n - 1 : t[x] < t[x+1]
  <2>1. ASSUME NEW x \in 0 .. n - 1 PROVE t[x] < t[x+1]
    <3>1. x + 1 \in 1 .. n /\ (x + 1) - 1 = x /\ x \in 0 .. n
      OBVIOUS
    <3>2. t[x+1] = t[x] + m.size[s[x+1]] /\ t[x] \in Nat /\ m.size[s[x+1]] \in Nat /\ m.size[s[x+1]] >= 1
      BY <1>1, <3>1
    <3>3. QED
      BY <3>2
  <2>2. QED
    BY <2>1
<1>5. 0 \in S
  <2>1. i \in 0 .. n - 1 /\ (i + 1) + 0 = i + 1
    OBVIOUS
  <2>2. QED
    BY <1>2, <1>3, <1>4, <2>1
<1>6. ASSUME NEW x \in 0 .. d - 1, x \in S PROVE x + 1 \in S
  <2>1. x + 1 \in 0 .. d /\ (i + 1) + x \in 0 .. n - 1 /\ (i + 1) + (x + 1) = ((i + 1) + x) + 1
    BY <1>2
  <2>2. PICK y \in 0 .. n - 1 : y = (i + 1) + x
    BY <2>1
  <2>3. t[i] \in Nat /\ t[y] \in Nat /\ t[y+1] \in Nat
    <3>1. y \in 0 .. n /\ y + 1 \in 0 .. n
      OBVIOUS
    <3>2. QED
      BY <1>1, <3>1
  <2>4. t[i] < t[y] /\ t[y] < t[y+1]
    BY <1>3, <1>4, <1>6, <2>2
  <2>5. t[i] < t[y+1]
    BY <2>3, <2>4
  <2>6. QED
    BY <1>3, <2>1, <2>2, <2>5
<1>7. d \in S
  <2>1. 0 .. d \subseteq S
    BY <1>5, <1>6, InductTo
  <2>2. QED
    BY <2>1
<1>8. (i + 1) + d = j
  BY <1>2
<1>9. QED
  BY <1>3, <1>7, <1>8

\* A list from which the k-th block was taken.
Cut(m, r, n, s, k) ==
  \A i \in 1 .. n : i # k => r.ptr[s[i]] = IF i = k - 1 THEN m.ptr[s[k]] ELSE m.ptr[s[i]]
Without(s, n, k) == [i \in 1 .. n - 1 |-> IF i < k THEN s[i] ELSE s[i+1]]

\* It lists the other blocks, in the same order.
LEMMA ChainCut ==
  ASSUME NEW m, NEW r, NEW first, NEW A, NEW n \in Nat, NEW s, Chain(m, first, A, n, s),
         NEW k \in 1 .. n, Cut(m, r, n, s, k), NEW h, h = s[k],
         NEW new, new = IF first = h THEN m.ptr[h] ELSE first
  PROVE  Chain(r, new, A \ {h}, n - 1, Without(s, n, k))
<1>1. /\ s \in [1 .. n -> A] /\ (\A i, j \in 1 .. n : s[i] = s[j] => i = j)
      /\ \A b \in A : \E i \in 1 .. n : s[i] = b
      /\ first = IF n = 0 THEN 0 ELSE s[1]
      /\ \A i \in 1 .. n : m.ptr[s[i]] = IF i = n THEN 0 ELSE s[i+1]
  BY DEF Chain
<1>2. PICK w : w = Without(s, n, k)
  OBVIOUS
<1>3. PICK f : f = [i \in 1 .. n - 1 |-> IF i < k THEN i ELSE i + 1]
  OBVIOUS
<1>4. \A i \in 1 .. n - 1 : f[i] \in 1 .. n /\ f[i] # k /\ f[i] = IF i < k THEN i ELSE i + 1
  BY <1>3
<1>5. w = [i \in 1 .. n - 1 |-> s[f[i]]]
  BY <1>2, <1>3 DEF Without
<1>6. \A i \in 1 .. n - 1 : w[i] = s[f[i]]
  BY <1>5
<1>7. w \in [1 .. n - 1 -> A \ {h}]
  <2>1. ASSUME NEW i \in 1 .. n - 1 PROVE s[f[i]] \in A \ {h}
    <3>1. f[i] \in 1 .. n /\ f[i] # k
      BY <1>4
    <3>2. QED
      BY <1>1, <3>1
  <2>2. QED
    BY <1>5, <2>1
<1>8. ASSUME NEW i \in 1 .. n - 1, NEW j \in 1 .. n - 1, w[i] = w[j] PROVE i = j
  <2>1. f[i] = f[j]
    BY <1>1, <1>4, <1>6, <1>8
  <2>2. QED
    BY <1>4, <2>1
<1>9. ASSUME NEW b \in A \ {h} PROVE \E i \in 1 .. n - 1 : w[i] = b
  <2>1. PICK j \in 1 .. n : s[j] = b
    BY <1>1
  <2>2. j # k
    BY <2>1
  <2>3. PICK i \in 1 .. n - 1 : f[i] = j
    <3>1. CASE j < k
      <4>1. j \in 1 .. n - 1
        BY <3>1
      <4>2. QED
        BY <1>4, <3>1, <4>1
    <3>2. CASE j > k
      <4>1. j - 1 \in 1 .. n - 1 /\ ~ (j - 1 < k) /\ (j - 1) + 1 = j
        BY <3>2
      <4>2. QED
        BY <1>4, <4>1
    <3>3. QED
      BY <2>2, <3>1, <3>2
  <2>4. QED
    BY <1>6, <2>1, <2>3
<1>10. new = IF n - 1 = 0 THEN 0 ELSE w[1]
  <2>1. n # 0 /\ first = s[1] /\ 1 \in 1 .. n
    BY <1>1
  <2>2. CASE k = 1
    <3>1. new = IF n = 1 THEN 0 ELSE s[2]
      BY <1>1, <2>1, <2>2
    <3>2. n # 1 => 1 \in 1 .. n - 1 /\ f[1] = 2
      BY <1>4, <2>2
    <3>3. QED
      BY <1>6, <3>1, <3>2
  <2>3. CASE k # 1
    <3>1. new = s[1]
      BY <1>1, <2>1, <2>3
    <3>2. n # 1 /\ 1 \in 1 .. n - 1 /\ 1 < k
      BY <2>3
    <3>3. f[1] = 1
      BY <1>4, <3>2
    <3>4. QED
      BY <1>6, <3>1, <3>2, <3>3
  <2>4. QED
    BY <2>2, <2>3
<1>11. ASSUME NEW i \in 1 .. n - 1 PROVE r.ptr[w[i]] = IF i = n - 1 THEN 0 ELSE w[i+1]
  <2>1. f[i] \in 1 .. n /\ f[i] # k /\ f[i] = (IF i < k THEN i ELSE i + 1) /\ w[i] = s[f[i]]
    BY <1>4, <1>6
  <2>2. i # n - 1 => i + 1 \in 1 .. n - 1 /\ w[i+1] = s[f[i+1]] /\ f[i+1] = IF i + 1 < k THEN i + 1 ELSE (i + 1) + 1
    <3>1. ASSUME i # n - 1 PROVE i + 1 \in 1 .. n - 1
      BY <3>1
    <3>2. QED
      BY <1>4, <1>6, <3>1
  <2>3. r.ptr[w[i]] = IF f[i] = k - 1 THEN m.ptr[s[k]] ELSE m.ptr[s[f[i]]]
    BY <2>1 DEF Cut
  <2>4. m.ptr[s[f[i]]] = IF f[i] = n THEN 0 ELSE s[f[i]+1]
    BY <1>1, <2>1
  <2>5. m.ptr[s[k]] = IF k = n THEN 0 ELSE s[k+1]
    BY <1>1
  <2>6. CASE i < k - 1
    BY <2>1, <2>2, <2>3, <2>4, <2>6
  <2>7. CASE i = k - 1
    <3>1. f[i] = k - 1 /\ (i = n - 1 <=> k = n)
      BY <2>1, <2>7
    <3>2. k # n => w[i+1] = s[k+1]
      BY <2>2, <2>7, <3>1
    <3>3. QED
      BY <2>3, <2>5, <3>1, <3>2
  <2>8. CASE i > k - 1
    <3>1. f[i] = i + 1 /\ (i = n - 1 <=> f[i] = n)
      BY <2>1, <2>8
    <3>2. i # n - 1 => w[i+1] = s[f[i]+1]
      BY <2>2, <2>8, <3>1
    <3>3. f[i] # k - 1
      BY <2>8, <3>1
    <3>4. QED
      BY <2>3, <2>4, <3>1, <3>2, <3>3
  <2>9. QED
    BY <2>6, <2>7, <2>8
<1>12. n - 1 \in Nat
  OBVIOUS
<1>13. QED
  BY <1>2, <1>7, <1>8, <1>9, <1>10, <1>11 DEF Chain

SizesKept(m, r, H) == \A h \in H : r.size[h] = m.size[h]

\* It counts the data of the others.
LEMMA CountsCut ==
  ASSUME NEW m, NEW r, NEW first, NEW A, NEW n \in Nat, NEW s, Chain(m, first, A, n, s),
         NEW t, Counts(m, n, s, t), NEW k \in 1 .. n, NEW h, h = s[k], SizesKept(m, r, A \ {h}),
         \A b \in A : m.size[b] \in Nat /\ m.size[b] >= 1
  PROVE  \E u : Counts(r, n - 1, Without(s, n, k), u) /\ u[n-1] = t[n] - m.size[h]
<1>1. s \in [1 .. n -> A] /\ \A i, j \in 1 .. n : s[i] = s[j] => i = j
  BY DEF Chain
<1>2. t \in [0 .. n -> Nat] /\ t[0] = 0 /\ \A x \in 1 .. n : t[x] = t[x-1] + m.size[s[x]]
  BY DEF Counts
<1>3. PICK c \in Nat : c = m.size[h]
  BY <1>1
<1>4. PICK u : u = [i \in 0 .. n - 1 |-> IF i < k THEN t[i] ELSE t[i+1] - c]
  OBVIOUS
<1>5. \A i \in 1 .. n : m.size[s[i]] \in Nat /\ m.size[s[i]] >= 1
  BY <1>1
<1>6. t[k] = t[k-1] + c /\ t[k] \in Nat /\ t[k-1] \in Nat
  <2>1. k - 1 \in 0 .. n /\ k \in 0 .. n
    OBVIOUS
  <2>2. QED
    BY <1>2, <1>3, <2>1
<1>7. u \in [0 .. n - 1 -> Nat]
  <2>1. ASSUME NEW i \in 0 .. n - 1 PROVE (IF i < k THEN t[i] ELSE t[i+1] - c) \in Nat
    <3>1. CASE i < k
      BY <1>2, <3>1
    <3>2. CASE ~ (i < k)
      <4>1. i + 1 \in 0 .. n /\ k \in 0 .. n /\ k < i + 1
        BY <3>2
      <4>2. t[k] < t[i+1] /\ t[i+1] \in Nat
        BY <1>2, <1>5, <4>1, CountsGrow
      <4>3. t[i+1] - c \in Nat
        BY <1>6, <4>2
      <4>4. QED
        BY <3>2, <4>3
    <3>3. QED
      BY <3>1, <3>2
  <2>2. QED
    BY <1>4, <2>1
<1>8. u[0] = 0
  BY <1>2, <1>4
<1>9. PICK w : w = Without(s, n, k)
  OBVIOUS
<1>10. ASSUME NEW i \in 1 .. n - 1 PROVE u[i] = u[i-1] + r.size[w[i]]
  <2>1. i \in 0 .. n - 1 /\ i - 1 \in 0 .. n - 1
    OBVIOUS
  <2>2. u[i] = (IF i < k THEN t[i] ELSE t[i+1] - c) /\ u[i-1] = (IF i - 1 < k THEN t[i-1] ELSE t[(i-1)+1] - c)
    BY <1>4, <2>1
  <2>3. w[i] = IF i < k THEN s[i] ELSE s[i+1]
    BY <1>9 DEF Without
  <2>4. PICK j \in 1 .. n : j # k /\ w[i] = s[j] /\ j = IF i < k THEN i ELSE i + 1
    <3>1. CASE i < k
      BY <2>3, <3>1
    <3>2. CASE ~ (i < k)
      <4>1. i + 1 \in 1 .. n /\ i + 1 # k
        BY <3>2
      <4>2. QED
        BY <2>3, <3>2, <4>1
    <3>3. QED
      BY <3>1, <3>2
  <2>5. r.size[w[i]] = m.size[s[j]] /\ m.size[s[j]] \in Nat
    <3>1. s[j] \in A \ {h}
      BY <1>1, <2>4
    <3>2. QED
      BY <1>5, <2>4, <3>1 DEF SizesKept
  <2>6. t[j] = t[j-1] + m.size[s[j]] /\ t[j] \in Nat /\ t[j-1] \in Nat
    <3>1. j \in 0 .. n /\ j - 1 \in 0 .. n
      OBVIOUS
    <3>2. QED
      BY <1>2, <3>1
  <2>7. CASE i < k
    <3>1. j = i /\ u[i] = t[j] /\ u[i-1] = t[j-1]
      BY <2>2, <2>4, <2>7
    <3>2. QED
      BY <2>5, <2>6, <3>1
  <2>8. CASE i = k
    <3>1. j = i + 1 /\ u[i] = t[j] - c /\ u[i-1] = t[k-1] /\ j - 1 = k
      BY <2>2, <2>4, <2>8
    <3>2. QED
      BY <1>6, <2>5, <2>6, <3>1
  <2>9. CASE i > k
    <3>1. j = i + 1 /\ u[i] = t[j] - c /\ u[i-1] = t[j-1] - c /\ (i - 1) + 1 = j - 1
      BY <2>2, <2>4, <2>9
    <3>2. QED
      BY <2>5, <2>6, <3>1
  <2>10. QED
    BY <2>7, <2>8, <2>9
<1>11. u[n-1] = t[n] - c
  <2>1. n - 1 \in 0 .. n - 1 /\ (n - 1) + 1 = n
    OBVIOUS
  <2>2. CASE n - 1 < k
    <3>1. n = k /\ u[n-1] = t[n-1]
      BY <1>4, <2>1, <2>2
    <3>2. QED
      BY <1>6, <3>1
  <2>3. CASE ~ (n - 1 < k)
    BY <1>4, <2>1, <2>3
  <2>4. QED
    BY <2>2, <2>3
<1>12. Counts(r, n - 1, w, u)
  BY <1>7, <1>8, <1>10 DEF Counts
<1>13. QED
  BY <1>3, <1>9, <1>11, <1>12

\* A list at whose end the block h was put.
Extended(m, r, n, s, h) ==
  r.ptr[h] = 0 /\ \A i \in 1 .. n : r.ptr[s[i]] = IF i = n THEN h ELSE m.ptr[s[i]]
With(s, n, h) == [i \in 1 .. n + 1 |-> IF i = n + 1 THEN h ELSE s[i]]

\* It lists the new block last.
LEMMA ChainExtended ==
  ASSUME NEW m, NEW r, NEW first, NEW A, NEW n \in Nat, NEW s, Chain(m, first, A, n, s),
         NEW h, h \notin A, Extended(m, r, n, s, h),
         NEW new, new = IF n = 0 THEN h ELSE first
  PROVE  Chain(r, new, A \cup {h}, n + 1, With(s, n, h))
<1>1. /\ s \in [1 .. n -> A] /\ (\A i, j \in 1 .. n : s[i] = s[j] => i = j)
      /\ \A b \in A : \E i \in 1 .. n : s[i] = b
      /\ first = IF n = 0 THEN 0 ELSE s[1]
      /\ \A i \in 1 .. n : m.ptr[s[i]] = IF i = n THEN 0 ELSE s[i+1]
  BY DEF Chain
<1>2. PICK w : w = With(s, n, h)
  OBVIOUS
<1>3. w = [i \in 1 .. n + 1 |-> IF i = n + 1 THEN h ELSE s[i]]
  BY <1>2 DEF With
<1>4. w[n+1] = h /\ \A i \in 1 .. n : w[i] = s[i] /\ i \in 1 .. n + 1
  BY <1>3
<1>5. \A i \in 1 .. n + 1 : i = n + 1 \/ i \in 1 .. n
  OBVIOUS
<1>6. w \in [1 .. n + 1 -> A \cup {h}]
  <2>1. ASSUME NEW i \in 1 .. n + 1 PROVE (IF i = n + 1 THEN h ELSE s[i]) \in A \cup {h}
    BY <1>1, <1>5
  <2>2. QED
    BY <1>3, <2>1
<1>7. ASSUME NEW i \in 1 .. n + 1, NEW j \in 1 .. n + 1, w[i] = w[j] PROVE i = j
  BY <1>1, <1>4, <1>5, <1>7
<1>8. ASSUME NEW b \in A \cup {h} PROVE \E i \in 1 .. n + 1 : w[i] = b
  <2>1. CASE b = h
    <3>1. n + 1 \in 1 .. n + 1
      OBVIOUS
    <3>2. QED
      BY <1>4, <2>1, <3>1
  <2>2. CASE b \in A
    BY <1>1, <1>4, <2>2
  <2>3. QED
    BY <2>1, <2>2
<1>9. new = IF n + 1 = 0 THEN 0 ELSE w[1]
  <2>1. CASE n = 0
    BY <1>4, <2>1
  <2>2. CASE n # 0
    <3>1. 1 \in 1 .. n
      BY <2>2
    <3>2. QED
      BY <1>1, <1>4, <2>2, <3>1
  <2>3. QED
    BY <2>1, <2>2
<1>10. ASSUME NEW i \in 1 .. n + 1 PROVE r.ptr[w[i]] = IF i = n + 1 THEN 0 ELSE w[i+1]
  <2>1. CASE i = n + 1
    BY <1>4, <2>1 DEF Extended
  <2>2. CASE i = n /\ n # 0
    <3>1. i \in 1 .. n
      BY <2>2
    <3>2. r.ptr[s[i]] = h
      BY <2>2, <3>1 DEF Extended
    <3>3. QED
      BY <1>4, <2>2, <3>1, <3>2
  <2>3. CASE i \in 1 .. n - 1
    <3>1. i \in 1 .. n /\ i + 1 \in 1 .. n /\ i # n /\ i # n + 1
      BY <2>3
    <3>2. r.ptr[s[i]] = s[i+1]
      BY <1>1, <3>1 DEF Extended
    <3>3. QED
      BY <1>4, <3>1, <3>2
  <2>4. QED
    BY <1>10, <2>1, <2>2, <2>3
<1>11. QED
  BY <1>2, <1>6, <1>7, <1>8, <1>9, <1>10 DEF Chain

CountsOneMore(r, n, s, t, h) ==
  \E u : Counts(r, n + 1, With(s, n, h), u) /\ u[n+1] = t[n] + r.size[h]

\* It counts the data of the new block as well.
LEMMA CountsExtended ==
  ASSUME NEW m, NEW r, NEW first, NEW A, NEW n \in Nat, NEW s, Chain(m, first, A, n, s),
         NEW t, Counts(m, n, s, t), NEW h, SizesKept(m, r, A), r.size[h] \in Nat
  PROVE  CountsOneMore(r, n, s, t, h)
<1>1. s \in [1 .. n -> A]
  BY DEF Chain
<1>2. t \in [0 .. n -> Nat] /\ t[0] = 0 /\ \A x \in 1 .. n : t[x] = t[x-1] + m.size[s[x]]
  BY DEF Counts
<1>3. PICK c \in Nat : c = t[n] + r.size[h]
  BY <1>2
<1>4. PICK u : u = [i \in 0 .. n + 1 |-> IF i = n + 1 THEN c ELSE t[i]]
  OBVIOUS
<1>5. u[n+1] = c /\ \A i \in 0 .. n : u[i] = t[i] /\ i \in 0 .. n + 1
  BY <1>4
<1>6. u \in [0 .. n + 1 -> Nat]
  BY <1>2, <1>4
<1>7. PICK w : w = With(s, n, h)
  OBVIOUS
<1>8. w[n+1] = h /\ \A i \in 1 .. n : w[i] = s[i]
  BY <1>7 DEF With
<1>9. ASSUME NEW i \in 1 .. n + 1 PROVE u[i] = u[i-1] + r.size[w[i]]
  <2>1. CASE i = n + 1
    <3>1. i - 1 = n /\ n \in 0 .. n
      BY <2>1
    <3>2. QED
      BY <1>3, <1>5, <1>8, <2>1, <3>1
  <2>2. CASE i \in 1 .. n
    <3>1. i \in 0 .. n /\ i - 1 \in 0 .. n
      BY <2>2
    <3>2. r.size[w[i]] = m.size[s[i]]
      BY <1>1, <1>8, <2>2 DEF SizesKept
    <3>3. QED
      BY <1>2, <1>5, <2>2, <3>1, <3>2
  <2>3. QED
    BY <1>9, <2>1, <2>2
<1>10. u[0] = 0
  BY <1>2, <1>5
<1>11. Counts(r, n + 1, w, u)
  BY <1>6, <1>9, <1>10 DEF Counts
<1>12. QED
  BY <1>3, <1>5, <1>7, <1>11 DEF CountsOneMore

\* A list none of whose links changed.
LEMMA ChainKept ==
  ASSUME NEW m, NEW r, NEW first, NEW A, NEW n \in Nat, NEW s, Chain(m, first, A, n, s),
         \A b \in A : r.ptr[b] = m.ptr[b]
  PROVE  Chain(r, first, A, n, s)
<1>1. s \in [1 .. n -> A]
  BY DEF Chain
<1>2. \A i \in 1 .. n : r.ptr[s[i]] = m.ptr[s[i]]
  BY <1>1
<1>3. QED
  BY <1>2 DEF Chain

\* The count depends on the sizes of the blocks listed only.
LEMMA CountsKept ==
  ASSUME NEW m, NEW r, NEW first, NEW A, NEW n \in Nat, NEW s, Chain(m, first, A, n, s),
         NEW t, Counts(m, n, s, t), SizesKept(m, r, A)
  PROVE  Counts(r, n, s, t)
<1>1. s \in [1 .. n -> A]
  BY DEF Chain
<1>2. \A i \in 1 .. n : r.size[s[i]] = m.size[s[i]]
  BY <1>1 DEF SizesKept
<1>3. QED
  BY <1>2 DEF Counts

\* Seen counts the data of the blocks that were passed.
LEMMA SeenIs ==
  ASSUME NEW F, NEW H, KrHeap(mem, F, Under(H)), Headed(mem, H), NEW A, A \subseteq H,
         NEW n \in Nat, NEW s, Chain(mem, alloc_list, A, n, s), NEW t, Counts(mem, n, s, t)
  PROVE  \A k \in 0 .. MaxBlocks + 1 : Seen[k] = IF k < n THEN t[k] ELSE t[n]
<1>1. n <= MaxBlocks /\ MaxBlocks \in Nat
  BY ChainShort
<1>2. IsListed(mem, alloc_list, n, s)
  BY ListedIs
<1>3. PICK h : h = Listed(mem, alloc_list)
  OBVIOUS
<1>4. \A k \in 0 .. MaxBlocks + 1 : h[k] = IF k < n THEN s[k+1] ELSE 0
  BY <1>2, <1>3 DEF IsListed
<1>5. s \in [1 .. n -> A] /\ mem \in Heap /\ A \subseteq Addresses /\ 0 \in Addresses /\ mem.size[0] = 0
  BY KrAssumption DEF Chain, KrHeap, Headed, Ringed, Addresses
<1>6. \A k \in 0 .. MaxBlocks + 1 : h[k] \in Addresses
  <2>1. ASSUME NEW k \in 0 .. MaxBlocks + 1 PROVE h[k] \in Addresses
    <3>1. CASE k < n
      <4>1. k + 1 \in 1 .. n
        BY <1>1, <3>1
      <4>2. QED
        BY <1>4, <1>5, <3>1, <4>1
    <3>2. CASE ~ (k < n)
      BY <1>4, <1>5, <3>2
    <3>3. QED
      BY <3>1, <3>2
  <2>2. QED
    BY <2>1
<1>7. PICK e : e = Seen
  OBVIOUS
<1>8. e[0] = 0 /\ \A k \in 0 .. MaxBlocks : e[k+1] = e[k] + mem.size[h[k]]
  BY <1>1, <1>3, <1>5, <1>6, <1>7, SeenStep
<1>9. t \in [0 .. n -> Nat] /\ t[0] = 0 /\ \A i \in 1 .. n : t[i] = t[i-1] + mem.size[s[i]]
  BY DEF Counts
<1>10. PICK S : S = {k \in 0 .. MaxBlocks + 1 : e[k] = IF k < n THEN t[k] ELSE t[n]}
  OBVIOUS
<1>11. 0 \in S
  BY <1>1, <1>8, <1>9, <1>10
<1>12. ASSUME NEW k \in 0 .. (MaxBlocks + 1) - 1, k \in S PROVE k + 1 \in S
  <2>1. k \in 0 .. MaxBlocks /\ k + 1 \in 0 .. MaxBlocks + 1 /\ k \in 0 .. MaxBlocks + 1
        /\ e[k] = IF k < n THEN t[k] ELSE t[n]
    BY <1>1, <1>10, <1>12
  <2>2. CASE k < n
    <3>1. k + 1 \in 1 .. n /\ (k + 1) - 1 = k
      BY <2>1, <2>2
    <3>2. t[k+1] = t[k] + mem.size[s[k+1]]
      BY <1>9, <3>1
    <3>3. e[k+1] = t[k+1]
      BY <1>4, <1>8, <2>1, <2>2, <3>2
    <3>4. k + 1 < n \/ k + 1 = n
      BY <3>1
    <3>5. QED
      BY <1>10, <2>1, <3>3, <3>4
  <2>3. CASE ~ (k < n)
    <3>1. e[k+1] = t[n] + 0 /\ ~ (k + 1 < n)
      BY <1>4, <1>5, <1>8, <2>1, <2>3
    <3>2. t[n] \in Nat
      BY <1>9
    <3>3. QED
      BY <1>10, <2>1, <3>1, <3>2
  <2>4. QED
    BY <2>2, <2>3
<1>13. 0 .. MaxBlocks + 1 \subseteq S
  <2>1. MaxBlocks + 1 \in Nat
    BY <1>1
  <2>2. QED
    BY <1>11, <1>12, <2>1, InductTo
<1>14. QED
  BY <1>7, <1>10, <1>13

\* Every listed block has data, so ckalloc's loop stops at the last one.
LEMMA LastIs ==
  ASSUME NEW F, NEW H, KrHeap(mem, F, Under(H)), Headed(mem, H), NEW A, A \subseteq H,
         NEW n \in Nat, NEW s, Chain(mem, alloc_list, A, n, s), NEW t, Counts(mem, n, s, t),
         total = t[n]
  PROVE  /\ total \in Nat /\ (total = 0 <=> n = 0)
         /\ n # 0 => Last = s[n]
         /\ Seen[MaxBlocks + 1] = total
<1>1. n <= MaxBlocks /\ MaxBlocks \in Nat
  BY ChainShort
<1>2. IsListed(mem, alloc_list, n, s)
  BY ListedIs
<1>3. PICK h : h = Listed(mem, alloc_list)
  OBVIOUS
<1>4. PICK e : e = Seen
  OBVIOUS
<1>5. \A k \in 0 .. MaxBlocks + 1 : e[k] = IF k < n THEN t[k] ELSE t[n]
  BY <1>4, SeenIs
<1>6. t \in [0 .. n -> Nat] /\ t[0] = 0
  BY DEF Counts
<1>7. ASSUME NEW i \in 1 .. n PROVE mem.size[s[i]] \in Nat /\ mem.size[s[i]] >= 1
  <2>1. s[i] \in H
    BY DEF Chain
  <2>2. QED
    BY <2>1, HeadedIs
<1>8. \A i, j \in 0 .. n : i < j => t[i] < t[j]
  BY <1>7, CountsGrow
<1>9. total \in Nat /\ (total = 0 <=> n = 0)
  <2>1. n \in 0 .. n /\ 0 \in 0 .. n
    OBVIOUS
  <2>2. n # 0 => t[0] < t[n]
    BY <1>8, <2>1
  <2>3. QED
    BY <1>6, <2>1, <2>2
<1>10. e[MaxBlocks + 1] = total
  <2>1. MaxBlocks + 1 \in 0 .. MaxBlocks + 1 /\ ~ (MaxBlocks + 1 < n)
    BY <1>1
  <2>2. QED
    BY <1>5, <2>1
<1>11. ASSUME n # 0 PROVE Last = s[n]
  <2>1. PICK T : T = {k \in 1 .. MaxBlocks : e[k] >= total}
    OBVIOUS
  <2>2. n \in T
    <3>1. n \in 1 .. MaxBlocks /\ n \in 0 .. MaxBlocks + 1
      BY <1>1, <1>11
    <3>2. e[n] = total
      BY <1>5, <3>1
    <3>3. QED
      BY <1>9, <2>1, <3>1, <3>2
  <2>3. ASSUME NEW k \in T PROVE n <= k
    <3>1. k \in 1 .. MaxBlocks /\ k \in 0 .. MaxBlocks + 1 /\ e[k] >= total
      BY <1>1, <2>1
    <3>2. ASSUME k < n PROVE FALSE
      <4>1. k \in 0 .. n /\ n \in 0 .. n
        BY <3>1, <3>2
      <4>2. t[k] < t[n] /\ t[k] \in Nat /\ t[n] \in Nat
        BY <1>6, <1>8, <3>2, <4>1
      <4>3. QED
        BY <1>5, <3>1, <3>2, <4>2
    <3>3. QED
      BY <3>1, <3>2
  <2>4. T \subseteq Nat /\ T # {}
    BY <2>1, <2>2
  <2>5. Min(T) \in T /\ \A k \in T : Min(T) <= k
    BY <2>4, MinIs
  <2>6. Min(T) = n
    <3>1. PICK x \in T : x = Min(T)
      BY <2>5
    <3>2. x \in Nat /\ x <= n /\ n <= x
      BY <2>2, <2>3, <2>4, <2>5, <3>1
    <3>3. QED
      BY <3>1, <3>2
  <2>7. Last = h[Min(T) - 1]
    BY <1>3, <1>4, <2>1 DEF Last
  <2>8. h[n-1] = s[n]
    <3>1. n - 1 \in 0 .. MaxBlocks + 1 /\ n - 1 < n /\ (n - 1) + 1 = n
      BY <1>1, <1>11
    <3>2. QED
      BY <1>2, <1>3, <3>1 DEF IsListed
  <2>9. QED
    BY <2>6, <2>7, <2>8
<1>12. QED
  BY <1>4, <1>9, <1>10, <1>11

\* kr_free and kr_malloc look at nothing but the free list and the headers.
LEMMA KrKept ==
  ASSUME NEW m, NEW F, NEW U, KrHeap(m, F, U), NEW r \in Heap,
         r.brk = m.brk, r.freep = m.freep,
         \A a \in F : r.ptr[a] = m.ptr[a], \A a \in F \cup U : r.size[a] = m.size[a]
  PROVE  KrHeap(r, F, U)
<1>1. Ringed(r, F)
  <2>1. F \subseteq Addresses /\ 0 \in F /\ r.freep \in F /\ r.size[0] = 0
    BY DEF KrHeap, Ringed
  <2>2. ASSUME NEW p \in F PROVE r.ptr[p] \in F /\ Follows(r, F, p)
    <3>1. m.ptr[p] \in F /\ Follows(m, F, p) /\ r.ptr[p] = m.ptr[p] /\ r.size[p] = m.size[p]
      BY DEF KrHeap, Ringed
    <3>2. QED
      BY <3>1 DEF Follows
  <2>3. QED
    BY <2>1, <2>2 DEF Ringed
<1>2. PICK B : B = (F \ {0}) \cup U
  OBVIOUS
<1>3. Apart(m, B) /\ Inside(m, B) /\ Covers(m, B)
  BY <1>2 DEF KrHeap, Tiled
<1>4. \A b \in B : r.size[b] = m.size[b]
  BY <1>2
<1>5. Apart(r, B) /\ Inside(r, B) /\ Covers(r, B)
  BY <1>3, <1>4 DEF Apart, Inside, Covers
<1>6. QED
  BY <1>1, <1>2, <1>5 DEF KrHeap, Tiled

\* So do the headers of the blocks in use.
LEMMA HeadedKept ==
  ASSUME NEW m, NEW r, NEW H, Headed(m, H), SizesKept(m, r, H), SizesKept(m, r, Under(H))
  PROVE  Headed(r, H)
<1>1. ASSUME NEW h \in H PROVE r.size[h] >= 1 /\ r.size[h-1] = r.size[h] + 2
  <2>1. h - 1 \in Under(H)
    BY DEF Under
  <2>2. QED
    BY <2>1 DEF Headed, SizesKept
<1>2. QED
  BY <1>1 DEF Headed

-----------------------------------------------------------------------------
(* Both allocators' books: F are the free blocks and base, A the blocks    *)
(* allocated and Q those in quarantine.                                    *)

AreListed(m, first, A)     == \E n \in Nat : \E s : Chain(m, first, A, n, s)
AreCounted(m, first, A, c) ==
  \E n \in Nat : \E s : \E t : Chain(m, first, A, n, s) /\ Counts(m, n, s, t) /\ c = t[n]

HeapState(m, F, A, Q, first, c, qfirst) ==
  /\ KrHeap(m, F, Under(A \cup Q)) /\ Headed(m, A \cup Q) /\ A \cap Q = {}
  /\ AreCounted(m, first, A, c) /\ AreListed(m, qfirst, Q)
  /\ Quarantine \/ Q = {}

\* The lists show the blocks.
LEMMA StateBlocks ==
  ASSUME NEW m, NEW F, NEW A, NEW Q, NEW first, NEW c, NEW qfirst,
         HeapState(m, F, A, Q, first, c, qfirst)
  PROVE  Blocks(m, first) = A /\ Blocks(m, qfirst) = Q
         /\ first \in {0} \cup A /\ qfirst \in {0} \cup Q
<1>1. PICK H : H = A \cup Q
  OBVIOUS
<1>2. KrHeap(m, F, Under(H)) /\ Headed(m, H) /\ A \subseteq H /\ Q \subseteq H
  BY <1>1 DEF HeapState
<1>3. PICK n \in Nat : \E s : Chain(m, first, A, n, s)
  BY DEF HeapState, AreCounted
<1>4. PICK s : Chain(m, first, A, n, s)
  BY <1>3
<1>5. PICK i \in Nat : \E z : Chain(m, qfirst, Q, i, z)
  BY DEF HeapState, AreListed
<1>6. PICK z : Chain(m, qfirst, Q, i, z)
  BY <1>5
<1>7. Blocks(m, first) = A /\ first \in {0} \cup A
  BY <1>2, <1>4, ListedIs
<1>8. Blocks(m, qfirst) = Q /\ qfirst \in {0} \cup Q
  BY <1>2, <1>6, ListedIs
<1>9. QED
  BY <1>7, <1>8

\* A write to anything but the free list, the headers and the lists.
LEMMA StateKept ==
  ASSUME NEW m, NEW F, NEW A, NEW Q, NEW first, NEW c, NEW qfirst,
         HeapState(m, F, A, Q, first, c, qfirst),
         NEW r \in Heap, r.brk = m.brk, r.freep = m.freep,
         \A a \in F \cup A \cup Q : r.ptr[a] = m.ptr[a] /\ r.size[a] = m.size[a],
         \A a \in Under(A \cup Q) : r.size[a] = m.size[a]
  PROVE  HeapState(r, F, A, Q, first, c, qfirst)
<1>1. PICK H : H = A \cup Q
  OBVIOUS
<1>2. KrHeap(m, F, Under(H)) /\ Headed(m, H)
  BY <1>1 DEF HeapState
<1>3. SizesKept(m, r, H) /\ SizesKept(m, r, Under(H)) /\ SizesKept(m, r, A)
  BY <1>1 DEF SizesKept
<1>4. KrHeap(r, F, Under(H))
  <2>1. PICK U : U = Under(H)
    OBVIOUS
  <2>2. KrHeap(m, F, U)
    BY <1>2, <2>1
  <2>3. \A a \in F \cup U : r.size[a] = m.size[a]
    BY <1>1, <2>1
  <2>4. KrHeap(r, F, U)
    BY <2>2, <2>3, KrKept
  <2>5. QED
    BY <2>1, <2>4
<1>5. Headed(r, H)
  BY <1>2, <1>3, HeadedKept
<1>6. AreCounted(r, first, A, c)
  <2>1. PICK n \in Nat : \E s : \E t : Chain(m, first, A, n, s) /\ Counts(m, n, s, t) /\ c = t[n]
    BY DEF HeapState, AreCounted
  <2>2. PICK s : \E t : Chain(m, first, A, n, s) /\ Counts(m, n, s, t) /\ c = t[n]
    BY <2>1
  <2>3. PICK t : Chain(m, first, A, n, s) /\ Counts(m, n, s, t) /\ c = t[n]
    BY <2>2
  <2>4. Chain(r, first, A, n, s)
    BY <2>3, ChainKept
  <2>5. Counts(r, n, s, t)
    BY <1>3, <2>3, CountsKept
  <2>6. QED
    BY <2>3, <2>4, <2>5 DEF AreCounted
<1>7. AreListed(r, qfirst, Q)
  <2>1. PICK n \in Nat : \E s : Chain(m, qfirst, Q, n, s)
    BY DEF HeapState, AreListed
  <2>2. PICK s : Chain(m, qfirst, Q, n, s)
    BY <2>1
  <2>3. Chain(r, qfirst, Q, n, s)
    BY <2>2, ChainKept
  <2>4. QED
    BY <2>3 DEF AreListed
<1>8. QED
  BY <1>1, <1>4, <1>5, <1>6, <1>7 DEF HeapState

\* Where the data of allocated blocks is.
Live(m, A) == UNION {Data(m, h) : h \in A}

\* Data is no header, and belongs to one block only.
LEMMA LiveIs ==
  ASSUME NEW m, NEW F, NEW H, KrHeap(m, F, Under(H)), Headed(m, H), NEW h \in H, NEW a \in Data(m, h)
  PROVE  /\ a \in Addresses /\ a >= 1 /\ a \notin F /\ a \notin H /\ a \notin Under(H)
         /\ \A g \in H : a \in Data(m, g) => g = h
<1>1. h \in 2 .. NUnits /\ m.size[h] \in Nat /\ m.size[h] >= 1 /\ m.size[h-1] = m.size[h] + 2
      /\ h - 1 \in Under(H)
  BY HeadedIs
<1>2. a \in Int /\ a >= h + 1 /\ a <= h + m.size[h]
  BY <1>1 DEF Data
<1>3. a \in h - 1 .. (h - 1) + m.size[h-1] - 1
  BY <1>1, <1>2
<1>4. PICK U : U = Under(H)
  OBVIOUS
<1>5. /\ a \in Addresses /\ a >= 1 /\ a \notin F
      /\ \A c \in U : c # h - 1 => a \notin c .. c + m.size[c] - 1
  <2>1. KrHeap(m, F, U) /\ h - 1 \in U
    BY <1>1, <1>4
  <2>2. PICK b \in U : b = h - 1
    BY <2>1
  <2>3. a \in b .. b + m.size[b] - 1
    BY <1>3, <2>2
  <2>4. /\ a \in Addresses /\ a >= 1 /\ a \notin F
        /\ \A c \in U : c # b => a \notin c .. c + m.size[c] - 1
    BY <2>1, <2>3, InUse
  <2>5. QED
    BY <2>2, <2>4
<1>6. ASSUME NEW g \in H, g # h PROVE a # g /\ a # g - 1 /\ a \notin Data(m, g)
  <2>1. g \in 2 .. NUnits /\ m.size[g] \in Nat /\ m.size[g] >= 1 /\ m.size[g-1] = m.size[g] + 2
        /\ g - 1 \in Under(H)
    BY HeadedIs
  <2>2. g - 1 # h - 1
    BY <1>1, <1>6, <2>1
  <2>3. a \notin g - 1 .. (g - 1) + m.size[g-1] - 1
    BY <1>4, <1>5, <2>1, <2>2
  <2>4. a < g - 1 \/ a > g + m.size[g]
    BY <1>2, <2>1, <2>3
  <2>5. QED
    BY <1>2, <2>1, <2>4 DEF Data
<1>7. a \notin H
  BY <1>1, <1>2, <1>6
<1>8. a \notin Under(H)
  <2>1. a # h - 1
    BY <1>1, <1>2
  <2>2. ASSUME NEW g \in H PROVE a # g - 1
    BY <1>6, <2>1
  <2>3. QED
    BY <2>2 DEF Under
<1>9. QED
  BY <1>5, <1>6, <1>7, <1>8

\* Pointers in data that lead to no data are as good as 0.
DataTidied(m, r, A) ==
  \A a \in Live(m, A) : r.ptr[a] = IF m.ptr[a] \in Live(m, A) THEN m.ptr[a] ELSE 0

TidiedTo(m, r, free, hdrs, heads, inside) ==
  /\ r \in Heap /\ r.brk = m.brk /\ r.freep = m.freep
  /\ \A a \in Addresses :
       r.ptr[a] = IF a \in free \cup hdrs THEN m.ptr[a]
                  ELSE IF a \in inside /\ m.ptr[a] \in inside THEN m.ptr[a] ELSE 0
  /\ \A a \in Addresses : r.size[a] = IF a \in heads \cup hdrs THEN m.size[a] ELSE 0

InRing(m) == {Ring(m)[k] : k \in 0 .. NUnits} \cup {base}

\* Tidy, field by field.
LEMMA TidyFields ==
  ASSUME NEW m \in Heap, NEW live, NEW quarantined, NEW r, r = Tidy(m, live, quarantined)
  PROVE  TidiedTo(m, r, InRing(m), live \cup quarantined,
                  InRing(m) \cup Under(live \cup quarantined), Live(m, live))
<1>1. PICK free : free = InRing(m)
  OBVIOUS
<1>2. PICK hdrs : hdrs = live \cup quarantined
  OBVIOUS
<1>3. PICK heads : heads = free \cup Under(hdrs)
  OBVIOUS
<1>4. PICK inside : inside = Live(m, live)
  OBVIOUS
<1>5. PICK P : P = [a \in Addresses |->
                      IF a \in free \cup hdrs THEN m.ptr[a]
                      ELSE IF a \in inside /\ m.ptr[a] \in inside THEN m.ptr[a] ELSE 0]
  OBVIOUS
<1>6. PICK Z : Z = [a \in Addresses |-> IF a \in heads \cup hdrs THEN m.size[a] ELSE 0]
  OBVIOUS
<1>7. r = [m EXCEPT !.ptr = P, !.size = Z]
  BY <1>1, <1>2, <1>3, <1>4, <1>5, <1>6 DEF Tidy, InRing, Under, Live
<1>8. m.ptr \in [Addresses -> Addresses] /\ m.size \in [Addresses -> Nat]
  BY DEF Heap
<1>9. 0 \in Addresses
  BY KrAssumption DEF Addresses
<1>10. P \in [Addresses -> Addresses]
  BY <1>5, <1>8, <1>9
<1>11. Z \in [Addresses -> Nat]
  BY <1>6, <1>8
<1>12. r \in Heap /\ r.brk = m.brk /\ r.freep = m.freep /\ r.ptr = P /\ r.size = Z
  BY <1>7, <1>10, <1>11 DEF Heap
<1>13. TidiedTo(m, r, free, hdrs, heads, inside)
  BY <1>5, <1>6, <1>12 DEF TidiedTo
<1>14. QED
  BY <1>1, <1>2, <1>3, <1>4, <1>13

\* Tidy changes nothing that the books or the collector look at.
LEMMA TidyOk ==
  ASSUME NEW m, NEW F, NEW A, NEW Q, NEW first, NEW c, NEW qfirst,
         HeapState(m, F, A, Q, first, c, qfirst), NEW r, r = Tidy(m, A, Q)
  PROVE  HeapState(r, F, A, Q, first, c, qfirst) /\ DataTidied(m, r, A) /\ SizesKept(m, r, A)
         /\ \A b \in A : r.ptr[b] = m.ptr[b]
<1>1. PICK H : H = A \cup Q
  OBVIOUS
<1>2. KrHeap(m, F, Under(H)) /\ Headed(m, H) /\ m \in Heap /\ Ringed(m, F)
  BY <1>1 DEF HeapState, KrHeap
<1>3. PICK free : free = InRing(m)
  OBVIOUS
<1>4. free = F
  <2>1. {Ring(m)[k] : k \in 0 .. NUnits} = F /\ 0 \in F
    BY <1>2, RingIs DEF Ringed
  <2>2. QED
    BY <1>3, <2>1 DEF base, InRing
<1>5. PICK heads : heads = free \cup Under(H)
  OBVIOUS
<1>6. PICK inside : inside = Live(m, A)
  OBVIOUS
<1>7. TidiedTo(m, r, free, H, heads, inside)
  BY <1>1, <1>2, <1>3, <1>5, <1>6, TidyFields
<1>8. /\ r \in Heap /\ r.brk = m.brk /\ r.freep = m.freep
      /\ \A a \in Addresses :
           r.ptr[a] = IF a \in free \cup H THEN m.ptr[a]
                      ELSE IF a \in inside /\ m.ptr[a] \in inside THEN m.ptr[a] ELSE 0
      /\ \A a \in Addresses : r.size[a] = IF a \in heads \cup H THEN m.size[a] ELSE 0
  BY <1>7 DEF TidiedTo
<1>9. F \subseteq Addresses /\ H \subseteq Addresses /\ Under(H) \subseteq Addresses
  BY <1>2 DEF Ringed, Headed, KrHeap, Tiled
<1>10. HeapState(r, F, A, Q, first, c, qfirst)
  <2>1. \A a \in F \cup A \cup Q : r.ptr[a] = m.ptr[a] /\ r.size[a] = m.size[a]
    <3>1. \A a \in F \cup H : r.ptr[a] = m.ptr[a] /\ r.size[a] = m.size[a]
      BY <1>4, <1>5, <1>8, <1>9
    <3>2. QED
      BY <1>1, <3>1
  <2>2. \A a \in Under(A \cup Q) : r.size[a] = m.size[a]
    BY <1>1, <1>5, <1>8, <1>9
  <2>3. QED
    BY <1>8, <2>1, <2>2, StateKept
<1>11. DataTidied(m, r, A)
  <2>1. ASSUME NEW a \in Live(m, A)
        PROVE  r.ptr[a] = IF m.ptr[a] \in Live(m, A) THEN m.ptr[a] ELSE 0
    <3>1. PICK h \in A : a \in Data(m, h)
      BY DEF Live
    <3>2. a \in Addresses /\ a \notin F /\ a \notin H
      <4>1. h \in H
        BY <1>1
      <4>2. QED
        BY <1>2, <3>1, <4>1, LiveIs
    <3>3. QED
      BY <1>4, <1>6, <1>8, <3>2
  <2>2. QED
    BY <2>1 DEF DataTidied
<1>12. SizesKept(m, r, A)
  BY <1>1, <1>8, <1>9 DEF SizesKept
<1>13. \A b \in A : r.ptr[b] = m.ptr[b]
  BY <1>1, <1>8, <1>9
<1>14. QED
  BY <1>10, <1>11, <1>12, <1>13

-----------------------------------------------------------------------------
(* ckfree. *)

\* Taking the k-th block off the list of allocated blocks changes the link
\* of the one before.
LEMMA UnlinkedIs ==
  ASSUME NEW F, NEW A, NEW Q, NEW c, NEW qfirst,
         HeapState(mem, F, A, Q, alloc_list, c, qfirst),
         NEW n \in Nat, NEW s, Chain(mem, alloc_list, A, n, s), NEW k \in 1 .. n,
         NEW r, r = Unlinked(mem, s[k])
  PROVE  /\ r \in Heap /\ r.brk = mem.brk /\ r.freep = mem.freep /\ r.size = mem.size
         /\ Cut(mem, r, n, s, k)
         /\ \A a \in Addresses : a \notin A \/ a = s[k] => r.ptr[a] = mem.ptr[a]
<1>1. /\ s \in [1 .. n -> A] /\ (\A i, j \in 1 .. n : s[i] = s[j] => i = j)
      /\ \A b \in A : \E i \in 1 .. n : s[i] = b
      /\ alloc_list = IF n = 0 THEN 0 ELSE s[1]
      /\ \A i \in 1 .. n : mem.ptr[s[i]] = IF i = n THEN 0 ELSE s[i+1]
  BY DEF Chain
<1>2. PICK h \in A : h = s[k]
  BY <1>1
<1>3. mem \in Heap /\ A \subseteq Addresses /\ 0 \notin A /\ mem.ptr \in [Addresses -> Addresses]
  <2>1. PICK H : H = A \cup Q
    OBVIOUS
  <2>2. KrHeap(mem, F, Under(H)) /\ Headed(mem, H)
    BY <2>1 DEF HeapState
  <2>3. ASSUME NEW b \in A PROVE b # 0
    <3>1. b \in H
      BY <2>1
    <3>2. b \in 2 .. NUnits
      BY <2>2, <3>1, HeadedIs
    <3>3. QED
      BY <3>2, KrAssumption
  <2>4. mem \in Heap /\ H \subseteq Addresses
    BY <2>2 DEF KrHeap, Headed
  <2>5. QED
    BY <2>1, <2>3, <2>4 DEF Heap
<1>4. alloc_list = h <=> k = 1
  <2>1. 1 \in 1 .. n /\ n # 0
    OBVIOUS
  <2>2. QED
    BY <1>1, <1>2, <2>1
<1>5. CASE k = 1
  <2>1. r = mem
    BY <1>2, <1>4, <1>5 DEF Unlinked
  <2>2. Cut(mem, r, n, s, k)
    BY <1>5, <2>1 DEF Cut
  <2>3. QED
    BY <1>3, <2>1, <2>2
<1>6. CASE k # 1
  <2>1. PICK i \in 1 .. n : i = k - 1 /\ i # k
    BY <1>6
  <2>2. mem.ptr[s[i]] = h /\ s[i] \in A
    BY <1>1, <1>2, <2>1
  <2>3. Blocks(mem, alloc_list) = A
    BY StateBlocks
  <2>4. PICK b : b = CHOOSE x \in Before(mem, alloc_list, h) : TRUE
    OBVIOUS
  <2>5. b = s[i]
    <3>1. Before(mem, alloc_list, h) = {x \in A : mem.ptr[x] = h}
      BY <2>3 DEF Before
    <3>2. b \in {x \in A : mem.ptr[x] = h}
      BY <2>2, <2>4, <3>1
    <3>3. PICK j \in 1 .. n : s[j] = b
      BY <1>1, <3>2
    <3>4. mem.ptr[s[j]] = s[k] /\ s[k] # 0
      BY <1>2, <1>3, <3>2, <3>3
    <3>5. j # n /\ s[j+1] = s[k] /\ j + 1 \in 1 .. n
      BY <1>1, <3>4
    <3>6. j + 1 = k
      BY <1>1, <3>5
    <3>7. j = i
      BY <2>1, <3>6
    <3>8. QED
      BY <3>3, <3>7
  <2>6. r = [mem EXCEPT !.ptr[b] = mem.ptr[h]]
    BY <1>2, <1>4, <1>6, <2>4 DEF Unlinked
  <2>7. b \in Addresses /\ h \in Addresses /\ mem.ptr[h] \in Addresses
    BY <1>3, <2>2, <2>5
  <2>8. PICK P : P = [mem.ptr EXCEPT ![b] = mem.ptr[h]]
    OBVIOUS
  <2>9. P \in [Addresses -> Addresses] /\ P[b] = mem.ptr[h] /\ \A a \in Addresses : a # b => P[a] = mem.ptr[a]
    BY <1>3, <2>7, <2>8
  <2>10. r = [mem EXCEPT !.ptr = P]
    BY <1>3, <2>6, <2>8 DEF Heap
  <2>11. r \in Heap /\ r.brk = mem.brk /\ r.freep = mem.freep /\ r.size = mem.size /\ r.ptr = P
    BY <1>3, <2>9, <2>10 DEF Heap
  <2>12. ASSUME NEW x \in 1 .. n, x # k
         PROVE  r.ptr[s[x]] = IF x = k - 1 THEN mem.ptr[s[k]] ELSE mem.ptr[s[x]]
    <3>1. CASE x = i
      BY <1>2, <2>1, <2>5, <2>9, <2>11, <3>1
    <3>2. CASE x # i
      <4>1. s[x] # b /\ s[x] \in Addresses
        BY <1>1, <1>3, <2>5, <3>2
      <4>2. QED
        BY <2>1, <2>9, <2>11, <3>2, <4>1
    <3>3. QED
      BY <3>1, <3>2
  <2>13. Cut(mem, r, n, s, k)
    BY <2>12 DEF Cut
  <2>14. s[k] # b
    BY <1>1, <2>1, <2>5
  <2>15. QED
    BY <2>2, <2>5, <2>9, <2>11, <2>13, <2>14
<1>7. QED
  BY <1>5, <1>6

\* 0 is the empty list.
LEMMA NoneListed == ASSUME NEW m PROVE AreListed(m, 0, {})
<1>1. PICK s : s = [i \in 1 .. 0 |-> 0]
  OBVIOUS
<1>2. 1 .. 0 = {}
  OBVIOUS
<1>3. Chain(m, 0, {}, 0, s)
  BY <1>1, <1>2 DEF Chain
<1>4. QED
  BY <1>3 DEF AreListed

DataKept(m, r, A) == \A a \in Live(m, A) : r.ptr[a] = m.ptr[a]

\* The list of allocated blocks without the k-th.
ReleasedBooks(r, A, n, s, k, first) ==
  /\ Chain(r, first, A \ {s[k]}, n - 1, Without(s, n, k))
  /\ \E u : Counts(r, n - 1, Without(s, n, k), u) /\ u[n-1] = total - mem.size[s[k]]
  /\ AreCounted(r, first, A \ {s[k]}, total - mem.size[s[k]])

\* What ckfree of h, the k-th block listed, leaves in r before Tidy.
Released(r, A, n, s, k, first, qfirst) ==
  /\ \E G : \E R : HeapState(r, G, A \ {s[k]}, R, first, total - mem.size[s[k]], qfirst)
  /\ ReleasedBooks(r, A, n, s, k, first)
  /\ SizesKept(mem, r, A \ {s[k]}) /\ DataKept(mem, r, A \ {s[k]})
  /\ r.ptr[s[k]] = IF Quarantine THEN 0 ELSE mem.ptr[s[k]]

\* Shared by both versions: the books of the blocks that stay.
LEMMA ReleasedLists ==
  ASSUME NEW F, NEW A, NEW Q, HeapState(mem, F, A, Q, alloc_list, total, free_list),
         NEW n \in Nat, NEW s, Chain(mem, alloc_list, A, n, s),
         NEW t, Counts(mem, n, s, t), total = t[n], NEW k \in 1 .. n, NEW r,
         Cut(mem, r, n, s, k), SizesKept(mem, r, A \ {s[k]}),
         NEW first, first = IF alloc_list = s[k] THEN mem.ptr[s[k]] ELSE alloc_list
  PROVE  ReleasedBooks(r, A, n, s, k, first)
<1>1. PICK h : h = s[k]
  OBVIOUS
<1>2. PICK H : H = A \cup Q
  OBVIOUS
<1>3. KrHeap(mem, F, Under(H)) /\ Headed(mem, H)
  BY <1>2 DEF HeapState
<1>4. \A b \in A : mem.size[b] \in Nat /\ mem.size[b] >= 1
  <2>1. ASSUME NEW b \in A PROVE mem.size[b] \in Nat /\ mem.size[b] >= 1
    <3>1. b \in H
      BY <1>2
    <3>2. QED
      BY <1>3, <3>1, HeadedIs
  <2>2. QED
    BY <2>1
<1>5. PICK w : w = Without(s, n, k)
  OBVIOUS
<1>6. Chain(r, first, A \ {h}, n - 1, w)
  BY <1>1, <1>5, ChainCut
<1>7. PICK u : Counts(r, n - 1, w, u) /\ u[n-1] = t[n] - mem.size[h]
  <2>1. SizesKept(mem, r, A \ {h})
    BY <1>1
  <2>2. QED
    BY <1>1, <1>4, <1>5, <2>1, CountsCut
<1>8. AreCounted(r, first, A \ {h}, total - mem.size[h])
  <2>1. PICK i \in Nat : i = n - 1
    OBVIOUS
  <2>2. Chain(r, first, A \ {h}, i, w) /\ Counts(r, i, w, u) /\ total - mem.size[h] = u[i]
    BY <1>6, <1>7, <2>1
  <2>3. QED
    BY <2>2 DEF AreCounted
<1>9. QED
  BY <1>1, <1>5, <1>6, <1>7, <1>8 DEF ReleasedBooks

\* Without quarantine, the block goes back to kr_free.
LEMMA FreedNow ==
  ASSUME ~ Quarantine, NEW F, NEW A, NEW Q, HeapState(mem, F, A, Q, alloc_list, total, free_list),
         NEW n \in Nat, NEW s, Chain(mem, alloc_list, A, n, s),
         NEW t, Counts(mem, n, s, t), total = t[n], NEW k \in 1 .. n,
         NEW r, r = Freed(s[k]),
         NEW first, first = IF alloc_list = s[k] THEN mem.ptr[s[k]] ELSE alloc_list,
         NEW qfirst, qfirst = IF Quarantine /\ free_list = 0 THEN s[k] ELSE free_list
  PROVE  Released(r, A, n, s, k, first, qfirst)
<1>1. PICK h \in A : h = s[k]
  BY DEF Chain
<1>2. Q = {} /\ A \cup Q = A
  BY DEF HeapState
<1>3. PICK U : U = Under(A)
  OBVIOUS
<1>4. KrHeap(mem, F, Under(A)) /\ Headed(mem, A) /\ KrHeap(mem, F, U) /\ mem \in Heap
  BY <1>2, <1>3 DEF HeapState, KrHeap
<1>5. PICK m : m = Unlinked(mem, h)
  OBVIOUS
<1>6. /\ m \in Heap /\ m.brk = mem.brk /\ m.freep = mem.freep /\ m.size = mem.size
      /\ Cut(mem, m, n, s, k)
      /\ \A a \in Addresses : a \notin A \/ a = h => m.ptr[a] = mem.ptr[a]
  BY <1>1, <1>5, UnlinkedIs
<1>7. F \subseteq Addresses /\ A \subseteq Addresses /\ \A g \in A : g \notin F /\ g - 1 \notin F /\ g - 1 \in Addresses
  <2>1. F \subseteq Addresses /\ A \subseteq Addresses
    BY <1>4 DEF KrHeap, Ringed, Headed
  <2>2. QED
    BY <1>4, <2>1, HeadedIs
<1>8. KrHeap(m, F, U)
  BY <1>4, <1>6, <1>7, KrKept
<1>9. PICK bp \in U : bp = h - 1
  BY <1>3 DEF Under
<1>10. r = kr_free(m, bp)
  BY <1>1, <1>5, <1>9 DEF Freed
<1>11. PICK G : KrHeap(r, G, U \ {bp})
  BY <1>8, <1>10, KrFreeOk
<1>12. Same(m, r, F \cup {bp})
  BY <1>8, <1>10, KrFreeOk
<1>13. \A a \in Addresses : a \notin F /\ a # bp => r.ptr[a] = m.ptr[a] /\ r.size[a] = mem.size[a]
  BY <1>6, <1>12 DEF Same
<1>14. h \in Nat /\ h # bp
  BY <1>7, <1>9 DEF Addresses
<1>15. ASSUME NEW g \in A, g # h PROVE g # bp /\ g - 1 # bp
  <2>1. g \in Nat
    BY <1>7 DEF Addresses
  <2>2. g < h => g + mem.size[g] + 1 < h
    BY <1>4, BlocksApart
  <2>3. mem.size[g] \in Nat
    BY <1>4, HeadedIs
  <2>4. QED
    BY <1>9, <1>14, <1>15, <2>1, <2>2, <2>3
<1>16. SizesKept(mem, r, A \ {h}) /\ SizesKept(mem, r, Under(A \ {h}))
  BY <1>7, <1>13, <1>15 DEF SizesKept, Under
<1>17. Under(A \ {h}) = U \ {bp}
  <2>1. ASSUME NEW x \in U \ {bp} PROVE x \in Under(A \ {h})
    BY <1>3, <1>9 DEF Under
  <2>2. ASSUME NEW g \in A \ {h} PROVE g - 1 \in U \ {bp}
    BY <1>3, <1>15 DEF Under
  <2>3. QED
    BY <2>1, <2>2 DEF Under
<1>18. Headed(r, A \ {h})
  <2>1. Headed(mem, A \ {h})
    BY <1>4 DEF Headed
  <2>2. QED
    BY <1>16, <2>1, HeadedKept
<1>19. Cut(mem, r, n, s, k)
  <2>1. ASSUME NEW i \in 1 .. n, i # k
        PROVE  r.ptr[s[i]] = IF i = k - 1 THEN mem.ptr[s[k]] ELSE mem.ptr[s[i]]
    <3>1. s[i] \in A /\ s[i] # h
      BY <1>1, <2>1 DEF Chain
    <3>2. r.ptr[s[i]] = m.ptr[s[i]]
      BY <1>7, <1>13, <1>15, <3>1
    <3>3. QED
      BY <1>6, <2>1, <3>2 DEF Cut
  <2>2. QED
    BY <2>1 DEF Cut
<1>20. ReleasedBooks(r, A, n, s, k, first) /\ AreCounted(r, first, A \ {h}, total - mem.size[h])
  <2>1. SizesKept(mem, r, A \ {s[k]})
    BY <1>1, <1>16
  <2>2. ReleasedBooks(r, A, n, s, k, first)
    BY <1>19, <2>1, ReleasedLists
  <2>3. QED
    BY <1>1, <2>2 DEF ReleasedBooks
<1>21. AreListed(r, qfirst, {})
  <2>1. free_list = 0
    BY <1>2, StateBlocks
  <2>2. QED
    BY <2>1, NoneListed
<1>22. HeapState(r, G, A \ {h}, {}, first, total - mem.size[h], qfirst)
  <2>1. PICK B : B = A \ {h}
    OBVIOUS
  <2>2. B \cup {} = B /\ B \cap {} = {}
    OBVIOUS
  <2>3. KrHeap(r, G, Under(B)) /\ Headed(r, B)
    BY <1>11, <1>17, <1>18, <2>1
  <2>4. HeapState(r, G, B, {}, first, total - mem.size[h], qfirst)
    BY <1>20, <1>21, <2>1, <2>2, <2>3 DEF HeapState
  <2>5. QED
    BY <2>1, <2>4
<1>23. DataKept(mem, r, A \ {h})
  <2>1. ASSUME NEW g \in A \ {h}, NEW a \in Data(mem, g) PROVE r.ptr[a] = mem.ptr[a]
    <3>1. a \in Addresses /\ a \notin F /\ a \notin A /\ a \notin Under(A)
      BY <1>4, LiveIs
    <3>2. QED
      BY <1>3, <1>6, <1>13, <3>1
  <2>2. QED
    BY <2>1 DEF DataKept, Live
<1>24. r.ptr[h] = mem.ptr[h]
  BY <1>6, <1>7, <1>13, <1>14
<1>25. QED
  BY <1>1, <1>16, <1>20, <1>22, <1>23, <1>24 DEF Released

\* With quarantine, it goes to the end of the list of freed blocks.
LEMMA FreedLater ==
  ASSUME Quarantine, NEW F, NEW A, NEW Q, HeapState(mem, F, A, Q, alloc_list, total, free_list),
         NEW n \in Nat, NEW s, Chain(mem, alloc_list, A, n, s),
         NEW t, Counts(mem, n, s, t), total = t[n], NEW k \in 1 .. n,
         NEW r, r = Freed(s[k]),
         NEW first, first = IF alloc_list = s[k] THEN mem.ptr[s[k]] ELSE alloc_list,
         NEW qfirst, qfirst = IF Quarantine /\ free_list = 0 THEN s[k] ELSE free_list
  PROVE  Released(r, A, n, s, k, first, qfirst)
<1>1. PICK h \in A : h = s[k]
  BY DEF Chain
<1>2. PICK H : H = A \cup Q
  OBVIOUS
<1>3. KrHeap(mem, F, Under(H)) /\ Headed(mem, H) /\ mem \in Heap /\ A \cap Q = {}
  BY <1>2 DEF HeapState, KrHeap
<1>4. PICK m : m = Unlinked(mem, h)
  OBVIOUS
<1>5. /\ m \in Heap /\ m.brk = mem.brk /\ m.freep = mem.freep /\ m.size = mem.size
      /\ Cut(mem, m, n, s, k)
      /\ \A a \in Addresses : a \notin A \/ a = h => m.ptr[a] = mem.ptr[a]
  BY <1>1, <1>4, UnlinkedIs
<1>6. F \subseteq Addresses /\ H \subseteq Addresses /\ \A g \in H : g \notin F /\ g # 0
  <2>1. F \subseteq Addresses /\ H \subseteq Addresses
    BY <1>3 DEF KrHeap, Ringed, Headed
  <2>2. ASSUME NEW g \in H PROVE g \notin F /\ g # 0
    <3>1. g \notin F /\ g \in 2 .. NUnits
      BY <1>3, HeadedIs
    <3>2. QED
      BY <3>1, KrAssumption
  <2>3. QED
    BY <2>1, <2>2
<1>7. PICK i \in Nat : \E z : Chain(mem, free_list, Q, i, z)
  BY DEF HeapState, AreListed
<1>8. PICK z : Chain(mem, free_list, Q, i, z)
  BY <1>7
<1>9. /\ z \in [1 .. i -> Q] /\ (\A x, y \in 1 .. i : z[x] = z[y] => x = y)
      /\ \A b \in Q : \E x \in 1 .. i : z[x] = b
      /\ free_list = IF i = 0 THEN 0 ELSE z[1]
      /\ \A x \in 1 .. i : mem.ptr[z[x]] = IF x = i THEN 0 ELSE z[x+1]
  BY <1>8 DEF Chain
<1>10. PICK last : last = {b \in Q : mem.ptr[b] = 0}
  OBVIOUS
<1>11. PICK P : P = [b \in Addresses |-> CASE b = h -> 0 [] b \in last -> h [] OTHER -> m.ptr[b]]
  OBVIOUS
<1>12. r = [m EXCEPT !.ptr = P]
  <2>1. Blocks(mem, free_list) = Q
    BY StateBlocks
  <2>2. QED
    BY <1>1, <1>4, <1>10, <1>11, <2>1 DEF Freed
<1>13. h \in Addresses /\ h \notin Q /\ 0 \in Addresses /\ m.ptr \in [Addresses -> Addresses]
  <2>1. h \in H /\ h \notin Q
    BY <1>2, <1>3
  <2>2. 0 \in Addresses
    BY KrAssumption DEF Addresses
  <2>3. m.ptr \in [Addresses -> Addresses]
    BY <1>5 DEF Heap
  <2>4. QED
    BY <1>6, <2>1, <2>2, <2>3
<1>14. /\ P \in [Addresses -> Addresses] /\ P[h] = 0
       /\ \A b \in Addresses : b # h => P[b] = IF b \in last THEN h ELSE m.ptr[b]
  <2>1. \A b \in Addresses : P[b] = CASE b = h -> 0 [] b \in last -> h [] OTHER -> m.ptr[b]
    BY <1>11
  <2>2. \A b \in Addresses : P[b] = IF b = h THEN 0 ELSE IF b \in last THEN h ELSE m.ptr[b]
    <3>1. h \notin last
      BY <1>10, <1>13
    <3>2. QED
      BY <2>1, <3>1
  <2>3. \A b \in Addresses : P[b] \in Addresses
    BY <1>13, <2>2
  <2>4. P = [b \in Addresses |-> P[b]]
    BY <1>11
  <2>5. P \in [Addresses -> Addresses]
    BY <2>3, <2>4
  <2>6. QED
    BY <1>13, <2>2, <2>5
<1>15. /\ r \in Heap /\ r.brk = mem.brk /\ r.freep = mem.freep /\ r.size = mem.size /\ r.ptr = P
  BY <1>5, <1>12, <1>14 DEF Heap
<1>16. ASSUME NEW x \in 1 .. i PROVE z[x] \in last <=> x = i
  <2>1. CASE x = i
    BY <1>9, <1>10, <2>1
  <2>2. CASE x # i
    <3>1. x + 1 \in 1 .. i
      BY <2>2
    <3>2. mem.ptr[z[x]] \in Q
      BY <1>9, <2>2, <3>1
    <3>3. mem.ptr[z[x]] # 0
      BY <1>2, <1>6, <3>2
    <3>4. QED
      BY <1>10, <2>2, <3>3
  <2>3. QED
    BY <2>1, <2>2
<1>17. Extended(mem, r, i, z, h)
  <2>1. ASSUME NEW x \in 1 .. i PROVE r.ptr[z[x]] = IF x = i THEN h ELSE mem.ptr[z[x]]
    <3>1. z[x] \in Q /\ z[x] \in Addresses /\ z[x] # h /\ z[x] \notin A
      BY <1>2, <1>3, <1>6, <1>9, <1>13
    <3>2. P[z[x]] = IF z[x] \in last THEN h ELSE m.ptr[z[x]]
      BY <1>14, <3>1
    <3>3. m.ptr[z[x]] = mem.ptr[z[x]]
      BY <1>5, <3>1
    <3>4. QED
      BY <1>15, <1>16, <3>2, <3>3
  <2>2. QED
    BY <1>14, <1>15, <2>1 DEF Extended
<1>18. qfirst = IF i = 0 THEN h ELSE free_list
  <2>1. CASE i = 0
    BY <1>1, <1>9, <2>1
  <2>2. CASE i # 0
    <3>1. 1 \in 1 .. i
      BY <2>2
    <3>2. free_list \in Q
      BY <1>9, <2>2, <3>1
    <3>3. free_list # 0
      BY <1>2, <1>6, <3>2
    <3>4. QED
      BY <2>2, <3>3
  <2>3. QED
    BY <2>1, <2>2
<1>19. AreListed(r, qfirst, Q \cup {h})
  <2>1. PICK w : w = With(z, i, h)
    OBVIOUS
  <2>2. Chain(r, qfirst, Q \cup {h}, i + 1, w)
    BY <1>8, <1>13, <1>17, <1>18, <2>1, ChainExtended
  <2>3. i + 1 \in Nat
    OBVIOUS
  <2>4. QED
    BY <2>2, <2>3 DEF AreListed
<1>20. \A a \in Addresses : a \notin Q /\ a # h => r.ptr[a] = m.ptr[a]
  BY <1>10, <1>14, <1>15
<1>21. Cut(mem, r, n, s, k)
  <2>1. ASSUME NEW x \in 1 .. n, x # k
        PROVE  r.ptr[s[x]] = IF x = k - 1 THEN mem.ptr[s[k]] ELSE mem.ptr[s[x]]
    <3>1. s[x] \in A /\ s[x] # h
      BY <1>1, <2>1 DEF Chain
    <3>2. r.ptr[s[x]] = m.ptr[s[x]]
      BY <1>2, <1>3, <1>6, <1>20, <3>1
    <3>3. QED
      BY <1>5, <2>1, <3>2 DEF Cut
  <2>2. QED
    BY <2>1 DEF Cut
<1>22. SizesKept(mem, r, A \ {h}) /\ SizesKept(mem, r, H) /\ SizesKept(mem, r, Under(H))
  BY <1>15 DEF SizesKept
<1>23. ReleasedBooks(r, A, n, s, k, first) /\ AreCounted(r, first, A \ {h}, total - mem.size[h])
  <2>1. SizesKept(mem, r, A \ {s[k]})
    BY <1>1, <1>22
  <2>2. ReleasedBooks(r, A, n, s, k, first)
    BY <1>21, <2>1, ReleasedLists
  <2>3. QED
    BY <1>1, <2>2 DEF ReleasedBooks
<1>24. KrHeap(r, F, Under(H))
  <2>1. PICK U : U = Under(H)
    OBVIOUS
  <2>2. \A a \in F : r.ptr[a] = mem.ptr[a]
    <3>1. ASSUME NEW a \in F PROVE r.ptr[a] = mem.ptr[a]
      <4>1. a \in Addresses /\ a \notin H /\ a \notin A /\ a \notin Q /\ a # h
        BY <1>2, <1>6
      <4>2. QED
        BY <1>5, <1>20, <4>1
    <3>2. QED
      BY <3>1
  <2>3. KrHeap(r, F, U)
    BY <1>3, <1>15, <2>1, <2>2, KrKept
  <2>4. QED
    BY <2>1, <2>3
<1>25. Headed(r, H)
  BY <1>3, <1>22, HeadedKept
<1>26. HeapState(r, F, A \ {h}, Q \cup {h}, first, total - mem.size[h], qfirst)
  <2>1. PICK B, C : B = A \ {h} /\ C = Q \cup {h}
    OBVIOUS
  <2>2. B \cup C = H /\ B \cap C = {}
    BY <1>2, <1>3, <2>1
  <2>3. KrHeap(r, F, Under(B \cup C)) /\ Headed(r, B \cup C)
    BY <1>24, <1>25, <2>2
  <2>4. AreListed(r, qfirst, C) /\ AreCounted(r, first, B, total - mem.size[h])
    BY <1>19, <1>23, <2>1
  <2>5. HeapState(r, F, B, C, first, total - mem.size[h], qfirst)
    BY <2>2, <2>3, <2>4 DEF HeapState
  <2>6. QED
    BY <2>1, <2>5
<1>27. DataKept(mem, r, A \ {h})
  <2>1. ASSUME NEW g \in A \ {h}, NEW a \in Data(mem, g) PROVE r.ptr[a] = mem.ptr[a]
    <3>1. g \in H
      BY <1>2
    <3>2. a \in Addresses /\ a \notin H
      BY <1>3, <3>1, LiveIs
    <3>3. a \notin A /\ a \notin Q /\ a # h
      BY <1>2, <3>2
    <3>4. QED
      BY <1>5, <1>20, <3>2, <3>3
  <2>2. QED
    BY <2>1 DEF DataKept, Live
<1>28. r.ptr[h] = 0
  BY <1>14, <1>15
<1>29. QED
  BY <1>1, <1>22, <1>23, <1>26, <1>27, <1>28 DEF Released

\* Either way the books stay in order.
LEMMA FreedOk ==
  ASSUME NEW F, NEW A, NEW Q, HeapState(mem, F, A, Q, alloc_list, total, free_list),
         NEW n \in Nat, NEW s, Chain(mem, alloc_list, A, n, s),
         NEW t, Counts(mem, n, s, t), total = t[n], NEW k \in 1 .. n,
         NEW r, r = Freed(s[k]),
         NEW first, first = IF alloc_list = s[k] THEN mem.ptr[s[k]] ELSE alloc_list,
         NEW qfirst, qfirst = IF Quarantine /\ free_list = 0 THEN s[k] ELSE free_list
  PROVE  Released(r, A, n, s, k, first, qfirst)
BY FreedNow, FreedLater

Fresh(m, h, n, w) == [m EXCEPT !.ptr[h] = 0, !.size[h] = n, !.ptr[h + 1] = w, !.ptr[h + n] = w]

\* Only the new block's units change.
LEMMA FreshIs ==
  ASSUME NEW m \in Heap, NEW n \in Nat \ {0}, NEW h \in Addresses, h + n \in Addresses,
         NEW w \in Addresses, NEW r, r = Fresh(m, h, n, w)
  PROVE  /\ r \in Heap /\ r.brk = m.brk /\ r.freep = m.freep
         /\ r.ptr[h] = 0 /\ r.size[h] = n
         /\ \A a \in Addresses : a < h \/ a > h + n => r.ptr[a] = m.ptr[a]
         /\ \A a \in Addresses : a # h => r.size[a] = m.size[a]
<1>1. h \in Nat /\ h + 1 \in 0 .. NUnits /\ h + n \in 0 .. NUnits
  BY KrAssumption DEF Addresses
<1>2. PICK i, j : i = h + 1 /\ j = h + n
  OBVIOUS
<1>3. i \in Addresses /\ j \in Addresses /\ i # h /\ j # h /\ 0 \in Addresses
  BY <1>1, <1>2, KrAssumption DEF Addresses
<1>4. m.ptr \in [Addresses -> Addresses] /\ m.size \in [Addresses -> Nat]
  BY DEF Heap
<1>5. PICK P : P = [m.ptr EXCEPT ![h] = 0, ![i] = w, ![j] = w]
  OBVIOUS
<1>6. PICK Z : Z = [m.size EXCEPT ![h] = n]
  OBVIOUS
<1>7. r = [m EXCEPT !.ptr = P, !.size = Z]
  BY <1>2, <1>5, <1>6 DEF Fresh, Heap
<1>8. /\ P \in [Addresses -> Addresses] /\ P[h] = 0
      /\ \A a \in Addresses : a # h /\ a # i /\ a # j => P[a] = m.ptr[a]
  BY <1>3, <1>4, <1>5
<1>9. Z \in [Addresses -> Nat] /\ Z[h] = n /\ \A a \in Addresses : a # h => Z[a] = m.size[a]
  BY <1>4, <1>6
<1>10. r \in Heap /\ r.brk = m.brk /\ r.freep = m.freep /\ r.ptr = P /\ r.size = Z
  BY <1>7, <1>8, <1>9 DEF Heap
<1>11. ASSUME NEW a \in Addresses, a < h \/ a > h + n PROVE r.ptr[a] = m.ptr[a]
  <2>1. a # h /\ a # i /\ a # j
    <3>1. a \in Nat
      BY DEF Addresses
    <3>2. QED
      BY <1>1, <1>2, <1>11, <3>1
  <2>2. QED
    BY <1>8, <1>10, <2>1
<1>12. QED
  BY <1>8, <1>9, <1>10, <1>11

\* ckalloc's memory before Tidy, and the list with the new block at its end.
LEMMA AllocatedOk ==
  ASSUME NEW F, NEW A, NEW Q, HeapState(mem, F, A, Q, alloc_list, total, free_list),
         NEW n \in Nat \ {0}, CanMalloc(mem, n + 2), NEW got, got = kr_malloc(mem, n + 2),
         NEW h, h = got.block + 1, NEW w \in Addresses,
         NEW fresh, fresh = Fresh(got.mem, h, n, w),
         NEW r, r = IF total = 0 THEN fresh ELSE [fresh EXCEPT !.ptr[Last] = h],
         NEW first, first = IF total = 0 THEN h ELSE alloc_list
  PROVE  (\E G : HeapState(r, G, A \cup {h}, Q, first, total + n, free_list)) /\ h + 1 \in Addresses
<1>1. PICK H : H = A \cup Q
  OBVIOUS
<1>2. KrHeap(mem, F, Under(H)) /\ Headed(mem, H) /\ mem \in Heap /\ A \cap Q = {}
  BY <1>1 DEF HeapState, KrHeap
<1>3. PICK i \in Nat : \E s : \E t : Chain(mem, alloc_list, A, i, s) /\ Counts(mem, i, s, t) /\ total = t[i]
  BY DEF HeapState, AreCounted
<1>4. PICK s : \E t : Chain(mem, alloc_list, A, i, s) /\ Counts(mem, i, s, t) /\ total = t[i]
  BY <1>3
<1>5. PICK t : Chain(mem, alloc_list, A, i, s) /\ Counts(mem, i, s, t) /\ total = t[i]
  BY <1>4
<1>6. A \subseteq H
  BY <1>1
<1>7. total \in Nat /\ (total = 0 <=> i = 0) /\ (i # 0 => Last = s[i])
  BY <1>2, <1>5, <1>6, LastIs
<1>8. PICK m, b : m = got.mem /\ b = got.block
  OBVIOUS
<1>9. PICK U : U = Under(H)
  OBVIOUS
<1>10. PICK nu \in Nat \ {0} : nu = n + 2
  OBVIOUS
<1>11. /\ \E G : KrHeap(got.mem, G, U \cup {got.block})
       /\ got.block \in Addresses \ U /\ got.mem.size[got.block] = nu
       /\ Untouched(mem, got.mem, U)
  <2>1. KrHeap(mem, F, U) /\ CanMalloc(mem, nu) /\ got = kr_malloc(mem, nu)
    BY <1>2, <1>9, <1>10
  <2>2. QED
    BY <2>1, KrMallocOk
<1>12. PICK W : W = U \cup {b}
  OBVIOUS
<1>13. PICK G : KrHeap(m, G, W)
  BY <1>8, <1>11, <1>12
<1>14. b \in Addresses \ U /\ m.size[b] = n + 2 /\ Untouched(mem, m, U) /\ b \in W /\ m \in Heap
  BY <1>8, <1>10, <1>11, <1>12, <1>13 DEF KrHeap
<1>15. b \in Nat /\ h = b + 1 /\ b .. b + m.size[b] - 1 = b .. h + n
  BY <1>8, <1>14 DEF Addresses
<1>16. ASSUME NEW a \in b .. h + n
       PROVE  /\ a \in Addresses /\ a \notin G
              /\ \A c \in W : c # b => a \notin c .. c + m.size[c] - 1
  BY <1>13, <1>14, <1>15, <1>16, InUse
<1>17. h \in b .. h + n /\ h + 1 \in b .. h + n /\ h + n \in b .. h + n /\ h \in Nat
  BY <1>15
<1>18. h \in Addresses /\ h + 1 \in Addresses /\ h + n \in Addresses
  BY <1>16, <1>17
<1>19. /\ fresh \in Heap /\ fresh.brk = m.brk /\ fresh.freep = m.freep
       /\ fresh.ptr[h] = 0 /\ fresh.size[h] = n
       /\ \A a \in Addresses : a < h \/ a > h + n => fresh.ptr[a] = m.ptr[a]
       /\ \A a \in Addresses : a # h => fresh.size[a] = m.size[a]
  <2>1. fresh = Fresh(m, h, n, w)
    BY <1>8
  <2>2. QED
    BY <1>14, <1>18, <2>1, FreshIs
\* The blocks in use before are elsewhere.
<1>20. ASSUME NEW g \in H
       PROVE  /\ g \in Addresses /\ g - 1 \in Addresses /\ (g < b \/ g > h + n) /\ g # h /\ g - 1 # h
              /\ m.size[g] = mem.size[g] /\ m.size[g-1] = mem.size[g-1]
              /\ fresh.size[g] = mem.size[g] /\ fresh.size[g-1] = mem.size[g-1]
              /\ fresh.ptr[g] = mem.ptr[g] /\ g \notin G
  <2>1. g \in 2 .. NUnits /\ mem.size[g] \in Nat /\ mem.size[g] >= 1
        /\ mem.size[g-1] = mem.size[g] + 2 /\ g - 1 \in Addresses
    BY <1>2, HeadedIs
  <2>2. g - 1 \in U
    BY <1>9 DEF Under
  <2>3. PICK c \in U : c = g - 1
    BY <2>2
  <2>4. c \in c .. c + mem.size[c] - 1 /\ g \in c .. c + mem.size[c] - 1
    BY <2>1, <2>3
  <2>5. m.size[c] = mem.size[c] /\ m.size[g] = mem.size[g] /\ m.ptr[g] = mem.ptr[g]
    BY <1>14, <2>4 DEF Untouched
  <2>6. c \in W /\ c # b /\ c \in c .. c + m.size[c] - 1 /\ g \in c .. c + m.size[c] - 1
    BY <1>12, <1>14, <2>4, <2>5
  <2>7. /\ c \notin b .. h + n /\ g \notin b .. h + n
        /\ g \in Addresses /\ g \notin G
    <3>1. c \notin b .. b + m.size[b] - 1 /\ g \notin b .. b + m.size[b] - 1
      BY <1>13, <1>14, <2>6, InUse
    <3>2. g \in Addresses /\ g \notin G
      BY <1>13, <2>6, InUse
    <3>3. QED
      BY <1>15, <3>1, <3>2
  <2>8. g \in Int /\ c \in Int
    BY <2>1, <2>3
  <2>9. (c < b \/ c > h + n) /\ (g < b \/ g > h + n)
    BY <1>15, <2>7, <2>8
  <2>10. g < h \/ g > h + n
    BY <1>15, <2>8, <2>9
  <2>11. g # h /\ c # h
    BY <1>15, <1>17, <2>7
  <2>12. fresh.ptr[g] = m.ptr[g]
    BY <1>19, <2>7, <2>10
  <2>13. fresh.size[g] = m.size[g] /\ fresh.size[c] = m.size[c]
    <3>1. c \in Addresses
      BY <2>1, <2>3
    <3>2. QED
      BY <1>19, <2>7, <2>11, <3>1
  <2>14. QED
    BY <2>1, <2>3, <2>5, <2>7, <2>9, <2>11, <2>12, <2>13
<1>21. /\ r \in Heap /\ r.brk = m.brk /\ r.freep = m.freep /\ r.size = fresh.size
       /\ \A a \in Addresses : (i = 0 \/ a # s[i]) => r.ptr[a] = fresh.ptr[a]
       /\ i # 0 => s[i] \in A /\ r.ptr[s[i]] = h
  <2>1. CASE i = 0
    BY <1>7, <1>19, <2>1
  <2>2. CASE i # 0
    <3>1. PICK l : l = s[i]
      OBVIOUS
    <3>2. l \in A /\ l \in Addresses
      <4>1. i \in 1 .. i
        BY <2>2
      <4>2. l \in A
        BY <1>5, <3>1, <4>1 DEF Chain
      <4>3. QED
        BY <1>6, <1>20, <4>2
    <3>3. r = [fresh EXCEPT !.ptr[l] = h]
      BY <1>7, <2>2, <3>1
    <3>4. PICK P : P = [fresh.ptr EXCEPT ![l] = h]
      OBVIOUS
    <3>5. fresh.ptr \in [Addresses -> Addresses]
      BY <1>19 DEF Heap
    <3>6. P \in [Addresses -> Addresses] /\ P[l] = h /\ \A a \in Addresses : a # l => P[a] = fresh.ptr[a]
      BY <1>18, <3>2, <3>4, <3>5
    <3>7. r = [fresh EXCEPT !.ptr = P]
      BY <1>19, <3>3, <3>4 DEF Heap
    <3>8. r \in Heap /\ r.brk = fresh.brk /\ r.freep = fresh.freep /\ r.size = fresh.size /\ r.ptr = P
      BY <1>19, <3>6, <3>7 DEF Heap
    <3>9. QED
      BY <1>19, <2>2, <3>1, <3>2, <3>6, <3>8
  <2>3. QED
    BY <2>1, <2>2
<1>22. h \notin A /\ h \notin Q /\ h - 1 = b
  BY <1>1, <1>15, <1>20
<1>23. KrHeap(r, G, W)
  <2>1. ASSUME NEW a \in G PROVE r.ptr[a] = m.ptr[a] /\ r.size[a] = m.size[a]
    <3>1. a \in Addresses /\ a \in Nat
      BY <1>13 DEF KrHeap, Ringed, Addresses
    <3>2. a < h \/ a > h + n
      <4>1. a \notin b .. h + n
        BY <1>16
      <4>2. QED
        BY <1>15, <3>1, <4>1
    <3>3. a # h
      BY <1>17, <3>1, <3>2
    <3>4. i # 0 => a # s[i]
      BY <1>6, <1>20, <1>21
    <3>5. QED
      BY <1>19, <1>21, <3>1, <3>2, <3>3, <3>4
  <2>2. ASSUME NEW a \in W PROVE r.size[a] = m.size[a]
    <3>1. CASE a = b
      BY <1>14, <1>15, <1>19, <1>21, <3>1
    <3>2. CASE a \in U
      <4>1. PICK g \in H : a = g - 1
        BY <1>9, <3>2 DEF Under
      <4>2. QED
        BY <1>20, <1>21, <4>1
    <3>3. QED
      BY <1>12, <3>1, <3>2
  <2>3. \A a \in G \cup W : r.size[a] = m.size[a]
    BY <2>1, <2>2
  <2>4. \A a \in G : r.ptr[a] = m.ptr[a]
    BY <2>1
  <2>5. r \in Heap /\ r.brk = m.brk /\ r.freep = m.freep
    BY <1>21
  <2>6. QED
    BY <1>13, <2>3, <2>4, <2>5, KrKept
<1>24. PICK B : B = A \cup {h}
  OBVIOUS
<1>25. W = Under(B \cup Q)
  <2>1. B \cup Q = H \cup {h}
    BY <1>1, <1>24
  <2>2. Under(H \cup {h}) = Under(H) \cup {h - 1}
    BY DEF Under
  <2>3. QED
    BY <1>9, <1>12, <1>22, <2>1, <2>2
<1>26. Headed(r, B \cup Q)
  <2>1. ASSUME NEW g \in B \cup Q PROVE g \in Addresses /\ r.size[g] >= 1 /\ r.size[g-1] = r.size[g] + 2
    <3>1. CASE g = h
      <4>1. r.size[h] = n
        BY <1>19, <1>21
      <4>2. r.size[b] = n + 2
        BY <1>14, <1>15, <1>19, <1>21
      <4>3. QED
        BY <1>18, <1>22, <3>1, <4>1, <4>2
    <3>2. CASE g \in H
      <4>1. mem.size[g] >= 1 /\ mem.size[g-1] = mem.size[g] + 2
        BY <1>2, <3>2 DEF Headed
      <4>2. r.size[g] = mem.size[g] /\ r.size[g-1] = mem.size[g-1] /\ g \in Addresses
        BY <1>20, <1>21, <3>2
      <4>3. QED
        BY <4>1, <4>2
    <3>3. QED
      BY <1>1, <1>24, <3>1, <3>2
  <2>2. QED
    BY <2>1 DEF Headed
<1>27. AreCounted(r, first, B, total + n)
  <2>1. Extended(mem, r, i, s, h)
    <3>1. r.ptr[h] = 0
      BY <1>6, <1>18, <1>19, <1>20, <1>21
    <3>2. ASSUME NEW x \in 1 .. i PROVE r.ptr[s[x]] = IF x = i THEN h ELSE mem.ptr[s[x]]
      <4>1. i # 0 /\ i \in 1 .. i
        OBVIOUS
      <4>2. s[x] \in H /\ (x # i => s[x] # s[i])
        BY <1>5, <1>6, <4>1 DEF Chain
      <4>3. fresh.ptr[s[x]] = mem.ptr[s[x]] /\ s[x] \in Addresses
        BY <1>20, <4>2
      <4>4. QED
        BY <1>21, <4>1, <4>2, <4>3
    <3>3. QED
      BY <3>1, <3>2 DEF Extended
  <2>2. PICK z : z = With(s, i, h)
    OBVIOUS
  <2>3. first = IF i = 0 THEN h ELSE alloc_list
    BY <1>7
  <2>4. Chain(r, first, B, i + 1, z)
    BY <1>5, <1>22, <1>24, <2>1, <2>2, <2>3, ChainExtended
  <2>5. SizesKept(mem, r, A) /\ r.size[h] = n
    BY <1>6, <1>19, <1>20, <1>21 DEF SizesKept
  <2>6. r.size[h] \in Nat
    BY <2>5
  <2>7. PICK u : Counts(r, i + 1, z, u) /\ u[i+1] = t[i] + r.size[h]
    <3>1. Chain(mem, alloc_list, A, i, s) /\ Counts(mem, i, s, t) /\ SizesKept(mem, r, A)
      BY <1>5, <2>5
    <3>2. CountsOneMore(r, i, s, t, h)
      BY <2>6, <3>1, CountsExtended
    <3>3. QED
      BY <2>2, <3>2 DEF CountsOneMore
  <2>8. PICK j \in Nat : j = i + 1
    OBVIOUS
  <2>9. Chain(r, first, B, j, z) /\ Counts(r, j, z, u) /\ total + n = u[j]
    BY <1>5, <2>4, <2>5, <2>7, <2>8
  <2>10. QED
    BY <2>9 DEF AreCounted
<1>28. AreListed(r, free_list, Q)
  <2>1. PICK j \in Nat : \E z : Chain(mem, free_list, Q, j, z)
    BY DEF HeapState, AreListed
  <2>2. PICK z : Chain(mem, free_list, Q, j, z)
    BY <2>1
  <2>3. ASSUME NEW g \in Q PROVE r.ptr[g] = mem.ptr[g]
    <3>1. g \in H /\ g \notin A
      BY <1>1, <1>2
    <3>2. QED
      BY <1>20, <1>21, <3>1
  <2>4. Chain(r, free_list, Q, j, z)
    BY <2>2, <2>3, ChainKept
  <2>5. QED
    BY <2>4 DEF AreListed
<1>29. B \cap Q = {} /\ (Quarantine \/ Q = {})
  BY <1>2, <1>22, <1>24 DEF HeapState
<1>30. HeapState(r, G, B, Q, first, total + n, free_list)
  BY <1>23, <1>25, <1>26, <1>27, <1>28, <1>29 DEF HeapState
<1>31. QED
  BY <1>18, <1>24, <1>30

-----------------------------------------------------------------------------
(* Reachability: R are the roots, A the blocks allocated. *)

\* Where mark looks for pointers: the roots, at -NRoots .. -1, and the data
\* of the blocks M.
Scan(m, M)      == (-NRoots .. -1) \cup Live(m, M)
WordAt(m, R, a) == IF a < 0 THEN R[-a] ELSE m.ptr[a]
Into(m, A, w)   == {h \in A : w \in Data(m, h)}

\* X has every block the roots or its own data lead to, and M no block that
\* such a set does not have.
Closed(m, R, A, X) == X \subseteq A /\ \A a \in Scan(m, X) : Into(m, A, WordAt(m, R, a)) \subseteq X
InAllClosed(m, R, A, M) == \A X : Closed(m, R, A, X) => M \subseteq X

\* The steps of Reachable.
HitBy(m, A, W)  == {h \in A : W \cap Data(m, h) # {}}
WordsIn(m, X)   == UNION {{m.ptr[a] : a \in Data(m, h)} : h \in X}
MoreOf(m, A, X) == X \cup HitBy(m, A, WordsIn(m, X))
RootWords       == {roots[r] : r \in Roots}

Found(m, A, g) ==
  /\ g \in [0 .. MaxBlocks -> SUBSET A] /\ g[0] = HitBy(m, A, RootWords)
  /\ \A k \in 0 .. MaxBlocks - 1 : g[k+1] = MoreOf(m, A, g[k])

\* Reachable is the last of the sets found from the roots on.
LEMMA FoundIs ==
  ASSUME MaxBlocks \in Nat
  PROVE  \E g : Found(mem, Allocated, g) /\ Reachable = g[MaxBlocks]
<1>1. PICK A : A = Allocated
  OBVIOUS
<1>2. PICK D : D = SUBSET A
  OBVIOUS
<1>3. PICK c \in D : c = HitBy(mem, A, RootWords)
  BY <1>2 DEF HitBy
<1>4. PICK u : u = [X \in D |-> MoreOf(mem, A, X)]
  OBVIOUS
<1>5. u \in [D -> D]
  <2>1. ASSUME NEW X \in D PROVE MoreOf(mem, A, X) \in D
    BY <1>2 DEF MoreOf, HitBy
  <2>2. QED
    BY <1>4, <2>1
<1>6. PICK G : G = [k \in 0 .. MaxBlocks - 1 |-> u]
  OBVIOUS
<1>7. PICK g : Solves(g, c, G, MaxBlocks, D)
  <2>1. Rule(G, MaxBlocks, D)
    BY <1>5, <1>6 DEF Rule
  <2>2. QED
    BY <2>1, Recursion
<1>8. g \in [0 .. MaxBlocks -> D] /\ g[0] = c /\ \A k \in 0 .. MaxBlocks - 1 : g[k+1] = G[k][g[k]]
  BY <1>7 DEF Solves
<1>9. ASSUME NEW k \in 0 .. MaxBlocks - 1 PROVE g[k+1] = MoreOf(mem, A, g[k])
  <2>1. g[k] \in D /\ G[k] = u
    BY <1>6, <1>8
  <2>2. QED
    BY <1>4, <1>8, <2>1
<1>10. Found(mem, A, g)
  BY <1>2, <1>3, <1>8, <1>9 DEF Found
<1>11. \A k \in 0 .. MaxBlocks : g[k] = IF k = 0 THEN c ELSE MoreOf(mem, A, g[k-1])
  <2>1. ASSUME NEW k \in 0 .. MaxBlocks, k # 0 PROVE g[k] = MoreOf(mem, A, g[k-1])
    <3>1. k - 1 \in 0 .. MaxBlocks - 1 /\ (k - 1) + 1 = k
      BY <2>1
    <3>2. QED
      BY <1>9, <3>1
  <2>2. QED
    BY <1>8, <2>1
<1>12. g = [k \in 0 .. MaxBlocks |-> IF k = 0 THEN HitBy(mem, A, RootWords) ELSE MoreOf(mem, A, g[k-1])]
  BY <1>3, <1>8, <1>11
<1>13. PICK e : e = LET found[k \in 0 .. MaxBlocks] ==
                          IF k = 0 THEN HitBy(mem, Allocated, RootWords)
                          ELSE MoreOf(mem, Allocated, found[k-1])
                    IN  found
  OBVIOUS
<1>14. Reachable = e[MaxBlocks]
  BY <1>13 DEF Reachable, HitBy, RootWords, MoreOf, WordsIn
<1>15. e = [k \in 0 .. MaxBlocks |-> IF k = 0 THEN HitBy(mem, A, RootWords) ELSE MoreOf(mem, A, e[k-1])]
  BY <1>1, <1>12, <1>13
<1>16. e[0] = c /\ \A k \in 0 .. MaxBlocks - 1 : e[k+1] = MoreOf(mem, A, e[k])
  <2>1. e[0] = c
    BY <1>3, <1>15
  <2>2. ASSUME NEW k \in 0 .. MaxBlocks - 1 PROVE e[k+1] = MoreOf(mem, A, e[k])
    <3>1. k + 1 \in 0 .. MaxBlocks /\ k + 1 # 0 /\ (k + 1) - 1 = k
      OBVIOUS
    <3>2. QED
      BY <1>15, <3>1
  <2>3. QED
    BY <2>1, <2>2
<1>17. PICK S : S = {k \in 0 .. MaxBlocks : e[k] = g[k]}
  OBVIOUS
<1>18. 0 .. MaxBlocks \subseteq S
  <2>1. 0 \in S
    BY <1>8, <1>16, <1>17
  <2>2. ASSUME NEW k \in 0 .. MaxBlocks - 1, k \in S PROVE k + 1 \in S
    <3>1. k + 1 \in 0 .. MaxBlocks
      OBVIOUS
    <3>2. e[k+1] = g[k+1]
      BY <1>9, <1>16, <1>17, <2>2
    <3>3. QED
      BY <1>17, <3>1, <3>2
  <2>3. QED
    BY <2>1, <2>2, InductTo
<1>19. MaxBlocks \in S
  BY <1>18
<1>20. QED
  BY <1>1, <1>10, <1>14, <1>17, <1>19

\* Blocks of A that the chain of g leads to, one link at a time.
LEMMA FoundGrows ==
  ASSUME MaxBlocks \in Nat, NEW m, NEW A, NEW g, Found(m, A, g),
         IsFiniteSet(A), Cardinality(A) <= MaxBlocks
  PROVE  MoreOf(m, A, g[MaxBlocks]) = g[MaxBlocks] /\ g[0] \subseteq g[MaxBlocks] /\ g[MaxBlocks] \subseteq A
<1>1. /\ g \in [0 .. MaxBlocks -> SUBSET A]
      /\ \A k \in 0 .. MaxBlocks - 1 : g[k+1] = MoreOf(m, A, g[k])
  BY DEF Found
<1>2. \A k \in 0 .. MaxBlocks : g[k] \subseteq A /\ IsFiniteSet(g[k]) /\ Cardinality(g[k]) \in Nat
  BY <1>1, FS_Subset, FS_CardinalityType
<1>3. \A X : X \subseteq MoreOf(m, A, X)
  BY DEF MoreOf
<1>4. PICK S : S = {k \in 0 .. MaxBlocks : /\ g[0] \subseteq g[k]
                                           /\ \/ Cardinality(g[k]) >= k
                                              \/ MoreOf(m, A, g[k]) = g[k]}
  OBVIOUS
<1>5. 0 \in S
  BY <1>2, <1>4
<1>6. ASSUME NEW k \in 0 .. MaxBlocks - 1, k \in S PROVE k + 1 \in S
  <2>1. k \in 0 .. MaxBlocks /\ k + 1 \in 0 .. MaxBlocks /\ g[k+1] = MoreOf(m, A, g[k])
    BY <1>1
  <2>2. g[0] \subseteq g[k+1] /\ g[k] \subseteq g[k+1]
    BY <1>3, <1>4, <1>6, <2>1
  <2>3. CASE MoreOf(m, A, g[k]) = g[k]
    BY <1>4, <2>1, <2>2, <2>3
  <2>4. CASE MoreOf(m, A, g[k]) # g[k]
    <3>1. PICK x, y : x = g[k] /\ y = g[k+1]
      OBVIOUS
    <3>2. IsFiniteSet(y) /\ Cardinality(y) \in Nat /\ Cardinality(x) \in Nat /\ x \in SUBSET y /\ x # y
      BY <1>2, <2>1, <2>2, <2>4, <3>1
    <3>3. Cardinality(x) <= Cardinality(y) /\ Cardinality(y) # Cardinality(x)
      BY <3>2, FS_Subset
    <3>4. Cardinality(x) >= k
      BY <1>4, <1>6, <2>4, <3>1
    <3>5. Cardinality(y) >= k + 1
      BY <3>2, <3>3, <3>4
    <3>6. QED
      BY <1>4, <2>1, <2>2, <3>1, <3>5
  <2>5. QED
    BY <2>3, <2>4
<1>7. MaxBlocks \in S
  <2>1. 0 .. MaxBlocks \subseteq S
    BY <1>5, <1>6, InductTo
  <2>2. QED
    BY <2>1
<1>8. PICK Y : Y = g[MaxBlocks]
  OBVIOUS
<1>9. Y \subseteq A /\ Cardinality(Y) \in Nat
  BY <1>2, <1>8
<1>10. CASE Cardinality(Y) >= MaxBlocks
  <2>1. Cardinality(A) \in Nat /\ Cardinality(Y) <= Cardinality(A)
    BY <1>9, FS_Subset, FS_CardinalityType
  <2>2. Cardinality(A) = Cardinality(Y)
    BY <1>9, <1>10, <2>1
  <2>3. Y = A
    BY <1>9, <2>2, FS_Subset
  <2>4. MoreOf(m, A, Y) = Y
    BY <2>3 DEF MoreOf, HitBy
  <2>5. QED
    BY <1>4, <1>7, <1>8, <1>9, <2>4
<1>11. CASE MoreOf(m, A, Y) = Y
  BY <1>4, <1>7, <1>8, <1>9, <1>11
<1>12. QED
  BY <1>4, <1>7, <1>8, <1>10, <1>11

\* Reachable is the smallest set closed under following pointers.
LEMMA ReachableIs ==
  ASSUME NEW F, NEW A, NEW Q, HeapState(mem, F, A, Q, alloc_list, total, free_list)
  PROVE  Closed(mem, roots, A, Reachable) /\ InAllClosed(mem, roots, A, Reachable)
<1>1. PICK H : H = A \cup Q
  OBVIOUS
<1>2. KrHeap(mem, F, Under(H)) /\ Headed(mem, H) /\ A \subseteq H
  BY <1>1 DEF HeapState
<1>3. PICK n \in Nat : \E s : \E t : Chain(mem, alloc_list, A, n, s) /\ Counts(mem, n, s, t) /\ total = t[n]
  BY DEF HeapState, AreCounted
<1>4. PICK s : Chain(mem, alloc_list, A, n, s)
  BY <1>3
<1>5. MaxBlocks \in Nat /\ IsFiniteSet(A) /\ Cardinality(A) <= MaxBlocks
  BY <1>2, <1>4, ChainShort
<1>6. Allocated = A
  BY StateBlocks DEF Allocated
<1>7. PICK g : Found(mem, A, g) /\ Reachable = g[MaxBlocks]
  BY <1>5, <1>6, FoundIs
<1>8. PICK Y : Y = Reachable
  OBVIOUS
<1>9. MoreOf(mem, A, Y) = Y /\ g[0] \subseteq Y /\ Y \subseteq A
  BY <1>5, <1>7, <1>8, FoundGrows
<1>10. /\ g \in [0 .. MaxBlocks -> SUBSET A] /\ g[0] = HitBy(mem, A, RootWords)
       /\ \A k \in 0 .. MaxBlocks - 1 : g[k+1] = MoreOf(mem, A, g[k])
  BY <1>7 DEF Found
<1>11. NRoots \in Nat
  BY GcAssumption
<1>12. ASSUME NEW h \in A, NEW a \in Data(mem, h) PROVE a >= 1 /\ a \in Nat
  <2>1. h \in H
    BY <1>1
  <2>2. a \in Addresses /\ a >= 1
    BY <1>2, <2>1, LiveIs
  <2>3. QED
    BY <2>2 DEF Addresses
<1>13. Closed(mem, roots, A, Y)
  <2>1. ASSUME NEW a \in Scan(mem, Y) PROVE Into(mem, A, WordAt(mem, roots, a)) \subseteq Y
    <3>1. CASE a \in -NRoots .. -1
      <4>1. a < 0 /\ -a \in Roots
        BY <1>11, <3>1 DEF Roots
      <4>2. WordAt(mem, roots, a) \in RootWords
        BY <4>1 DEF WordAt, RootWords
      <4>3. Into(mem, A, WordAt(mem, roots, a)) \subseteq HitBy(mem, A, RootWords)
        BY <4>2 DEF Into, HitBy
      <4>4. QED
        BY <1>9, <1>10, <4>3
    <3>2. CASE a \in Live(mem, Y)
      <4>1. PICK h \in Y : a \in Data(mem, h)
        BY <3>2 DEF Live
      <4>2. WordAt(mem, roots, a) = mem.ptr[a]
        BY <1>9, <1>12, <4>1 DEF WordAt
      <4>3. mem.ptr[a] \in WordsIn(mem, Y)
        BY <4>1 DEF WordsIn
      <4>4. Into(mem, A, WordAt(mem, roots, a)) \subseteq HitBy(mem, A, WordsIn(mem, Y))
        BY <4>2, <4>3 DEF Into, HitBy
      <4>5. QED
        BY <1>9, <4>4 DEF MoreOf
    <3>3. QED
      BY <2>1, <3>1, <3>2 DEF Scan
  <2>2. QED
    BY <1>9, <2>1 DEF Closed
<1>14. ASSUME NEW X, Closed(mem, roots, A, X) PROVE Y \subseteq X
  <2>1. X \subseteq A /\ \A a \in Scan(mem, X) : Into(mem, A, WordAt(mem, roots, a)) \subseteq X
    BY <1>14 DEF Closed
  <2>2. PICK S : S = {k \in 0 .. MaxBlocks : g[k] \subseteq X}
    OBVIOUS
  <2>3. 0 \in S
    <3>1. ASSUME NEW h \in g[0] PROVE h \in X
      <4>1. PICK r \in Roots : h \in A /\ roots[r] \in Data(mem, h)
        BY <1>10, <3>1 DEF HitBy, RootWords
      <4>2. PICK a \in -NRoots .. -1 : a = -r /\ a < 0 /\ -a = r
        BY <1>11 DEF Roots
      <4>3. a \in Scan(mem, X) /\ h \in Into(mem, A, WordAt(mem, roots, a))
        BY <4>1, <4>2 DEF Scan, Into, WordAt
      <4>4. QED
        BY <2>1, <4>3
    <3>2. QED
      BY <1>5, <2>2, <3>1
  <2>4. ASSUME NEW k \in 0 .. MaxBlocks - 1, k \in S PROVE k + 1 \in S
    <3>1. k + 1 \in 0 .. MaxBlocks /\ g[k] \subseteq X /\ g[k+1] = MoreOf(mem, A, g[k])
      BY <1>10, <2>2, <2>4, <1>5
    <3>2. ASSUME NEW h \in HitBy(mem, A, WordsIn(mem, g[k])) PROVE h \in X
      <4>1. PICK b \in g[k] : h \in A /\ {mem.ptr[a] : a \in Data(mem, b)} \cap Data(mem, h) # {}
        BY <3>2 DEF HitBy, WordsIn
      <4>2. PICK a \in Data(mem, b) : mem.ptr[a] \in Data(mem, h)
        BY <4>1
      <4>3. b \in X /\ b \in A
        BY <2>1, <3>1, <4>1
      <4>4. a \in Scan(mem, X)
        BY <4>2, <4>3 DEF Scan, Live
      <4>5. WordAt(mem, roots, a) = mem.ptr[a]
        BY <1>12, <4>2, <4>3 DEF WordAt
      <4>6. h \in Into(mem, A, WordAt(mem, roots, a))
        BY <4>1, <4>2, <4>5 DEF Into
      <4>7. QED
        BY <2>1, <4>4, <4>6
    <3>3. g[k+1] \subseteq X
      BY <3>1, <3>2 DEF MoreOf
    <3>4. QED
      BY <2>2, <3>1, <3>3
  <2>5. MaxBlocks \in S
    <3>1. 0 .. MaxBlocks \subseteq S
      BY <1>5, <2>3, <2>4, InductTo
    <3>2. QED
      BY <1>5, <3>1
  <2>6. QED
    BY <1>7, <1>8, <2>2, <2>5
<1>15. QED
  BY <1>8, <1>13, <1>14 DEF InAllClosed

-----------------------------------------------------------------------------
(* mark: frames are ranges of addresses still to be looked at. *)

Ranges(f) == f \in Seq(Int \X Int) /\ \A i \in 1 .. Len(f) : f[i][1] <= f[i][2]
Pend(f)   == UNION {f[i][1] .. f[i][2] : i \in 1 .. Len(f)}

\* No range, no address.
LEMMA NoneLeft == Ranges(<< >>) /\ Pend(<< >>) = {}
<1>1. << >> \in Seq(Int \X Int) /\ Len(<< >>) = 0
  OBVIOUS
<1>2. 1 .. 0 = {}
  OBVIOUS
<1>3. QED
  BY <1>1, <1>2 DEF Ranges, Pend

Push(x, y, f) == <<<<x, y>>>> \o f

\* A range put in front adds its addresses.
LEMMA PushRange ==
  ASSUME NEW f, Ranges(f), NEW x \in Int, NEW y \in Int, x <= y, NEW g, g = Push(x, y, f)
  PROVE  Ranges(g) /\ Pend(g) = (x .. y) \cup Pend(f)
<1>1. f \in Seq(Int \X Int) /\ Len(f) \in Nat
  BY DEF Ranges
<1>2. PICK s : s = <<<<x, y>>>>
  OBVIOUS
<1>3. s \in Seq(Int \X Int) /\ Len(s) = 1 /\ s[1] = <<x, y>>
  BY <1>2
<1>4. /\ g \in Seq(Int \X Int) /\ Len(g) = 1 + Len(f)
      /\ \A i \in 1 .. Len(g) : g[i] = IF i <= 1 THEN s[i] ELSE f[i-1]
  BY <1>1, <1>2, <1>3, ConcatProperties DEF Push
<1>5. g[1] = <<x, y>> /\ \A i \in 1 .. Len(f) : g[i+1] = f[i]
  <2>1. 1 \in 1 .. Len(g)
    BY <1>1, <1>4
  <2>2. ASSUME NEW i \in 1 .. Len(f) PROVE g[i+1] = f[i]
    <3>1. i + 1 \in 1 .. Len(g) /\ ~ (i + 1 <= 1) /\ (i + 1) - 1 = i
      BY <1>1, <1>4
    <3>2. QED
      BY <1>4, <3>1
  <2>3. QED
    BY <1>3, <1>4, <2>1, <2>2
<1>6. \A i \in 1 .. Len(g) : i = 1 \/ (i - 1 \in 1 .. Len(f) /\ (i - 1) + 1 = i)
  BY <1>1, <1>4
<1>7. ASSUME NEW i \in 1 .. Len(g) PROVE g[i][1] <= g[i][2]
  <2>1. CASE i = 1
    BY <1>5, <2>1
  <2>2. CASE i - 1 \in 1 .. Len(f) /\ (i - 1) + 1 = i
    BY <1>5, <2>2 DEF Ranges
  <2>3. QED
    BY <1>6, <2>1, <2>2
<1>8. ASSUME NEW a \in Pend(g) PROVE a \in (x .. y) \cup Pend(f)
  <2>1. PICK i \in 1 .. Len(g) : a \in g[i][1] .. g[i][2]
    BY <1>8 DEF Pend
  <2>2. CASE i = 1
    BY <1>5, <2>1, <2>2
  <2>3. CASE i - 1 \in 1 .. Len(f) /\ (i - 1) + 1 = i
    <3>1. a \in f[i-1][1] .. f[i-1][2]
      BY <1>5, <2>1, <2>3
    <3>2. QED
      BY <2>3, <3>1 DEF Pend
  <2>4. QED
    BY <1>6, <2>2, <2>3
<1>9. ASSUME NEW a \in x .. y PROVE a \in Pend(g)
  <2>1. 1 \in 1 .. Len(g) /\ g[1][1] = x /\ g[1][2] = y
    BY <1>1, <1>4, <1>5
  <2>2. a \in g[1][1] .. g[1][2]
    BY <2>1
  <2>3. QED
    BY <2>1, <2>2 DEF Pend
<1>10. ASSUME NEW a \in Pend(f) PROVE a \in Pend(g)
  <2>1. PICK i \in 1 .. Len(f) : a \in f[i][1] .. f[i][2]
    BY <1>10 DEF Pend
  <2>2. i + 1 \in 1 .. Len(g) /\ g[i+1] = f[i]
    <3>1. g[i+1] = f[i]
      BY <1>5
    <3>2. i + 1 \in 1 .. 1 + Len(f)
      BY <1>1
    <3>3. QED
      BY <1>4, <3>1, <3>2
  <2>3. a \in g[i+1][1] .. g[i+1][2]
    BY <2>1, <2>2
  <2>4. QED
    BY <2>2, <2>3 DEF Pend
<1>11. QED
  BY <1>4, <1>7, <1>8, <1>9, <1>10 DEF Ranges

\* One address is taken off the first range.
Rest(f) == (IF Head(f)[1] = Head(f)[2] THEN << >> ELSE <<<<Head(f)[1] + 1, Head(f)[2]>>>>) \o Tail(f)

\* The first address goes, the others stay.
LEMMA PopAddress ==
  ASSUME NEW f, Ranges(f), f # << >>, NEW p, p = Head(f)[1], NEW r, r = Rest(f)
  PROVE  p \in Int /\ p \in Pend(f) /\ Ranges(r) /\ Pend(r) \subseteq Pend(f) /\ Pend(f) \subseteq Pend(r) \cup {p}
<1>1. f \in Seq(Int \X Int) /\ \A i \in 1 .. Len(f) : f[i][1] <= f[i][2]
  BY DEF Ranges
<1>2. PICK t : t = Tail(f)
  OBVIOUS
<1>3. PICK e : e = Head(f)[2]
  OBVIOUS
<1>4. Head(f) = f[1] /\ f[1] \in Int \X Int /\ 1 \in 1 .. Len(f)
  BY <1>1
<1>5. p \in Int /\ e \in Int /\ p <= e /\ f[1] = <<p, e>>
  BY <1>1, <1>3, <1>4
<1>6. t \in Seq(Int \X Int) /\ Len(t) = Len(f) - 1 /\ \A i \in 1 .. Len(t) : t[i] = f[i+1]
  BY <1>1, <1>2
<1>7. Ranges(t)
  <2>1. ASSUME NEW i \in 1 .. Len(t) PROVE t[i][1] <= t[i][2]
    <3>1. i + 1 \in 1 .. Len(f)
      BY <1>1, <1>6
    <3>2. QED
      BY <1>1, <1>6, <3>1
  <2>2. QED
    BY <1>6, <2>1 DEF Ranges
<1>8. Pend(f) = (p .. e) \cup Pend(t)
  <2>1. f = <<<<p, e>>>> \o t
    <3>1. f = <<Head(f)>> \o Tail(f)
      BY <1>1
    <3>2. QED
      BY <1>2, <1>4, <1>5, <3>1
  <2>2. f = Push(p, e, t)
    BY <2>1 DEF Push
  <2>3. QED
    BY <1>5, <1>7, <2>2, PushRange
<1>9. r = (IF p = e THEN << >> ELSE <<<<p + 1, e>>>>) \o t
  BY <1>2, <1>3 DEF Rest
<1>10. CASE p = e
  <2>1. r = t
    <3>1. r = << >> \o t
      BY <1>9, <1>10
    <3>2. QED
      BY <1>6, <3>1
  <2>2. p .. e = {p}
    BY <1>5, <1>10
  <2>3. QED
    BY <1>5, <1>7, <1>8, <2>1, <2>2
<1>11. CASE p # e
  <2>1. r = Push(p + 1, e, t) /\ p + 1 \in Int /\ p + 1 <= e
    BY <1>5, <1>9, <1>11 DEF Push
  <2>2. Ranges(r) /\ Pend(r) = (p + 1 .. e) \cup Pend(t)
    BY <1>5, <1>7, <2>1, PushRange
  <2>3. p .. e = {p} \cup (p + 1 .. e)
    BY <1>5
  <2>4. QED
    BY <1>5, <1>8, <2>2, <2>3
<1>12. QED
  BY <1>10, <1>11

StartOf(m, A, w) == {h \in Into(m, A, w) : w = h + 1}

\* The ranges of the blocks met for the first time: one or none.
NewRanges(m, new) == [k \in 1 .. Cardinality(new) |->
                        LET h == CHOOSE h \in new : TRUE IN <<h + 1, h + m.size[h]>>]

PushNew(m, new, f)  == NewRanges(m, new) \o f

\* What was looked at is marked, what is marked is reachable, and a block's
\* count is set only by a word that was found.
Marking(m, R, A, M, S, f) ==
  /\ Ranges(f) /\ Pend(f) \subseteq Scan(m, M)
  /\ M \subseteq A /\ S \subseteq M
  /\ InAllClosed(m, R, A, M)
  /\ \A a \in Scan(m, M) \ Pend(f) : /\ Into(m, A, WordAt(m, R, a)) \subseteq M
                                     /\ StartOf(m, A, WordAt(m, R, a)) \subseteq S
  /\ \A h \in S : \E a \in Scan(m, M) : WordAt(m, R, a) = h + 1

\* A word is in the data of at most one block, which is what gets scanned.
LEMMA OneBlock ==
  ASSUME NEW m, NEW F, NEW H, KrHeap(m, F, Under(H)), Headed(m, H), NEW A, A \subseteq H,
         NEW w, NEW new, new \subseteq Into(m, A, w), NEW f, Ranges(f),
         NEW g, g = PushNew(m, new, f)
  PROVE  Ranges(g) /\ Pend(g) = Live(m, new) \cup Pend(f)
<1>1. f \in Seq(Int \X Int)
  BY DEF Ranges
<1>2. CASE new = {}
  <2>1. Cardinality(new) = 0
    BY <1>2, FS_EmptySet
  <2>2. NewRanges(m, new) = << >>
    BY <2>1 DEF NewRanges
  <2>3. g = f
    BY <1>1, <2>2 DEF PushNew
  <2>4. Live(m, new) = {}
    BY <1>2 DEF Live
  <2>5. QED
    BY <2>3, <2>4
<1>3. CASE new # {}
  <2>1. PICK h \in new : TRUE
    BY <1>3
  <2>2. h \in H /\ w \in Data(m, h)
    BY <2>1 DEF Into
  <2>3. ASSUME NEW b \in new PROVE b = h
    <3>1. b \in H /\ w \in Data(m, b)
      BY <2>3 DEF Into
    <3>2. QED
      BY <2>2, <3>1, LiveIs
  <2>4. new = {h}
    BY <2>1, <2>3
  <2>5. Cardinality(new) = 1 /\ (CHOOSE b \in new : TRUE) = h
    BY <2>4, FS_Singleton
  <2>6. PICK x, y : x = h + 1 /\ y = h + m.size[h]
    OBVIOUS
  <2>7. NewRanges(m, new) = <<<<x, y>>>>
    <3>1. NewRanges(m, new) = [k \in 1 .. 1 |-> <<x, y>>]
      BY <2>5, <2>6 DEF NewRanges
    <3>2. <<<<x, y>>>> = [k \in 1 .. 1 |-> <<x, y>>]
      OBVIOUS
    <3>3. QED
      BY <3>1, <3>2
  <2>8. x \in Int /\ y \in Int /\ x <= y
    <3>1. h \in 2 .. NUnits /\ m.size[h] \in Nat /\ m.size[h] >= 1
      BY <2>2, HeadedIs
    <3>2. QED
      BY <2>6, <3>1
  <2>9. Ranges(g) /\ Pend(g) = (x .. y) \cup Pend(f)
    <3>1. g = Push(x, y, f)
      BY <2>7 DEF PushNew, Push
    <3>2. QED
      BY <2>8, <3>1, PushRange
  <2>10. Live(m, new) = x .. y
    BY <2>4, <2>6 DEF Live, Data
  <2>11. QED
    BY <2>9, <2>10
<1>4. QED
  BY <1>2, <1>3

\* One step of mark: w is the word looked at, new the block met.
LEMMA MarkOk ==
  ASSUME NEW m, NEW F, NEW H, KrHeap(m, F, Under(H)), Headed(m, H), NEW A, A \subseteq H,
         NEW R, NEW M, NEW S, NEW f, Marking(m, R, A, M, S, f), f # << >>,
         NEW w, w = WordAt(m, R, Head(f)[1]), NEW new, new = Into(m, A, w) \ M,
         NEW g, g = PushNew(m, new, Rest(f))
  PROVE  Marking(m, R, A, M \cup new, S \cup StartOf(m, A, w), g)
<1>1. /\ Ranges(f) /\ Pend(f) \subseteq Scan(m, M)
      /\ M \subseteq A /\ S \subseteq M /\ InAllClosed(m, R, A, M)
      /\ \A a \in Scan(m, M) \ Pend(f) : /\ Into(m, A, WordAt(m, R, a)) \subseteq M
                                         /\ StartOf(m, A, WordAt(m, R, a)) \subseteq S
      /\ \A h \in S : \E a \in Scan(m, M) : WordAt(m, R, a) = h + 1
  BY DEF Marking
<1>2. PICK p, r : p = Head(f)[1] /\ r = Rest(f)
  OBVIOUS
<1>3. p \in Int /\ p \in Pend(f) /\ Ranges(r) /\ Pend(r) \subseteq Pend(f) /\ Pend(f) \subseteq Pend(r) \cup {p}
  BY <1>1, <1>2, PopAddress
<1>4. Ranges(g) /\ Pend(g) = Live(m, new) \cup Pend(r)
  <2>1. new \subseteq Into(m, A, w) /\ g = PushNew(m, new, r)
    BY <1>2
  <2>2. Ranges(r)
    BY <1>3
  <2>3. QED
    BY ONLY <2>1, <2>2, OneBlock, KrHeap(m, F, Under(H)), Headed(m, H), A \subseteq H
<1>5. PICK N, T : N = M \cup new /\ T = S \cup StartOf(m, A, w)
  OBVIOUS
<1>6. Scan(m, N) = Scan(m, M) \cup Live(m, new)
  BY <1>5 DEF Scan, Live
<1>7. w = WordAt(m, R, p) /\ p \in Scan(m, M) /\ StartOf(m, A, w) \subseteq Into(m, A, w) /\ Into(m, A, w) \subseteq A
      /\ Into(m, A, w) \subseteq N
  BY <1>1, <1>2, <1>3, <1>5 DEF StartOf, Into
<1>8. Pend(g) \subseteq Scan(m, N)
  BY <1>1, <1>3, <1>4, <1>6
<1>9. N \subseteq A /\ T \subseteq N
  BY <1>1, <1>5, <1>7
<1>10. InAllClosed(m, R, A, N)
  <2>1. ASSUME NEW X, Closed(m, R, A, X) PROVE N \subseteq X
    <3>1. M \subseteq X
      BY <1>1, <2>1 DEF InAllClosed
    <3>2. p \in Scan(m, X)
      BY <1>7, <3>1 DEF Scan, Live
    <3>3. Into(m, A, w) \subseteq X
      BY <1>7, <2>1, <3>2 DEF Closed
    <3>4. QED
      BY <1>5, <3>1, <3>3
  <2>2. QED
    BY <2>1 DEF InAllClosed
<1>11. ASSUME NEW a \in Scan(m, N) \ Pend(g)
       PROVE  Into(m, A, WordAt(m, R, a)) \subseteq N /\ StartOf(m, A, WordAt(m, R, a)) \subseteq T
  <2>1. CASE a = p
    BY <1>5, <1>7, <2>1
  <2>2. CASE a # p
    <3>1. a \in Scan(m, M) \ Pend(f)
      BY <1>3, <1>4, <1>6, <1>11, <2>2
    <3>2. QED
      BY <1>1, <1>5, <3>1
  <2>3. QED
    BY <2>1, <2>2
<1>12. ASSUME NEW h \in T PROVE \E a \in Scan(m, N) : WordAt(m, R, a) = h + 1
  <2>1. CASE h \in S
    BY <1>1, <1>6, <2>1
  <2>2. CASE h \in StartOf(m, A, w)
    BY <1>6, <1>7, <2>2 DEF StartOf
  <2>3. QED
    BY <1>5, <2>1, <2>2
<1>13. Marking(m, R, A, N, T, g)
  BY <1>4, <1>8, <1>9, <1>10, <1>11, <1>12 DEF Marking
<1>14. QED
  BY <1>5, <1>13

\* mark_all's first range is the roots.
LEMMA MarkBegins ==
  ASSUME NEW m, NEW R, NEW A
  PROVE  Marking(m, R, A, {}, {}, <<<<-NRoots, -1>>>>)
<1>1. PICK f : f = <<<<-NRoots, -1>>>>
  OBVIOUS
<1>2. -NRoots \in Int /\ -NRoots <= -1 /\ -1 \in Int
  BY GcAssumption
<1>3. Ranges(f) /\ Pend(f) = -NRoots .. -1
  <2>1. PICK e : e = << >>
    OBVIOUS
  <2>2. f = Push(-NRoots, -1, e)
    BY <1>1, <2>1 DEF Push
  <2>3. Ranges(e) /\ Pend(e) = {}
    BY <2>1, NoneLeft
  <2>4. Ranges(f) /\ Pend(f) = (-NRoots .. -1) \cup Pend(e)
    BY <1>2, <2>2, <2>3, PushRange
  <2>5. QED
    BY <2>3, <2>4
<1>4. Scan(m, {}) = -NRoots .. -1
  BY DEF Scan, Live
<1>5. InAllClosed(m, R, A, {})
  BY DEF InAllClosed
<1>6. Marking(m, R, A, {}, {}, f)
  BY <1>3, <1>4, <1>5 DEF Marking
<1>7. QED
  BY <1>1, <1>6

\* The set M is what is reachable, and S the blocks among them to whose start
\* a reachable word points.
Marked(m, R, A, M) == Closed(m, R, A, M) /\ InAllClosed(m, R, A, M)
Counted(m, R, M, S) == S = {h \in M : \E a \in Scan(m, M) : WordAt(m, R, a) = h + 1}

\* With no range left, what is marked is closed, and the counts are complete.
LEMMA MarkDone ==
  ASSUME NEW m, NEW F, NEW H, KrHeap(m, F, Under(H)), Headed(m, H), NEW A, A \subseteq H,
         NEW R, NEW M, NEW S, Marking(m, R, A, M, S, << >>)
  PROVE  Marked(m, R, A, M) /\ Counted(m, R, M, S)
<1>1. Pend(<< >>) = {}
  BY NoneLeft
<1>2. /\ M \subseteq A /\ S \subseteq M /\ InAllClosed(m, R, A, M)
      /\ \A a \in Scan(m, M) : /\ Into(m, A, WordAt(m, R, a)) \subseteq M
                               /\ StartOf(m, A, WordAt(m, R, a)) \subseteq S
      /\ \A h \in S : \E a \in Scan(m, M) : WordAt(m, R, a) = h + 1
  BY <1>1 DEF Marking
<1>3. Marked(m, R, A, M)
  BY <1>2 DEF Marked, Closed
<1>4. ASSUME NEW h \in M, NEW a \in Scan(m, M), WordAt(m, R, a) = h + 1 PROVE h \in S
  <2>1. h \in 2 .. NUnits /\ m.size[h] \in Nat /\ m.size[h] >= 1 /\ h \in A
    <3>1. h \in A /\ h \in H
      BY <1>2
    <3>2. QED
      BY <3>1, HeadedIs
  <2>2. h + 1 \in Data(m, h)
    BY <2>1 DEF Data
  <2>3. h \in StartOf(m, A, WordAt(m, R, a))
    BY <1>4, <2>1, <2>2 DEF StartOf, Into
  <2>4. QED
    BY <1>2, <2>3
<1>5. Counted(m, R, M, S)
  BY <1>2, <1>4 DEF Counted
<1>6. QED
  BY <1>3, <1>5

-----------------------------------------------------------------------------
(* The sweep, and the calls that change the books. *)

\* Freeing a block that is not reachable changes nothing about what is.
LEMMA SweepKeeps ==
  ASSUME NEW m, NEW r, NEW R, NEW A, NEW M, NEW h, h \notin M, Marked(m, R, A, M),
         SizesKept(m, r, A \ {h}), DataTidied(m, r, A \ {h}),
         \A a \in Live(m, A) : a \in Int /\ a >= 1
  PROVE  Marked(r, R, A \ {h}, M)
<1>1. PICK B : B = A \ {h}
  OBVIOUS
<1>2. /\ M \subseteq A /\ \A a \in Scan(m, M) : Into(m, A, WordAt(m, R, a)) \subseteq M
      /\ \A X : Closed(m, R, A, X) => M \subseteq X
  BY DEF Marked, Closed, InAllClosed
<1>3. M \subseteq B /\ B \subseteq A
  BY <1>1, <1>2
<1>4. \A b \in B : Data(r, b) = Data(m, b)
  BY <1>1 DEF SizesKept, Data
<1>5. ASSUME NEW X, X \subseteq B PROVE Live(r, X) = Live(m, X) /\ Scan(r, X) = Scan(m, X)
  <2>1. Live(r, X) = Live(m, X)
    BY <1>4, <1>5 DEF Live
  <2>2. QED
    BY <2>1 DEF Scan
\* The same words lead to the same blocks, but for h.
<1>6. ASSUME NEW a \in Scan(m, B)
      PROVE  Into(r, B, WordAt(r, R, a)) = Into(m, A, WordAt(m, R, a)) \ {h}
  <2>1. ASSUME NEW w PROVE Into(r, B, w) = Into(m, A, w) \ {h}
    BY <1>1, <1>4 DEF Into
  <2>2. CASE a < 0
    BY <2>1, <2>2 DEF WordAt
  <2>3. CASE ~ (a < 0)
    <3>1. a \in Live(m, B)
      BY <1>6, <2>3, GcAssumption DEF Scan
    <3>2. r.ptr[a] = IF m.ptr[a] \in Live(m, B) THEN m.ptr[a] ELSE 0
      BY <1>1, <3>1 DEF DataTidied
    <3>3. WordAt(r, R, a) = r.ptr[a] /\ WordAt(m, R, a) = m.ptr[a]
      BY <2>3 DEF WordAt
    <3>4. CASE m.ptr[a] \in Live(m, B)
      BY <2>1, <3>2, <3>3, <3>4
    <3>5. CASE m.ptr[a] \notin Live(m, B)
      <4>1. 0 \notin Live(m, B)
        BY <1>3 DEF Live
      <4>2. Into(m, A, 0) \ {h} = {}
        BY <1>1, <4>1 DEF Into, Live
      <4>3. Into(m, A, m.ptr[a]) \ {h} = {}
        BY <1>1, <3>5 DEF Into, Live
      <4>4. QED
        BY <2>1, <3>2, <3>3, <3>5, <4>2, <4>3
    <3>6. QED
      BY <3>4, <3>5
  <2>4. QED
    BY <2>2, <2>3
<1>7. \A X : X \subseteq B => Scan(m, X) \subseteq Scan(m, B)
  BY DEF Scan, Live
<1>8. Closed(r, R, B, M)
  <2>1. ASSUME NEW a \in Scan(r, M) PROVE Into(r, B, WordAt(r, R, a)) \subseteq M
    <3>1. a \in Scan(m, M) /\ a \in Scan(m, B)
      BY <1>3, <1>5, <1>7, <2>1
    <3>2. QED
      BY <1>2, <1>6, <3>1
  <2>2. QED
    BY <1>3, <2>1 DEF Closed
<1>9. ASSUME NEW X, Closed(r, R, B, X) PROVE M \subseteq X
  <2>1. PICK Y : Y = X \cap M
    OBVIOUS
  <2>2. Closed(m, R, A, Y)
    <3>1. ASSUME NEW a \in Scan(m, Y), NEW b \in Into(m, A, WordAt(m, R, a)) PROVE b \in Y
      <4>1. a \in Scan(m, M) /\ a \in Scan(m, X)
        BY <2>1, <3>1 DEF Scan, Live
      <4>2. b \in M /\ b # h
        BY <1>2, <4>1
      <4>3. X \subseteq B /\ a \in Scan(r, X) /\ a \in Scan(m, B)
        BY <1>5, <1>7, <1>9, <4>1 DEF Closed
      <4>4. b \in Into(r, B, WordAt(r, R, a))
        BY <1>6, <4>2, <4>3
      <4>5. b \in X
        BY <1>9, <4>3, <4>4 DEF Closed
      <4>6. QED
        BY <2>1, <4>2, <4>5
    <3>2. Y \subseteq A
      BY <1>2, <2>1
    <3>3. QED
      BY <3>1, <3>2 DEF Closed
  <2>3. QED
    BY <1>2, <2>1, <2>2
<1>10. Marked(r, R, B, M)
  BY <1>8, <1>9 DEF Marked, InAllClosed
<1>11. QED
  BY <1>1, <1>10

\* The blocks are those the lists show.
HeapOk(m, first, c, qfirst) ==
  \E F : HeapState(m, F, Blocks(m, first), Blocks(m, qfirst), first, c, qfirst)

\* Books in order are so for the blocks the lists show.
LEMMA StateHeapOk ==
  ASSUME NEW m, NEW F, NEW A, NEW Q, NEW first, NEW c, NEW qfirst,
         HeapState(m, F, A, Q, first, c, qfirst)
  PROVE  HeapOk(m, first, c, qfirst) /\ Blocks(m, first) = A /\ Blocks(m, qfirst) = Q
BY StateBlocks DEF HeapOk

\* What ckfree of h, the k-th block of the list, leaves.
CkfreeLeaves(A, n, s, k, h) ==
  /\ HeapOk(mem', alloc_list', total', free_list')
  /\ Blocks(mem', alloc_list') = A \ {h}
  /\ Chain(mem', alloc_list', A \ {h}, n - 1, Without(s, n, k))
  /\ \E u : Counts(mem', n - 1, Without(s, n, k), u) /\ total' = u[n-1]
  /\ SizesKept(mem, mem', A \ {h}) /\ DataTidied(mem, mem', A \ {h})
  /\ Freed(h).ptr[h] = IF Quarantine THEN 0 ELSE mem.ptr[h]

\* The other blocks keep their data, their order and their count.
LEMMA CkfreeOk ==
  ASSUME NEW F, NEW A, NEW Q, HeapState(mem, F, A, Q, alloc_list, total, free_list),
         NEW n \in Nat, NEW s, Chain(mem, alloc_list, A, n, s),
         NEW t, Counts(mem, n, s, t), total = t[n], NEW k \in 1 .. n, NEW h, h = s[k], ckfree(h)
  PROVE  CkfreeLeaves(A, n, s, k, h)
<1>1. PICK f : f = Freed(h)
  OBVIOUS
<1>2. PICK first : first = alloc_list'
  OBVIOUS
<1>3. PICK qfirst : qfirst = free_list'
  OBVIOUS
<1>4. PICK r : r = mem'
  OBVIOUS
<1>5. PICK c : c = total'
  OBVIOUS
<1>6. /\ first = IF alloc_list = s[k] THEN mem.ptr[s[k]] ELSE alloc_list
      /\ qfirst = IF Quarantine /\ free_list = 0 THEN s[k] ELSE free_list
      /\ c = total - mem.size[h]
  BY <1>2, <1>3, <1>5 DEF ckfree
<1>7. Allocated = A
  BY StateBlocks DEF Allocated
<1>8. r = Tidy(f, A \ {h}, Blocks(f, qfirst))
  BY <1>1, <1>3, <1>4, <1>7 DEF ckfree
<1>9. Released(f, A, n, s, k, first, qfirst)
  BY <1>1, <1>6, FreedOk
<1>10. PICK B : B = A \ {h}
  OBVIOUS
<1>11. PICK w : w = Without(s, n, k)
  OBVIOUS
<1>12. PICK G : \E T : HeapState(f, G, B, T, first, c, qfirst)
  BY <1>6, <1>9, <1>10 DEF Released
<1>13. PICK T : HeapState(f, G, B, T, first, c, qfirst)
  BY <1>12
<1>14. /\ Chain(f, first, B, n - 1, w)
       /\ \E u : Counts(f, n - 1, w, u) /\ c = u[n-1]
       /\ SizesKept(mem, f, B) /\ DataKept(mem, f, B)
       /\ f.ptr[h] = IF Quarantine THEN 0 ELSE mem.ptr[h]
  BY <1>6, <1>9, <1>10, <1>11 DEF Released, ReleasedBooks
<1>15. Blocks(f, qfirst) = T
  BY <1>13, StateBlocks
<1>16. /\ HeapState(r, G, B, T, first, c, qfirst) /\ DataTidied(f, r, B) /\ SizesKept(f, r, B)
       /\ \A b \in B : r.ptr[b] = f.ptr[b]
  <2>1. r = Tidy(f, B, T)
    BY <1>8, <1>10, <1>15
  <2>2. QED
    BY <1>13, <2>1, TidyOk
<1>17. HeapOk(r, first, c, qfirst) /\ Blocks(r, first) = B
  BY <1>16, StateHeapOk
<1>18. PICK i \in Nat : i = n - 1
  OBVIOUS
<1>19. Chain(r, first, B, i, w) /\ \E u : Counts(r, i, w, u) /\ c = u[i]
  <2>1. PICK u : Counts(f, i, w, u) /\ c = u[i]
    BY <1>14, <1>18
  <2>2. Chain(f, first, B, i, w)
    BY <1>14, <1>18
  <2>3. Chain(r, first, B, i, w)
    BY <1>16, <2>2, ChainKept
  <2>4. Counts(r, i, w, u)
    BY <1>16, <2>1, <2>2, CountsKept
  <2>5. QED
    BY <2>1, <2>3, <2>4
<1>20. SizesKept(mem, r, B)
  BY <1>14, <1>16 DEF SizesKept
<1>21. DataTidied(mem, r, B)
  <2>1. \A b \in B : Data(f, b) = Data(mem, b)
    BY <1>14 DEF SizesKept, Data
  <2>2. Live(f, B) = Live(mem, B)
    BY <2>1 DEF Live
  <2>3. QED
    BY <1>14, <1>16, <2>2 DEF DataTidied, DataKept
<1>22. QED
  BY <1>1, <1>2, <1>3, <1>4, <1>5, <1>10, <1>11, <1>14, <1>17, <1>18, <1>19, <1>20, <1>21 DEF CkfreeLeaves

\* ckalloc keeps the books, whatever pointer was left in the units it got.
LEMMA CkallocOk ==
  ASSUME HeapOk(mem, alloc_list, total, free_list), NEW r \in Roots, NEW n \in Sizes,
         NEW w \in Leftovers, ckalloc(r, n, w), roots \in [Roots -> Addresses]
  PROVE  HeapOk(mem', alloc_list', total', free_list') /\ roots' \in [Roots -> Addresses]
<1>1. PICK A, Q : A = Allocated /\ Q = Blocks(mem, free_list)
  OBVIOUS
<1>2. PICK F : HeapState(mem, F, A, Q, alloc_list, total, free_list)
  BY <1>1 DEF HeapOk, Allocated
<1>3. n \in Nat \ {0}
  BY GcAssumption
<1>4. PICK nu : nu = n + 2
  OBVIOUS
<1>5. CASE ~ CanMalloc(mem, nu)
  BY <1>4, <1>5 DEF ckalloc, lists
<1>6. CASE CanMalloc(mem, nu)
  <2>1. PICK got : got = kr_malloc(mem, nu)
    OBVIOUS
  <2>2. PICK h : h = got.block + 1
    OBVIOUS
  <2>3. PICK fresh : fresh = Fresh(got.mem, h, n, w)
    OBVIOUS
  <2>4. PICK linked : linked = IF total = 0 THEN fresh ELSE [fresh EXCEPT !.ptr[Last] = h]
    OBVIOUS
  <2>5. PICK first : first = IF total = 0 THEN h ELSE alloc_list
    OBVIOUS
  <2>6. /\ alloc_list' = first /\ mem' = Tidy(linked, A \cup {h}, Q)
        /\ total' = total + n /\ roots' = [roots EXCEPT ![r] = h + 1] /\ free_list' = free_list
    BY <1>1, <1>4, <1>6, <2>1, <2>2, <2>3, <2>4, <2>5 DEF ckalloc, Fresh, ck_data_start
  <2>7. w \in Addresses
    <3>1. PICK H : H = A \cup Q
      OBVIOUS
    <3>2. KrHeap(mem, F, Under(H)) /\ Headed(mem, H)
      BY <1>2, <3>1 DEF HeapState
    <3>3. alloc_list \in {0} \cup H
      BY <1>2, <3>1, StateBlocks
    <3>4. alloc_list # 0 => alloc_list + 1 \in Addresses
      <4>1. ASSUME NEW b \in H PROVE b + 1 \in Addresses
        <5>1. b \in 2 .. NUnits /\ mem.size[b] \in Nat /\ mem.size[b] >= 1 /\ b + mem.size[b] \in Addresses
          BY <3>2, HeadedIs
        <5>2. QED
          BY <5>1, KrAssumption DEF Addresses
      <4>2. QED
        BY <3>3, <4>1
    <3>5. 0 \in Addresses
      BY KrAssumption DEF Addresses
    <3>6. QED
      BY <3>4, <3>5 DEF Leftovers, ck_data_start
  <2>8. (\E G : HeapState(linked, G, A \cup {h}, Q, first, total + n, free_list)) /\ h + 1 \in Addresses
    BY <1>2, <1>3, <1>4, <1>6, <2>1, <2>2, <2>3, <2>4, <2>5, <2>7, AllocatedOk
  <2>9. PICK G : HeapState(linked, G, A \cup {h}, Q, first, total + n, free_list)
    BY <2>8
  <2>10. PICK m : m = Tidy(linked, A \cup {h}, Q)
    OBVIOUS
  <2>11. HeapState(m, G, A \cup {h}, Q, first, total + n, free_list)
    BY <2>9, <2>10, TidyOk
  <2>12. HeapOk(m, first, total + n, free_list)
    BY <2>11, StateHeapOk
  <2>13. roots' \in [Roots -> Addresses]
    BY <2>6, <2>8
  <2>14. QED
    BY <2>6, <2>10, <2>12, <2>13
<1>7. QED
  BY <1>5, <1>6

\* Storing a pointer in the data of a block touches no header.
LEMMA StoreOk ==
  ASSUME HeapOk(mem, alloc_list, total, free_list), NEW r \in Roots, NEW s \in Roots,
         Store(r, s), roots \in [Roots -> Addresses]
  PROVE  HeapOk(mem', alloc_list', total', free_list')
<1>1. PICK A, Q : A = Allocated /\ Q = Blocks(mem, free_list)
  OBVIOUS
<1>2. PICK F : HeapState(mem, F, A, Q, alloc_list, total, free_list)
  BY <1>1 DEF HeapOk, Allocated
<1>3. PICK H : H = A \cup Q
  OBVIOUS
<1>4. KrHeap(mem, F, Under(H)) /\ Headed(mem, H) /\ mem \in Heap
  BY <1>2, <1>3 DEF HeapState, KrHeap
<1>5. PICK a : a = roots[r]
  OBVIOUS
<1>6. PICK h \in H : a \in Data(mem, h)
  BY <1>1, <1>3, <1>5 DEF Store, BlockOf
<1>7. a \in Addresses /\ a \notin F /\ a \notin H /\ a \notin Under(H)
  BY <1>4, <1>6, LiveIs
<1>8. PICK v \in Addresses : v = roots[s]
  OBVIOUS
<1>9. PICK m : m = [mem EXCEPT !.ptr[a] = v]
  OBVIOUS
<1>10. PICK P : P = [mem.ptr EXCEPT ![a] = v]
  OBVIOUS
<1>11. mem.ptr \in [Addresses -> Addresses]
  BY <1>4 DEF Heap
<1>12. P \in [Addresses -> Addresses] /\ \A b \in Addresses : b # a => P[b] = mem.ptr[b]
  BY <1>10, <1>11
<1>13. m = [mem EXCEPT !.ptr = P]
  BY <1>4, <1>9, <1>10 DEF Heap
<1>14. m \in Heap /\ m.brk = mem.brk /\ m.freep = mem.freep /\ m.size = mem.size /\ m.ptr = P
  BY <1>4, <1>12, <1>13 DEF Heap
<1>15. F \subseteq Addresses /\ H \subseteq Addresses
  BY <1>4 DEF KrHeap, Ringed, Headed
<1>16. \A b \in F \cup A \cup Q : m.ptr[b] = mem.ptr[b] /\ m.size[b] = mem.size[b]
  BY <1>3, <1>7, <1>12, <1>14, <1>15
<1>17. \A b \in Under(A \cup Q) : m.size[b] = mem.size[b]
  BY <1>14
<1>18. HeapState(m, F, A, Q, alloc_list, total, free_list)
  BY <1>2, <1>14, <1>16, <1>17, StateKept
<1>19. HeapOk(m, alloc_list, total, free_list)
  BY <1>18, StateHeapOk
<1>20. mem' = m /\ alloc_list' = alloc_list /\ total' = total /\ free_list' = free_list
  BY <1>5, <1>8, <1>9 DEF Store, lists
<1>21. QED
  BY <1>19, <1>20

\* The list and its count, as CkfreeOk wants them.
Books(m, first, c, A, n, s, t) == Chain(m, first, A, n, s) /\ Counts(m, n, s, t) /\ c = t[n]

\* The parts of the books, by name.
LEMMA HeapBooks ==
  ASSUME HeapOk(mem, alloc_list, total, free_list)
  PROVE  \E F : \E n \in Nat : \E s : \E t :
           /\ HeapState(mem, F, Allocated, Blocks(mem, free_list), alloc_list, total, free_list)
           /\ Books(mem, alloc_list, total, Allocated, n, s, t)
<1>1. PICK A : A = Allocated
  OBVIOUS
<1>2. PICK F : HeapState(mem, F, A, Blocks(mem, free_list), alloc_list, total, free_list)
  BY <1>1 DEF HeapOk, Allocated
<1>3. PICK n \in Nat : \E s : \E t : Chain(mem, alloc_list, A, n, s) /\ Counts(mem, n, s, t) /\ total = t[n]
  BY <1>2 DEF HeapState, AreCounted
<1>4. QED
  BY <1>1, <1>2, <1>3 DEF Books

\* The program frees a block.
LEMMA FreeOk ==
  ASSUME HeapOk(mem, alloc_list, total, free_list), NEW r \in Roots, Free(r),
         roots \in [Roots -> Addresses]
  PROVE  HeapOk(mem', alloc_list', total', free_list') /\ roots' \in [Roots -> Addresses]
<1>1. PICK A, Q : A = Allocated /\ Q = Blocks(mem, free_list)
  OBVIOUS
<1>2. PICK F : \E n \in Nat : \E s : \E t :
           /\ HeapState(mem, F, A, Q, alloc_list, total, free_list)
           /\ Books(mem, alloc_list, total, A, n, s, t)
  BY <1>1, HeapBooks
<1>3. PICK n \in Nat : \E s : \E t :
           /\ HeapState(mem, F, A, Q, alloc_list, total, free_list)
           /\ Books(mem, alloc_list, total, A, n, s, t)
  BY <1>2
<1>4. PICK s : \E t :
           /\ HeapState(mem, F, A, Q, alloc_list, total, free_list)
           /\ Books(mem, alloc_list, total, A, n, s, t)
  BY <1>3
<1>5. PICK t : /\ HeapState(mem, F, A, Q, alloc_list, total, free_list)
               /\ Books(mem, alloc_list, total, A, n, s, t)
  BY <1>4
<1>6. PICK h \in A : ckfree(h)
  BY <1>1 DEF Free, BlockOf
<1>7. PICK k \in 1 .. n : h = s[k]
  BY <1>5, <1>6 DEF Books, Chain
<1>8. HeapOk(mem', alloc_list', total', free_list')
  <2>1. Chain(mem, alloc_list, A, n, s) /\ Counts(mem, n, s, t) /\ total = t[n]
    BY <1>5 DEF Books
  <2>2. QED
    BY <1>5, <1>6, <1>7, <2>1, CkfreeOk DEF CkfreeLeaves
<1>9. roots' \in [Roots -> Addresses]
  <2>1. 0 \in Addresses
    BY KrAssumption DEF Addresses
  <2>2. \E b \in BlockOf(roots[r]) : roots' = [q \in Roots |-> IF roots[q] \in Data(mem, b) THEN 0 ELSE roots[q]]
    BY DEF Free
  <2>3. QED
    BY <2>1, <2>2
<1>10. QED
  BY <1>8, <1>9

-----------------------------------------------------------------------------
(* The inductive invariant. *)

\* The sweep is at the k-th block, and kept those before for their marks.
Sweeping(m, first, c, A, M, cur) ==
  \E n \in Nat : \E s : \E t : \E k \in 1 .. n + 1 :
    /\ Books(m, first, c, A, n, s, t)
    /\ cur = IF k = n + 1 THEN 0 ELSE s[k]
    /\ Quarantine \/ \A j \in 1 .. k - 1 : s[j] \in M

IInv ==
  /\ HeapOk(mem, alloc_list, total, free_list)
  /\ roots \in [Roots -> Addresses]
  /\ pc # "mark" => frames = << >>
  /\ pc = "mark" => Marking(mem, roots, Allocated, marked, starts, frames)
  /\ pc \in {"sweep", "swept", "reported"} => Marked(mem, roots, Allocated, marked)
  /\ pc = "sweep" => Sweeping(mem, alloc_list, total, Allocated, marked, cursor)
  /\ pc = "swept" => Quarantine \/ Allocated \subseteq marked
  /\ pc = "reported" =>
       /\ Counted(mem, roots, marked, starts)
       /\ leaks = [definite |-> Allocated \ marked, maybe |-> (Allocated \cap marked) \ starts]

\* Before the first call: no block, and a free list of base alone.
LEMMA FirstHeap == HeapState(NoHeap, {0}, {}, {}, 0, 0, 0)
<1>1. PICK m : m = NoHeap
  OBVIOUS
<1>2. 0 \in Addresses /\ Addresses = 0 .. NUnits /\ NUnits \in Nat
  BY KrAssumption DEF Addresses
<1>3. m = [ptr |-> [a \in Addresses |-> 0], size |-> [a \in Addresses |-> 0], freep |-> 0, brk |-> 1]
  BY <1>1 DEF NoHeap, base
<1>4. /\ m.ptr = [a \in Addresses |-> 0] /\ m.size = [a \in Addresses |-> 0]
      /\ m.freep = 0 /\ m.brk = 1
  BY <1>3
<1>5. m \in Heap
  <2>1. [a \in Addresses |-> 0] \in [Addresses -> Addresses]
    BY <1>2
  <2>2. [a \in Addresses |-> 0] \in [Addresses -> Nat]
    OBVIOUS
  <2>3. 1 \in 1 .. NUnits + 1
    BY <1>2
  <2>4. QED
    BY <1>2, <1>3, <2>1, <2>2, <2>3 DEF Heap
<1>6. m.ptr[0] = 0 /\ m.size[0] = 0
  BY <1>2, <1>4
<1>7. Ringed(m, {0})
  BY <1>2, <1>4, <1>6 DEF Ringed, Follows
<1>8. Under({}) = {}
  BY DEF Under
<1>9. Tiled(m, {0}, {})
  BY <1>4 DEF Tiled, Apart, Inside, Covers
<1>10. KrHeap(m, {0}, Under({}))
  BY <1>5, <1>7, <1>8, <1>9 DEF KrHeap
<1>11. Headed(m, {})
  BY DEF Headed
<1>12. AreListed(m, 0, {})
  BY NoneListed
<1>13. AreCounted(m, 0, {}, 0)
  <2>1. PICK s : s = [i \in 1 .. 0 |-> 0]
    OBVIOUS
  <2>2. PICK t : t = [i \in 0 .. 0 |-> 0]
    OBVIOUS
  <2>3. 1 .. 0 = {} /\ 0 .. 0 = {0}
    OBVIOUS
  <2>4. Chain(m, 0, {}, 0, s)
    BY <2>1, <2>3 DEF Chain
  <2>5. Counts(m, 0, s, t) /\ t[0] = 0
    BY <2>2, <2>3 DEF Counts
  <2>6. QED
    BY <2>4, <2>5 DEF AreCounted
<1>14. {} \cup {} = {} /\ {} \cap {} = {}
  OBVIOUS
<1>15. HeapState(m, {0}, {}, {}, 0, 0, 0)
  BY <1>10, <1>11, <1>12, <1>13, <1>14 DEF HeapState
<1>16. QED
  BY <1>1, <1>15

\* The invariant holds before the first call.
LEMMA Starts == Init => IInv
<1> SUFFICES ASSUME Init PROVE IInv
  OBVIOUS
<1>1. HeapOk(mem, alloc_list, total, free_list)
  BY FirstHeap, StateHeapOk DEF Init
<1>2. roots \in [Roots -> Addresses]
  BY KrAssumption DEF Init, Addresses
<1>3. QED
  BY <1>1, <1>2 DEF Init, IInv

-----------------------------------------------------------------------------
(* The steps of the collector. *)

\* mark looks at one word.
LEMMA MarkKeeps ==
  ASSUME IInv, Mark
  PROVE  IInv'
<1>1. PICK A, Q : A = Allocated /\ Q = Blocks(mem, free_list)
  OBVIOUS
<1>2. PICK F : HeapState(mem, F, A, Q, alloc_list, total, free_list)
  BY <1>1 DEF IInv, HeapOk, Allocated
<1>3. PICK H : H = A \cup Q
  OBVIOUS
<1>4. KrHeap(mem, F, Under(H)) /\ Headed(mem, H) /\ A \subseteq H
  BY <1>2, <1>3 DEF HeapState
<1>5. pc = "mark" /\ frames # << >> /\ Marking(mem, roots, A, marked, starts, frames)
  BY <1>1 DEF Mark, IInv
<1>6. PICK w : w = WordAt(mem, roots, Head(frames)[1])
  OBVIOUS
<1>7. w = Word(Head(frames)[1])
  BY <1>6 DEF WordAt, Word
<1>8. BlockOf(w) = Into(mem, A, w) /\ StartRef(w) = StartOf(mem, A, w)
  BY <1>1 DEF BlockOf, Into, StartRef, StartOf, ck_data_start
<1>9. PICK new : new = Into(mem, A, w) \ marked
  OBVIOUS
<1>10. /\ marked' = marked \cup new
       /\ starts' = starts \cup StartOf(mem, A, w)
       /\ frames' = PushNew(mem, new, Rest(frames))
       /\ UNCHANGED <<mem, lists, roots, pc, leaks, cursor>>
  <2>1. PICK p : p = Head(frames)[1]
    OBVIOUS
  <2>2. Word(p) = w
    BY <1>7, <2>1
  <2>3. BlockOf(Word(p)) \ marked = new /\ StartRef(Word(p)) = StartOf(mem, A, w)
    BY <1>8, <1>9, <2>2
  <2>4. marked' = marked \cup new /\ starts' = starts \cup StartOf(mem, A, w)
    BY <2>1, <2>3 DEF Mark
  <2>5. PICK N : N = BlockOf(Word(p)) \ marked
    OBVIOUS
  <2>6. frames' = PushNew(mem, new, Rest(frames))
    <3>1. frames' = [i \in 1 .. Cardinality(N) |->
                       LET h == CHOOSE h \in N : TRUE
                       IN  <<ck_data_start(h), h + mem.size[h]>>] \o Rest(frames)
      BY <2>1, <2>5 DEF Mark, Rest
    <3>2. frames' = PushNew(mem, N, Rest(frames))
      BY <3>1 DEF PushNew, NewRanges, ck_data_start
    <3>3. QED
      BY <2>3, <2>5, <3>2
  <2>7. UNCHANGED <<mem, lists, roots, pc, leaks, cursor>>
    BY DEF Mark
  <2>8. QED
    BY <2>4, <2>6, <2>7
<1>11. Marking(mem, roots, A, marked', starts', frames')
  <2>1. PICK g : g = PushNew(mem, new, Rest(frames))
    OBVIOUS
  <2>2. Marking(mem, roots, A, marked \cup new, starts \cup StartOf(mem, A, w), g)
    BY <1>4, <1>5, <1>6, <1>9, <2>1, MarkOk
  <2>3. QED
    BY <1>10, <2>1, <2>2
<1>12. Allocated' = A
  BY <1>1, <1>10 DEF Allocated, lists
<1>13. QED
  BY <1>5, <1>10, <1>11, <1>12 DEF IInv, lists

\* With mark done, what is marked is what is reachable.
LEMMA MarkEndsKeeps ==
  ASSUME IInv, MarkEnds \/ sweep_leak
  PROVE  IInv'
<1>1. PICK A, Q : A = Allocated /\ Q = Blocks(mem, free_list)
  OBVIOUS
<1>2. PICK F : \E n \in Nat : \E s : \E t :
           /\ HeapState(mem, F, A, Q, alloc_list, total, free_list)
           /\ Books(mem, alloc_list, total, A, n, s, t)
  BY <1>1, HeapBooks DEF IInv
<1>3. PICK n \in Nat : \E s : \E t :
           /\ HeapState(mem, F, A, Q, alloc_list, total, free_list)
           /\ Books(mem, alloc_list, total, A, n, s, t)
  BY <1>2
<1>4. PICK s : \E t :
           /\ HeapState(mem, F, A, Q, alloc_list, total, free_list)
           /\ Books(mem, alloc_list, total, A, n, s, t)
  BY <1>3
<1>5. PICK t : /\ HeapState(mem, F, A, Q, alloc_list, total, free_list)
               /\ Books(mem, alloc_list, total, A, n, s, t)
  BY <1>4
<1>6. PICK H : H = A \cup Q
  OBVIOUS
<1>7. KrHeap(mem, F, Under(H)) /\ Headed(mem, H) /\ A \subseteq H
  BY <1>5, <1>6 DEF HeapState
<1>8. frames = << >> /\ pc = "mark" /\ Marking(mem, roots, A, marked, starts, << >>)
  BY <1>1 DEF MarkEnds, sweep_leak, IInv
<1>9. Marked(mem, roots, A, marked) /\ Counted(mem, roots, marked, starts)
  BY <1>7, <1>8, MarkDone
<1>10. UNCHANGED <<mem, lists, roots, frames, marked, starts>>
  BY DEF MarkEnds, sweep_leak
<1>11. Allocated' = A
  BY <1>1, <1>10 DEF Allocated, lists
<1>12. CASE MarkEnds
  <2>1. Sweeping(mem, alloc_list, total, A, marked, alloc_list)
    <3>1. alloc_list = IF 1 = n + 1 THEN 0 ELSE s[1]
      BY <1>5 DEF Books, Chain
    <3>2. 1 \in 1 .. n + 1 /\ \A j \in 1 .. 1 - 1 : s[j] \in marked
      OBVIOUS
    <3>3. QED
      BY <1>5, <3>1, <3>2 DEF Sweeping
  <2>2. pc' = "sweep" /\ cursor' = alloc_list
    BY <1>12 DEF MarkEnds
  <2>3. QED
    BY <1>8, <1>9, <1>10, <1>11, <2>1, <2>2 DEF IInv, lists
<1>13. CASE sweep_leak
  <2>1. pc' = "reported" /\ leaks' = [definite |-> A \ marked, maybe |-> (A \cap marked) \ starts]
    BY <1>1, <1>13 DEF sweep_leak
  <2>2. QED
    BY <1>8, <1>9, <1>10, <1>11, <2>1 DEF IInv, lists
<1>14. QED
  BY <1>12, <1>13

\* The block the sweep is at is kept for its mark, or freed.
LEMMA SweepStepKeeps ==
  ASSUME IInv, Sweep
  PROVE  IInv'
<1>1. PICK A : A = Allocated
  OBVIOUS
<1>2. PICK n \in Nat : \E s : \E t : \E k \in 1 .. n + 1 :
        /\ Books(mem, alloc_list, total, A, n, s, t)
        /\ cursor = IF k = n + 1 THEN 0 ELSE s[k]
        /\ Quarantine \/ \A j \in 1 .. k - 1 : s[j] \in marked
  BY <1>1 DEF Sweep, IInv, Sweeping
<1>3. PICK s : \E t : \E k \in 1 .. n + 1 :
        /\ Books(mem, alloc_list, total, A, n, s, t)
        /\ cursor = IF k = n + 1 THEN 0 ELSE s[k]
        /\ Quarantine \/ \A j \in 1 .. k - 1 : s[j] \in marked
  BY <1>2
<1>4. PICK t : \E k \in 1 .. n + 1 :
        /\ Books(mem, alloc_list, total, A, n, s, t)
        /\ cursor = IF k = n + 1 THEN 0 ELSE s[k]
        /\ Quarantine \/ \A j \in 1 .. k - 1 : s[j] \in marked
  BY <1>3
<1>5. PICK k \in 1 .. n + 1 :
        /\ Books(mem, alloc_list, total, A, n, s, t)
        /\ cursor = IF k = n + 1 THEN 0 ELSE s[k]
        /\ Quarantine \/ \A j \in 1 .. k - 1 : s[j] \in marked
  BY <1>4
<1>6. /\ pc = "sweep" /\ cursor # 0 /\ frames = << >> /\ frames' = << >> /\ pc' = "sweep"
      /\ marked' = marked /\ roots' = roots /\ roots \in [Roots -> Addresses]
      /\ Marked(mem, roots, A, marked) /\ HeapOk(mem, alloc_list, total, free_list)
  BY <1>1 DEF Sweep, IInv
<1>7. k \in 1 .. n /\ cursor = s[k]
  BY <1>5, <1>6
<1>8. /\ Chain(mem, alloc_list, A, n, s) /\ Counts(mem, n, s, t) /\ total = t[n]
      /\ s \in [1 .. n -> A] /\ mem.ptr[s[k]] = IF k = n THEN 0 ELSE s[k+1]
  BY <1>5, <1>7 DEF Books, Chain
<1>9. CASE cursor \in marked
  <2>1. cursor' = mem.ptr[cursor] /\ UNCHANGED <<mem, lists>>
    BY <1>9 DEF Sweep
  <2>2. Allocated' = A
    BY <1>1, <2>1 DEF Allocated, lists
  <2>3. Sweeping(mem, alloc_list, total, A, marked, cursor')
    <3>1. PICK i : i = k + 1
      OBVIOUS
    <3>2. i \in 1 .. n + 1 /\ cursor' = IF i = n + 1 THEN 0 ELSE s[i]
      BY <1>7, <1>8, <2>1, <3>1
    <3>3. ASSUME ~ Quarantine, NEW j \in 1 .. i - 1 PROVE s[j] \in marked
      <4>1. j = k \/ j \in 1 .. k - 1
        BY <1>7, <3>1, <3>3
      <4>2. QED
        BY <1>5, <1>7, <1>9, <3>3, <4>1
    <3>4. QED
      BY <1>5, <3>2, <3>3 DEF Sweeping
  <2>4. QED
    BY <1>6, <2>1, <2>2, <2>3 DEF IInv, lists
<1>10. CASE cursor \notin marked
  <2>1. PICK h : h = cursor
    OBVIOUS
  <2>2. h = s[k] /\ h \notin marked /\ ckfree(h) /\ cursor' = Freed(h).ptr[h]
    BY <1>7, <1>10, <2>1 DEF Sweep
  <2>3. PICK F : HeapState(mem, F, A, Blocks(mem, free_list), alloc_list, total, free_list)
    BY <1>1, <1>6 DEF HeapOk, Allocated
  <2>4. /\ HeapOk(mem', alloc_list', total', free_list')
        /\ Blocks(mem', alloc_list') = A \ {h}
        /\ Chain(mem', alloc_list', A \ {h}, n - 1, Without(s, n, k))
        /\ \E u : Counts(mem', n - 1, Without(s, n, k), u) /\ total' = u[n-1]
        /\ SizesKept(mem, mem', A \ {h}) /\ DataTidied(mem, mem', A \ {h})
        /\ Freed(h).ptr[h] = IF Quarantine THEN 0 ELSE mem.ptr[h]
    <3>1. CkfreeLeaves(A, n, s, k, h)
      BY <1>7, <1>8, <2>2, <2>3, CkfreeOk
    <3>2. QED
      BY <3>1 DEF CkfreeLeaves
  <2>5. PICK B : B = A \ {h}
    OBVIOUS
  <2>6. Allocated' = B
    BY <2>4, <2>5 DEF Allocated
  <2>7. PICK r : r = mem'
    OBVIOUS
  <2>8. Marked(r, roots, B, marked)
    <3>1. ASSUME NEW a \in Live(mem, A) PROVE a \in Int /\ a >= 1
      <4>1. PICK b \in A : a \in Data(mem, b)
        BY DEF Live
      <4>2. PICK H : H = A \cup Blocks(mem, free_list)
        OBVIOUS
      <4>3. KrHeap(mem, F, Under(H)) /\ Headed(mem, H) /\ b \in H
        BY <2>3, <4>2 DEF HeapState
      <4>4. a \in Addresses /\ a >= 1
        BY <4>1, <4>3, LiveIs
      <4>5. QED
        BY <4>4 DEF Addresses
    <3>2. SizesKept(mem, r, A \ {h}) /\ DataTidied(mem, r, A \ {h})
      BY <2>4, <2>7
    <3>3. Marked(r, roots, A \ {h}, marked)
      BY <1>6, <2>2, <3>1, <3>2, SweepKeeps
    <3>4. QED
      BY <2>5, <3>3
  <2>9. Sweeping(mem', alloc_list', total', B, marked, cursor')
    <3>1. PICK i \in Nat : i = n - 1
      BY <1>7
    <3>2. PICK w : w = Without(s, n, k)
      OBVIOUS
    <3>3. PICK u : Books(mem', alloc_list', total', B, i, w, u)
      BY <2>4, <2>5, <3>1, <3>2 DEF Books
    <3>4. w = [x \in 1 .. i |-> IF x < k THEN s[x] ELSE s[x+1]]
      BY <3>1, <3>2 DEF Without
    <3>5. CASE Quarantine
      <4>1. cursor' = 0 /\ i + 1 \in 1 .. i + 1
        BY <2>2, <2>4, <3>5
      <4>2. QED
        BY <3>3, <3>5, <4>1 DEF Sweeping
    <3>6. CASE ~ Quarantine
      <4>1. cursor' = IF k = n THEN 0 ELSE s[k+1]
        BY <1>8, <2>2, <2>4, <3>6
      <4>2. k \in 1 .. i + 1 /\ cursor' = IF k = i + 1 THEN 0 ELSE w[k]
        <5>1. k \in 1 .. i + 1
          BY <1>7, <3>1
        <5>2. CASE k = n
          BY <3>1, <4>1, <5>1, <5>2
        <5>3. CASE k # n
          <6>1. k \in 1 .. i /\ ~ (k < k) /\ k # i + 1
            BY <1>7, <3>1, <5>3
          <6>2. w[k] = s[k+1]
            BY <3>4, <6>1
          <6>3. QED
            BY <4>1, <5>1, <5>3, <6>1, <6>2
        <5>4. QED
          BY <5>2, <5>3
      <4>3. ASSUME NEW j \in 1 .. k - 1 PROVE w[j] \in marked
        <5>1. j \in 1 .. i /\ j < k
          BY <1>7, <3>1
        <5>2. w[j] = s[j]
          BY <3>4, <5>1
        <5>3. QED
          BY <1>5, <3>6, <5>2
      <4>4. QED
        BY <3>3, <4>2, <4>3 DEF Sweeping
    <3>7. QED
      BY <3>5, <3>6
  <2>10. QED
    BY <1>6, <2>4, <2>6, <2>7, <2>8, <2>9 DEF IInv
<1>11. QED
  BY <1>9, <1>10

\* At the list's end every block was kept for its mark.
LEMMA SweepEndsKeeps ==
  ASSUME IInv, SweepEnds
  PROVE  IInv'
<1>1. /\ pc = "sweep" /\ cursor = 0 /\ pc' = "swept" /\ UNCHANGED <<mem, lists, roots, collector>>
      /\ frames = << >>
      /\ Marked(mem, roots, Allocated, marked) /\ HeapOk(mem, alloc_list, total, free_list)
      /\ Sweeping(mem, alloc_list, total, Allocated, marked, cursor)
  BY DEF SweepEnds, IInv
<1>2. PICK A : A = Allocated
  OBVIOUS
<1>3. Quarantine \/ A \subseteq marked
  <2>1. PICK n \in Nat : \E s : \E t : \E k \in 1 .. n + 1 :
        /\ Books(mem, alloc_list, total, A, n, s, t)
        /\ cursor = IF k = n + 1 THEN 0 ELSE s[k]
        /\ Quarantine \/ \A j \in 1 .. k - 1 : s[j] \in marked
    BY <1>1, <1>2 DEF Sweeping
  <2>2. PICK s : \E t : \E k \in 1 .. n + 1 :
        /\ Books(mem, alloc_list, total, A, n, s, t)
        /\ cursor = IF k = n + 1 THEN 0 ELSE s[k]
        /\ Quarantine \/ \A j \in 1 .. k - 1 : s[j] \in marked
    BY <2>1
  <2>3. PICK t : \E k \in 1 .. n + 1 :
        /\ Books(mem, alloc_list, total, A, n, s, t)
        /\ cursor = IF k = n + 1 THEN 0 ELSE s[k]
        /\ Quarantine \/ \A j \in 1 .. k - 1 : s[j] \in marked
    BY <2>2
  <2>4. PICK k \in 1 .. n + 1 :
        /\ Books(mem, alloc_list, total, A, n, s, t)
        /\ cursor = IF k = n + 1 THEN 0 ELSE s[k]
        /\ Quarantine \/ \A j \in 1 .. k - 1 : s[j] \in marked
    BY <2>3
  <2>5. s \in [1 .. n -> A] /\ \A b \in A : \E i \in 1 .. n : s[i] = b
    BY <2>4 DEF Books, Chain
  <2>6. k = n + 1
    <3>1. SUFFICES ASSUME k # n + 1 PROVE FALSE
      OBVIOUS
    <3>2. s[k] \in A /\ s[k] = 0
      <4>1. k \in 1 .. n
        BY <3>1
      <4>2. QED
        BY <1>1, <2>4, <2>5, <3>1, <4>1
    <3>3. PICK F : HeapState(mem, F, A, Blocks(mem, free_list), alloc_list, total, free_list)
      BY <1>1, <1>2 DEF HeapOk, Allocated
    <3>4. PICK H : H = A \cup Blocks(mem, free_list)
      OBVIOUS
    <3>5. KrHeap(mem, F, Under(H)) /\ Headed(mem, H) /\ s[k] \in H
      BY <3>2, <3>3, <3>4 DEF HeapState
    <3>6. s[k] \in 2 .. NUnits
      BY <3>5, HeadedIs
    <3>7. QED
      BY <3>2, <3>6
  <2>7. k - 1 = n
    BY <2>6
  <2>8. QED
    BY <2>4, <2>5, <2>7
<1>4. Allocated' = A
  BY <1>1, <1>2 DEF Allocated, lists
<1>5. QED
  BY <1>1, <1>2, <1>3, <1>4 DEF IInv, lists, collector

-----------------------------------------------------------------------------
(* The steps of the program; the invariant. *)

\* What a step of the program keeps: the collector is not running.
LEMMA RunKeeps ==
  ASSUME IInv, pc = "run", HeapOk(mem', alloc_list', total', free_list'),
         roots' \in [Roots -> Addresses], frames' = frames, pc' \in {"run", "out of memory"}
  PROVE  IInv'
<1>1. frames' = << >>
  BY DEF IInv
<1>2. QED
  BY <1>1 DEF IInv

\* The program allocates.
LEMMA AllocKeeps ==
  ASSUME IInv, NEW r \in Roots, NEW n \in Sizes, NEW w \in Leftovers, ckalloc(r, n, w)
  PROVE  IInv'
<1>1. /\ pc = "run" /\ frames' = frames
      /\ HeapOk(mem, alloc_list, total, free_list) /\ roots \in [Roots -> Addresses]
  BY DEF ckalloc, collector, IInv
<1>2. pc' \in {"run", "out of memory"}
  <2>1. CASE CanMalloc(mem, n + 2)
    BY <1>1, <2>1 DEF ckalloc
  <2>2. CASE ~ CanMalloc(mem, n + 2)
    BY <2>2 DEF ckalloc
  <2>3. QED
    BY <2>1, <2>2
<1>3. HeapOk(mem', alloc_list', total', free_list') /\ roots' \in [Roots -> Addresses]
  BY <1>1, CkallocOk
<1>4. QED
  BY <1>1, <1>2, <1>3, RunKeeps

\* The program frees.
LEMMA FreeKeeps ==
  ASSUME IInv, NEW r \in Roots, Free(r)
  PROVE  IInv'
<1>1. /\ pc = "run" /\ frames' = frames /\ pc' = pc
      /\ HeapOk(mem, alloc_list, total, free_list) /\ roots \in [Roots -> Addresses]
  BY DEF Free, collector, IInv
<1>2. HeapOk(mem', alloc_list', total', free_list') /\ roots' \in [Roots -> Addresses]
  BY <1>1, FreeOk
<1>3. QED
  BY <1>1, <1>2, RunKeeps

\* The program stores a pointer in a block.
LEMMA StoreKeeps ==
  ASSUME IInv, NEW r \in Roots, NEW s \in Roots, Store(r, s)
  PROVE  IInv'
<1>1. /\ pc = "run" /\ frames' = frames /\ pc' = pc /\ roots' = roots
      /\ HeapOk(mem, alloc_list, total, free_list) /\ roots \in [Roots -> Addresses]
  BY DEF Store, collector, IInv
<1>2. HeapOk(mem', alloc_list', total', free_list')
  BY <1>1, StoreOk
<1>3. QED
  BY <1>1, <1>2, RunKeeps

\* The program sets a root to a word that is an address.
LEMMA AssignKeeps ==
  ASSUME IInv, NEW r \in Roots, NEW w \in Addresses, Assign(r, w)
  PROVE  IInv'
<1>1. /\ pc = "run" /\ frames' = frames /\ pc' = pc /\ roots' = [roots EXCEPT ![r] = w]
      /\ mem' = mem /\ alloc_list' = alloc_list /\ free_list' = free_list /\ total' = total
      /\ HeapOk(mem, alloc_list, total, free_list) /\ roots \in [Roots -> Addresses]
  BY DEF Assign, collector, lists, IInv
<1>2. HeapOk(mem', alloc_list', total', free_list') /\ roots' \in [Roots -> Addresses]
  BY <1>1
<1>3. QED
  BY <1>1, <1>2, RunKeeps

\* A pointer moved into a root is a word of memory or of a root, or points one
\* unit further into a block.
LEMMA MoveKeeps ==
  ASSUME IInv, NEW r \in Roots,
         Step(r) \/ Drop(r) \/ \E s \in Roots : Load(r, s) \/ Copy(r, s)
  PROVE  IInv'
<1>1. HeapOk(mem, alloc_list, total, free_list) /\ roots \in [Roots -> Addresses]
  BY DEF IInv
<1>2. PICK A, Q : A = Allocated /\ Q = Blocks(mem, free_list)
  OBVIOUS
<1>3. PICK F : HeapState(mem, F, A, Q, alloc_list, total, free_list)
  BY <1>1, <1>2 DEF HeapOk, Allocated
<1>4. PICK H : H = A \cup Q
  OBVIOUS
<1>5. KrHeap(mem, F, Under(H)) /\ Headed(mem, H) /\ mem \in Heap
  BY <1>3, <1>4 DEF HeapState, KrHeap
<1>6. 0 \in Addresses
  BY KrAssumption DEF Addresses
<1>7. mem.ptr \in [Addresses -> Addresses]
  BY <1>5 DEF Heap
<1>8. CASE Step(r)
  <2>1. PICK a : a = roots[r] + 1
    OBVIOUS
  <2>2. PICK h \in A : a \in Data(mem, h)
    BY <1>2, <1>8, <2>1 DEF Step, BlockOf
  <2>3. h \in H
    BY <1>4
  <2>4. a \in Addresses
    BY <1>5, <2>2, <2>3, LiveIs
  <2>5. Assign(r, a)
    BY <1>8, <2>1 DEF Step
  <2>6. QED
    BY <2>4, <2>5, AssignKeeps
<1>9. CASE Drop(r)
  BY <1>6, <1>9, AssignKeeps DEF Drop
<1>10. ASSUME NEW s \in Roots, Load(r, s) PROVE IInv'
  <2>1. PICK a : a = mem.ptr[roots[s]]
    OBVIOUS
  <2>2. a \in Addresses
    BY <1>1, <1>7, <2>1
  <2>3. Assign(r, a)
    BY <1>10, <2>1 DEF Load
  <2>4. QED
    BY <2>2, <2>3, AssignKeeps
<1>11. ASSUME NEW s \in Roots, Copy(r, s) PROVE IInv'
  <2>1. PICK a : a = roots[s]
    OBVIOUS
  <2>2. a \in Addresses
    BY <1>1, <2>1
  <2>3. Assign(r, a)
    BY <1>11, <2>1 DEF Copy
  <2>4. QED
    BY <2>2, <2>3, AssignKeeps
<1>12. QED
  BY <1>8, <1>9, <1>10, <1>11

\* The collector starts: nothing marked, the roots to be looked at.
LEMMA MarkAllKeeps ==
  ASSUME IInv, mark_all
  PROVE  IInv'
<1>1. /\ pc' = "mark" /\ marked' = {} /\ starts' = {} /\ frames' = <<<<-NRoots, -1>>>>
      /\ UNCHANGED <<mem, lists, roots>>
  BY DEF mark_all
<1>2. PICK A : A = Allocated
  OBVIOUS
<1>3. Allocated' = A
  BY <1>1, <1>2 DEF Allocated, lists
<1>4. Marking(mem, roots, A, {}, {}, <<<<-NRoots, -1>>>>)
  BY MarkBegins
<1>5. Marking(mem', roots', Allocated', marked', starts', frames')
  BY <1>1, <1>3, <1>4
<1>6. QED
  BY <1>1, <1>5 DEF IInv, lists

\* The collector returns.
LEMMA ReturnKeeps ==
  ASSUME IInv, Return
  PROVE  IInv'
<1>1. pc' = "run" /\ pc # "mark" /\ UNCHANGED <<mem, lists, roots, frames>>
  BY DEF Return
<1>2. QED
  BY <1>1 DEF IInv, lists

\* Nothing changes.
LEMMA StutterKeeps ==
  ASSUME IInv, UNCHANGED vars
  PROVE  IInv'
<1>1. Allocated' = Allocated
  BY DEF vars, lists, Allocated
<1>2. QED
  BY <1>1 DEF IInv, vars, lists, collector

\* The invariant is inductive.
LEMMA StepKeeps ==
  ASSUME IInv, [Next]_vars
  PROVE  IInv'
<1>1. ASSUME NEW r \in Roots,
             \/ \E n \in Sizes, w \in Leftovers : ckalloc(r, n, w)
             \/ Free(r) \/ Step(r) \/ Drop(r)
             \/ \E s \in Roots : Store(r, s) \/ Load(r, s) \/ Copy(r, s)
      PROVE  IInv'
  BY <1>1, AllocKeeps, FreeKeeps, StoreKeeps, MoveKeeps
<1>2. CASE mark_all \/ Mark \/ MarkEnds \/ sweep_leak
  BY <1>2, MarkAllKeeps, MarkKeeps, MarkEndsKeeps
<1>3. CASE Sweep \/ SweepEnds \/ Return
  BY <1>3, SweepStepKeeps, SweepEndsKeeps, ReturnKeeps
<1>4. CASE UNCHANGED vars
  BY <1>4, StutterKeeps
<1>5. QED
  BY <1>1, <1>2, <1>3, <1>4 DEF Next

\* The inductive invariant holds: both allocators' books are in order between any
\* two steps, and what is marked is what mark has found out so far.
THEOREM InvHolds == Spec => []IInv
<1>1. Init => IInv
  BY Starts
<1>2. IInv /\ [Next]_vars => IInv'
  BY StepKeeps
<1>3. QED
  BY <1>1, <1>2, PTL DEF Spec

-----------------------------------------------------------------------------
(* From the invariant to the properties. *)

\* Names for the parts of the heap, as the lemmas want them.
LEMMA BooksNow ==
  ASSUME IInv
  PROVE  \E F : \E H : /\ KrHeap(mem, F, Under(H)) /\ Headed(mem, H)
                       /\ H = Allocated \cup Blocks(mem, free_list)
                       /\ HeapState(mem, F, Allocated, Blocks(mem, free_list), alloc_list, total, free_list)
<1>1. PICK F : HeapState(mem, F, Allocated, Blocks(mem, free_list), alloc_list, total, free_list)
  BY DEF IInv, HeapOk, Allocated
<1>2. PICK H : H = Allocated \cup Blocks(mem, free_list)
  OBVIOUS
<1>3. KrHeap(mem, F, Under(H)) /\ Headed(mem, H)
  BY <1>1, <1>2 DEF HeapState
<1>4. QED
  BY <1>1, <1>2, <1>3

\* The properties' names for free blocks and blocks in use.
LEMMA FreeAndUsed ==
  ASSUME NEW F, NEW H, KrHeap(mem, F, Under(H)), H = Allocated \cup Blocks(mem, free_list)
  PROVE  FreeBlocks = F \ {0} /\ UsedBlocks = Under(H)
<1>1. {Ring(mem)[k] : k \in 0 .. NUnits} = F
  BY RingIs DEF KrHeap
<1>2. FreeBlocks = F \ {0}
  BY <1>1 DEF FreeBlocks, base
<1>3. QED
  BY <1>2 DEF UsedBlocks, Under

\* Blocks apart that cover the heap: each unit is in just one.
LEMMA TilesNow ==
  ASSUME NEW F, NEW H, KrHeap(mem, F, Under(H)), H = Allocated \cup Blocks(mem, free_list)
  PROVE  Tiles
<1>1. PICK B : B = (F \ {0}) \cup Under(H)
  OBVIOUS
<1>2. FreeBlocks \cup UsedBlocks = B /\ FreeBlocks = F \ {0} /\ UsedBlocks = Under(H)
  BY <1>1, FreeAndUsed
<1>3. Apart(mem, B) /\ Covers(mem, B) /\ Under(H) \subseteq Addresses \ F /\ F \subseteq Addresses
  BY <1>1 DEF KrHeap, Tiled, Ringed
<1>4. mem.size \in [Addresses -> Nat]
  BY DEF KrHeap, Heap
<1>5. \A b \in B : b \in Nat /\ mem.size[b] \in Nat
  <2>1. \A b \in B : b \in Addresses
    BY <1>1, <1>3
  <2>2. \A b \in B : mem.size[b] \in Nat
    BY <1>4, <2>1
  <2>3. Addresses \subseteq Nat
    BY DEF Addresses
  <2>4. QED
    BY <2>1, <2>2, <2>3
<1>6. ASSUME NEW u \in 1 .. mem.brk - 1 PROVE Cardinality({b \in B : u \in Span(b)}) = 1
  <2>1. PICK b \in B : b <= u /\ u < b + mem.size[b]
    BY <1>3 DEF Covers
  <2>2. ASSUME NEW c \in B, u \in Span(c) PROVE c = b
    <3>1. c <= u /\ u < c + mem.size[c] /\ u \in Int
      BY <1>5, <2>2 DEF Span
    <3>2. CASE b < c
      <4>1. b + mem.size[b] <= c
        BY <1>3, <3>2 DEF Apart
      <4>2. QED
        BY <1>5, <2>1, <3>1, <4>1
    <3>3. CASE c < b
      <4>1. c + mem.size[c] <= b
        BY <1>3, <3>3 DEF Apart
      <4>2. QED
        BY <1>5, <2>1, <3>1, <4>1
    <3>4. QED
      BY <1>5, <3>2, <3>3
  <2>3. u \in Span(b)
    BY <1>5, <2>1 DEF Span
  <2>4. {c \in B : u \in Span(c)} = {b}
    BY <2>2, <2>3
  <2>5. QED
    BY <2>4, FS_Singleton
<1>7. FreeBlocks \cap UsedBlocks = {}
  BY <1>2, <1>3
<1>8. QED
  BY <1>2, <1>6, <1>7 DEF Tiles

\* The ring in the order of addresses.
LEMMA InOrderNow ==
  ASSUME NEW F, NEW H, KrHeap(mem, F, Under(H)), H = Allocated \cup Blocks(mem, free_list)
  PROVE  FreeListInOrder
<1>1. /\ F \subseteq Addresses /\ 0 \in F
      /\ \A p \in F : mem.ptr[p] \in F /\ Follows(mem, F, p)
  BY DEF KrHeap, Ringed
<1>2. mem.size \in [Addresses -> Nat]
  BY DEF KrHeap, Heap
<1>3. {Ring(mem)[k] : k \in 0 .. NUnits} = F
  BY RingIs DEF KrHeap
<1>4. FreeBlocks = F \ {0} /\ FreeBlocks \cup {base} = F
  BY <1>1, FreeAndUsed DEF base
<1>5. ASSUME NEW p \in F
      PROVE  /\ mem.ptr[p] = base \/ mem.ptr[p] > p + mem.size[p]
             /\ mem.ptr[p] = base => \A q \in FreeBlocks : q <= p
  <2>1. p \in Nat /\ mem.size[p] \in Nat
    <3>1. p \in Addresses
      BY <1>1
    <3>2. mem.size[p] \in Nat
      BY <1>2, <3>1
    <3>3. QED
      BY <3>1, <3>2 DEF Addresses
  <2>2. CASE mem.ptr[p] = 0 /\ \A q \in F : q <= p
    BY <1>4, <2>2 DEF base
  <2>3. CASE mem.ptr[p] > p + mem.size[p]
    BY <2>1, <2>3 DEF base
  <2>4. QED
    BY <1>1, <2>2, <2>3 DEF Follows
<1>6. QED
  BY <1>1, <1>3, <1>4, <1>5 DEF FreeListInOrder, base

\* The list of allocated blocks, its end and its count.
LEMMA CountsNow ==
  ASSUME NEW F, NEW H, KrHeap(mem, F, Under(H)), Headed(mem, H), Allocated \subseteq H,
         AreCounted(mem, alloc_list, Allocated, total)
  PROVE  AllocListCounts
<1>1. PICK n \in Nat : \E s : \E t : /\ Chain(mem, alloc_list, Allocated, n, s)
                                     /\ Counts(mem, n, s, t) /\ total = t[n]
  BY DEF AreCounted
<1>2. PICK s : \E t : /\ Chain(mem, alloc_list, Allocated, n, s)
                      /\ Counts(mem, n, s, t) /\ total = t[n]
  BY <1>1
<1>3. PICK t : /\ Chain(mem, alloc_list, Allocated, n, s)
               /\ Counts(mem, n, s, t) /\ total = t[n]
  BY <1>2
<1>4. PICK A : A = Allocated
  OBVIOUS
<1>5. A \subseteq H /\ Chain(mem, alloc_list, A, n, s) /\ Counts(mem, n, s, t)
  BY <1>3, <1>4
<1>6. Listed(mem, alloc_list)[MaxBlocks + 1] = 0
  BY <1>5, ListedIs
<1>7. Seen[MaxBlocks + 1] = total
  BY <1>3, <1>5, LastIs
<1>8. ASSUME NEW h \in A PROVE mem.size[h] + 2 <= mem.size[h-1]
  <2>1. h \in H
    BY <1>5
  <2>2. mem.size[h] \in Nat /\ mem.size[h-1] = mem.size[h] + 2
    BY <2>1, HeadedIs
  <2>3. QED
    BY <2>2
<1>9. QED
  BY <1>4, <1>6, <1>7, <1>8 DEF AllocListCounts

\* The three together.
LEMMA AccountedNow == IInv => HeapAccounted
<1> SUFFICES ASSUME IInv PROVE HeapAccounted
  OBVIOUS
<1>1. PICK F : \E H : /\ KrHeap(mem, F, Under(H)) /\ Headed(mem, H)
                      /\ H = Allocated \cup Blocks(mem, free_list)
                      /\ HeapState(mem, F, Allocated, Blocks(mem, free_list), alloc_list, total, free_list)
  BY BooksNow
<1>2. PICK H : /\ KrHeap(mem, F, Under(H)) /\ Headed(mem, H)
               /\ H = Allocated \cup Blocks(mem, free_list)
               /\ HeapState(mem, F, Allocated, Blocks(mem, free_list), alloc_list, total, free_list)
  BY <1>1
<1>3. Allocated \subseteq H /\ AreCounted(mem, alloc_list, Allocated, total)
  BY <1>2 DEF HeapState
<1>4. QED
  BY <1>2, <1>3, TilesNow, InOrderNow, CountsNow DEF HeapAccounted

\* What is marked is what is reachable: each is the smallest closed set.
LEMMA MarkedIsReachable ==
  ASSUME IInv, Marked(mem, roots, Allocated, marked)
  PROVE  marked = Reachable
<1>1. PICK F : HeapState(mem, F, Allocated, Blocks(mem, free_list), alloc_list, total, free_list)
  BY DEF IInv, HeapOk, Allocated
<1>2. PICK A, Q, M, Y : A = Allocated /\ Q = Blocks(mem, free_list) /\ M = marked /\ Y = Reachable
  OBVIOUS
<1>3. HeapState(mem, F, A, Q, alloc_list, total, free_list)
  BY <1>1, <1>2
<1>4. Closed(mem, roots, A, Y) /\ InAllClosed(mem, roots, A, Y)
  BY <1>2, <1>3, ReachableIs
<1>5. Closed(mem, roots, A, M) /\ InAllClosed(mem, roots, A, M)
  BY <1>2 DEF Marked
<1>6. Y \subseteq M /\ M \subseteq Y
  BY <1>4, <1>5 DEF InAllClosed
<1>7. QED
  BY <1>2, <1>6

\* After a sweep that reached the end of the list, only marked blocks are left.
LEMMA CompleteNow == ~ Quarantine /\ IInv => GcComplete
<1> SUFFICES ASSUME ~ Quarantine, IInv, pc = "swept" PROVE Allocated \subseteq Reachable
  BY DEF GcComplete
<1>1. Marked(mem, roots, Allocated, marked) /\ Allocated \subseteq marked
  BY DEF IInv
<1>2. QED
  BY <1>1, MarkedIsReachable

\* The words that mark looks at.
LEMMA WordsAre ==
  ASSUME NEW F, NEW H, KrHeap(mem, F, Under(H)), Headed(mem, H), NEW M, M \subseteq H
  PROVE  {roots[r] : r \in Roots} \cup {mem.ptr[a] : a \in UNION {Data(mem, h) : h \in M}}
           = {WordAt(mem, roots, a) : a \in Scan(mem, M)}
<1>1. NRoots \in Nat
  BY GcAssumption
<1>2. ASSUME NEW a \in Live(mem, M) PROVE WordAt(mem, roots, a) = mem.ptr[a]
  <2>1. PICK h \in M : a \in Data(mem, h)
    BY DEF Live
  <2>2. h \in H
    OBVIOUS
  <2>3. a \in Addresses /\ a >= 1
    BY <2>1, <2>2, LiveIs
  <2>4. ~ (a < 0)
    BY <2>3 DEF Addresses
  <2>5. QED
    BY <2>4 DEF WordAt
<1>3. ASSUME NEW a \in -NRoots .. -1 PROVE -a \in Roots /\ WordAt(mem, roots, a) = roots[-a]
  BY <1>1 DEF WordAt, Roots
<1>4. ASSUME NEW r \in Roots PROVE \E a \in -NRoots .. -1 : WordAt(mem, roots, a) = roots[r]
  <2>1. PICK a \in -NRoots .. -1 : a = -r
    BY <1>1 DEF Roots
  <2>2. -a = r
    BY <1>1, <2>1 DEF Roots
  <2>3. QED
    BY <1>3, <2>2
<1>5. Live(mem, M) = UNION {Data(mem, h) : h \in M}
  BY DEF Live
<1>6. PICK L : L = Live(mem, M)
  OBVIOUS
<1>7. {roots[r] : r \in Roots} \cup {mem.ptr[a] : a \in L} = {WordAt(mem, roots, a) : a \in (-NRoots .. -1) \cup L}
  <2>1. ASSUME NEW r \in Roots PROVE \E a \in (-NRoots .. -1) \cup L : roots[r] = WordAt(mem, roots, a)
    BY <1>4
  <2>2. \A a \in L : mem.ptr[a] = WordAt(mem, roots, a)
    BY <1>2, <1>6
  <2>3. ASSUME NEW a \in -NRoots .. -1 PROVE \E r \in Roots : WordAt(mem, roots, a) = roots[r]
    BY <1>3
  <2>4. PICK R, P, W : /\ R = {roots[r] : r \in Roots} /\ P = {mem.ptr[a] : a \in L}
                       /\ W = {WordAt(mem, roots, a) : a \in (-NRoots .. -1) \cup L}
    OBVIOUS
  <2>5. R \subseteq W
    BY <2>1, <2>4
  <2>6. P \subseteq W
    BY <2>2, <2>4
  <2>7. ASSUME NEW v \in W PROVE v \in R \cup P
    <3>1. PICK a \in (-NRoots .. -1) \cup L : v = WordAt(mem, roots, a)
      BY <2>4
    <3>2. CASE a \in -NRoots .. -1
      BY <2>3, <2>4, <3>1, <3>2
    <3>3. CASE a \in L
      BY <2>2, <2>4, <3>1, <3>3
    <3>4. QED
      BY <3>2, <3>3
  <2>8. QED
    BY <2>4, <2>5, <2>6, <2>7
<1>8. QED
  BY <1>5, <1>6, <1>7 DEF Scan

\* The leak report names what is not marked, and what is not counted.
LEMMA LeaksNow == IInv => LeaksExact
<1> SUFFICES ASSUME IInv, pc = "reported"
             PROVE  LET words == {roots[r] : r \in Roots}
                                   \cup {mem.ptr[a] : a \in UNION {Data(mem, h) : h \in Reachable}}
                    IN  /\ leaks.definite = Allocated \ Reachable
                        /\ leaks.maybe = {h \in Reachable : ck_data_start(h) \notin words}
  BY DEF LeaksExact
<1>1. /\ Marked(mem, roots, Allocated, marked) /\ Counted(mem, roots, marked, starts)
      /\ leaks = [definite |-> Allocated \ marked, maybe |-> (Allocated \cap marked) \ starts]
  BY DEF IInv
<1>2. marked = Reachable
  BY <1>1, MarkedIsReachable
<1>3. PICK F : \E H : /\ KrHeap(mem, F, Under(H)) /\ Headed(mem, H)
                      /\ H = Allocated \cup Blocks(mem, free_list)
                      /\ HeapState(mem, F, Allocated, Blocks(mem, free_list), alloc_list, total, free_list)
  BY BooksNow
<1>4. PICK H : /\ KrHeap(mem, F, Under(H)) /\ Headed(mem, H)
               /\ H = Allocated \cup Blocks(mem, free_list)
  BY <1>3
<1>5. marked \subseteq Allocated
  BY <1>1 DEF Marked, Closed
<1>6. PICK M, Y : M = marked /\ Y = Reachable
  OBVIOUS
<1>7. PICK words : words = {roots[r] : r \in Roots} \cup {mem.ptr[a] : a \in UNION {Data(mem, h) : h \in Y}}
  OBVIOUS
<1>8. words = {WordAt(mem, roots, a) : a \in Scan(mem, M)}
  <2>1. M = Y /\ M \subseteq H
    BY <1>2, <1>4, <1>5, <1>6
  <2>2. {roots[r] : r \in Roots} \cup {mem.ptr[a] : a \in UNION {Data(mem, h) : h \in M}}
          = {WordAt(mem, roots, a) : a \in Scan(mem, M)}
    BY <1>4, <2>1, WordsAre
  <2>3. QED
    BY <1>7, <2>1, <2>2
<1>9. starts = {h \in M : h + 1 \in words}
  BY <1>1, <1>6, <1>8 DEF Counted
<1>10. leaks.definite = Allocated \ Y
  BY <1>1, <1>2, <1>6
<1>11. leaks.maybe = {h \in Y : ck_data_start(h) \notin words}
  BY <1>1, <1>2, <1>5, <1>6, <1>9 DEF ck_data_start
<1>12. QED
  BY <1>6, <1>7, <1>10, <1>11

\* One turn of the sweep takes at most the block it is at.
LEMMA SweepFrees ==
  ASSUME IInv, Sweep
  PROVE  Allocated' = IF cursor \in marked THEN Allocated ELSE Allocated \ {cursor}
<1>1. PICK A : A = Allocated
  OBVIOUS
<1>2. CASE cursor \in marked
  BY <1>2 DEF Sweep, Allocated, lists
<1>3. CASE cursor \notin marked
  <2>1. PICK F : HeapState(mem, F, A, Blocks(mem, free_list), alloc_list, total, free_list)
    BY <1>1 DEF IInv, HeapOk, Allocated
  <2>2. PICK n \in Nat : \E s : \E t : \E k \in 1 .. n + 1 :
          Books(mem, alloc_list, total, A, n, s, t) /\ cursor = IF k = n + 1 THEN 0 ELSE s[k]
    BY <1>1 DEF Sweep, IInv, Sweeping
  <2>3. PICK s : \E t : \E k \in 1 .. n + 1 :
          Books(mem, alloc_list, total, A, n, s, t) /\ cursor = IF k = n + 1 THEN 0 ELSE s[k]
    BY <2>2
  <2>4. PICK t : \E k \in 1 .. n + 1 :
          Books(mem, alloc_list, total, A, n, s, t) /\ cursor = IF k = n + 1 THEN 0 ELSE s[k]
    BY <2>3
  <2>5. PICK k \in 1 .. n + 1 :
          Books(mem, alloc_list, total, A, n, s, t) /\ cursor = IF k = n + 1 THEN 0 ELSE s[k]
    BY <2>4
  <2>6. cursor # 0
    BY DEF Sweep
  <2>7. PICK h : h = cursor
    OBVIOUS
  <2>8. k \in 1 .. n /\ h = s[k] /\ ckfree(h)
    <3>1. k \in 1 .. n /\ h = s[k]
      BY <2>5, <2>6, <2>7
    <3>2. ckfree(h)
      BY <1>3, <2>7 DEF Sweep
    <3>3. QED
      BY <3>1, <3>2
  <2>9. Chain(mem, alloc_list, A, n, s) /\ Counts(mem, n, s, t) /\ total = t[n]
    BY <2>5 DEF Books
  <2>10. CkfreeLeaves(A, n, s, k, h)
    BY <2>1, <2>8, <2>9, CkfreeOk
  <2>11. Blocks(mem', alloc_list') = A \ {h}
    BY <2>10 DEF CkfreeLeaves
  <2>12. QED
    BY <1>1, <1>3, <2>7, <2>11 DEF Allocated
<1>4. QED
  BY <1>2, <1>3

\* A sweep takes blocks that are not marked only.
LEMMA SafeNow ==
  ASSUME IInv, Next, pc = "sweep"
  PROVE  Reachable \subseteq Allocated'
<1>1. Marked(mem, roots, Allocated, marked)
  BY DEF IInv
<1>2. marked = Reachable /\ marked \subseteq Allocated
  BY <1>1, MarkedIsReachable DEF Marked, Closed
<1>3. Sweep \/ SweepEnds
  BY DEF Next, ckalloc, Free, Step, Drop, Store, Load, Copy, Assign, mark_all, Mark, MarkEnds,
         sweep_leak, Return
<1>4. CASE Sweep
  BY <1>2, <1>4, SweepFrees
<1>5. CASE SweepEnds
  BY <1>2, <1>5 DEF SweepEnds, Allocated, lists
<1>6. QED
  BY <1>3, <1>4, <1>5

-----------------------------------------------------------------------------
(* The theorems. *)

\* Every unit that sbrk gave is in exactly one block, free or in use; the free
\* list is one ring in the order of addresses; the count of bytes by which ckalloc
\* finds the end of its list is right.
THEOREM HeapAccountedHolds == Spec => []HeapAccounted
BY InvHolds, AccountedNow, PTL

\* A sweep never frees a block that the program can still reach, whatever the
\* pointers between blocks and into their middle.
THEOREM GcSafeHolds == Spec => GcSafe
<1>1. IInv /\ [Next]_vars => [pc = "sweep" => Reachable \subseteq Allocated']_vars
  BY SafeNow
<1>2. QED
  BY <1>1, InvHolds, PTL DEF Spec, GcSafe

\* In lab 4, where a freed block's hdr_t keeps its next, ck_gc leaves no block
\* that the program cannot reach.  (In lab 5 it does: see HeapQuarantine.)
THEOREM GcCompleteHolds ==
  ASSUME ~ Quarantine
  PROVE  Spec => []GcComplete
<1>1. IInv => GcComplete
  BY CompleteNow
<1>2. QED
  BY <1>1, InvHolds, PTL

\* ck_find_leaks reports exactly the blocks that are lost, and as perhaps lost
\* exactly those that no reachable word has the start of.
THEOREM LeaksExactHolds == Spec => []LeaksExact
BY InvHolds, LeaksNow, PTL
=============================================================================
