----------------------------- MODULE Fat32Proofs -----------------------------
(***************************************************************************)
(* Proofs about Fat32: for callers that write each file once its safety    *)
(* properties, and that the card implements FileStore; for callers that do *)
(* not, but on which power never fails, that no cluster leaks.  The card   *)
(* has any size, its FAT any number of sectors.                            *)
(*                                                                         *)
(* Two facts carry the argument.  Links lead upwards, since                *)
(* find_free_cluster searches from the end of the chain on: so a chain     *)
(* ends, and one that is cut loses nothing until the FAT sector of its new *)
(* end is stored.  And an operation that adds clusters stores them, data   *)
(* and FAT, in clusters free on the card before the directory leads there. *)
(***************************************************************************)
EXTENDS Fat32, FiniteSetTheorems, SequenceTheorems, WellFoundedInduction, TLAPS

-----------------------------------------------------------------------------
(* Induction.  The induction theorems of the library take an operator; the *)
(* least element of a set of naturals does the same work.                  *)

\* A set of naturals that is not empty has a least element.
LEMMA Least ==
  ASSUME NEW T, T \subseteq Nat, T # {}
  PROVE  \E n \in T : \A m \in T : n <= m
<1>1. PICK R : R = OpToRel(<, Nat)
  OBVIOUS
<1>2. R = {p \in Nat \X Nat : p[1] < p[2]}
  BY <1>1 DEF OpToRel
<1>3. IsWellFoundedOn(R, Nat)
  BY <1>1, NatLessThanWellFounded
<1>4. PICK n \in T : \A m \in T : ~ (<<m, n>> \in R)
  BY <1>3, WFMin
<1>5. ASSUME NEW m \in T PROVE n <= m
  <2>1. n \in Nat /\ m \in Nat
    BY <1>5
  <2>2. m < n => <<m, n>> \in R
    BY <1>2, <2>1
  <2>3. QED
    BY <1>4, <1>5, <2>1, <2>2
<1>6. QED
  BY <1>4, <1>5

\* From 0 on, up to n.
LEMMA InductTo ==
  ASSUME NEW n \in Nat, NEW S, 0 \in S, \A k \in 0 .. n - 1 : k \in S => k + 1 \in S
  PROVE  0 .. n \subseteq S
<1> SUFFICES ASSUME {k \in 0 .. n : k \notin S} # {} PROVE FALSE
  OBVIOUS
<1>1. PICK k \in 0 .. n : k \notin S /\ \A m \in 0 .. n : m \notin S => k <= m
  <2>1. {k \in 0 .. n : k \notin S} \subseteq Nat
    OBVIOUS
  <2>2. QED
    BY <2>1, Least
<1>2. k # 0 /\ k - 1 \in 0 .. n - 1 /\ k - 1 \in S
  BY <1>1
<1>3. (k - 1) + 1 = k
  BY <1>1
<1>4. QED
  BY <1>1, <1>2, <1>3

-----------------------------------------------------------------------------
(* Chains. *)

\* The recursive definition of Nth has a solution, so Nth is one.
LEMMA NthIs ==
  ASSUME NEW f, NEW c
  PROVE  Nth(f, c) = [k \in 0 .. NEntries |->
           IF k = 0 THEN c
           ELSE IF Nth(f, c)[k-1] = LAST THEN LAST ELSE f[Nth(f, c)[k-1]]]
<1>1. PICK S : S = {n \in Nat : \E g : g = [k \in 0 .. n |->
                      IF k = 0 THEN c ELSE IF g[k-1] = LAST THEN LAST ELSE f[g[k-1]]]}
  OBVIOUS
<1>2. 0 \in S
  <2>1. PICK g : g = [k \in 0 .. 0 |-> c]
    OBVIOUS
  <2>2. g = [k \in 0 .. 0 |->
               IF k = 0 THEN c ELSE IF g[k-1] = LAST THEN LAST ELSE f[g[k-1]]]
    BY <2>1
  <2>3. QED
    BY <1>1, <2>2
<1>3. ASSUME NEW n \in Nat, n \in S PROVE n + 1 \in S
  <2>1. PICK g : g = [k \in 0 .. n |->
                  IF k = 0 THEN c ELSE IF g[k-1] = LAST THEN LAST ELSE f[g[k-1]]]
    BY <1>1, <1>3
  <2>2. PICK h : h = [k \in 0 .. n + 1 |->
                  IF k = n + 1 THEN (IF g[n] = LAST THEN LAST ELSE f[g[n]]) ELSE g[k]]
    OBVIOUS
  <2>3. \A k \in 0 .. n : h[k] = g[k]
    BY <2>2
  <2>4. ASSUME NEW k \in 0 .. n + 1
        PROVE  h[k] = IF k = 0 THEN c ELSE IF h[k-1] = LAST THEN LAST ELSE f[h[k-1]]
    <3>1. CASE k = n + 1
      BY <2>2, <2>3, <2>4, <3>1
    <3>2. CASE k \in 0 .. n
      <4>1. h[k] = g[k] /\ (k # 0 => h[k-1] = g[k-1])
        BY <2>3, <3>2
      <4>2. g[k] = IF k = 0 THEN c ELSE IF g[k-1] = LAST THEN LAST ELSE f[g[k-1]]
        BY <2>1, <3>2
      <4>3. QED
        BY <4>1, <4>2
    <3>3. QED
      BY <2>4, <3>1, <3>2
  <2>5. h = [k \in 0 .. n + 1 |-> h[k]]
    BY <2>2
  <2>6. h = [k \in 0 .. n + 1 |->
               IF k = 0 THEN c ELSE IF h[k-1] = LAST THEN LAST ELSE f[h[k-1]]]
    BY <2>4, <2>5
  <2>7. QED
    BY <1>1, <2>6
<1>4. NEntries \in S
  <2>1. 0 .. NEntries \subseteq S
    BY <1>2, <1>3, InductTo, FatAssumption
  <2>2. QED
    BY <2>1, FatAssumption
<1>5. \E g : g = [k \in 0 .. NEntries |->
                    IF k = 0 THEN c ELSE IF g[k-1] = LAST THEN LAST ELSE f[g[k-1]]]
  BY <1>1, <1>4
<1>6. QED
  BY <1>5 DEF Nth

\* The chain one cluster further.
LEMMA NthStep ==
  ASSUME NEW f, NEW c
  PROVE  /\ Nth(f, c)[0] = c
         /\ \A k \in 0 .. NEntries - 1 :
              Nth(f, c)[k+1] = IF Nth(f, c)[k] = LAST THEN LAST ELSE f[Nth(f, c)[k]]
<1>1. PICK g : g = Nth(f, c)
  OBVIOUS
<1>2. g = [k \in 0 .. NEntries |->
             IF k = 0 THEN c ELSE IF g[k-1] = LAST THEN LAST ELSE f[g[k-1]]]
  BY <1>1, NthIs
<1>3. g[0] = c
  BY <1>2, FatAssumption
<1>4. ASSUME NEW k \in 0 .. NEntries - 1
      PROVE  g[k+1] = IF g[k] = LAST THEN LAST ELSE f[g[k]]
  <2>1. k + 1 \in 0 .. NEntries /\ k + 1 # 0 /\ (k + 1) - 1 = k
    BY <1>4, FatAssumption
  <2>2. QED
    BY <1>2, <2>1
<1>5. QED
  BY <1>1, <1>3, <1>4

\* A set that contains the start and is closed under f contains the chain.
LEMMA ChainWithin ==
  ASSUME NEW f, NEW c, NEW S, c \in S \cup {LAST}, \A x \in S : f[x] \in S \cup {LAST}
  PROVE  /\ \A k \in 0 .. NEntries : Nth(f, c)[k] \in S \cup {LAST}
         /\ Chain(f, c) \subseteq S
<1>1. PICK g : g = Nth(f, c)
  OBVIOUS
<1>2. 0 .. NEntries \subseteq {k \in 0 .. NEntries : g[k] \in S \cup {LAST}}
  <2>1. g[0] \in S \cup {LAST}
    BY <1>1, NthStep
  <2>2. ASSUME NEW k \in 0 .. NEntries - 1, g[k] \in S \cup {LAST}
        PROVE  g[k+1] \in S \cup {LAST} /\ k + 1 \in 0 .. NEntries
    BY <1>1, <2>2, NthStep, FatAssumption
  <2>3. NEntries \in Nat /\ 0 \in 0 .. NEntries
    BY FatAssumption
  <2>4. QED
    BY <2>1, <2>2, <2>3, InductTo
<1>3. \A k \in 0 .. NEntries : g[k] \in S \cup {LAST}
  BY <1>2
<1>4. QED
  BY <1>1, <1>3 DEF Chain

\* Two tables that agree on the first m clusters of a chain have them in common.
LEMMA ChainAgrees ==
  ASSUME NEW f, NEW g, NEW c, NEW m \in 0 .. NEntries,
         \A k \in 0 .. m - 1 : Nth(f, c)[k] # LAST => g[Nth(f, c)[k]] = f[Nth(f, c)[k]]
  PROVE  \A k \in 0 .. m : Nth(g, c)[k] = Nth(f, c)[k]
<1>1. 0 .. m \subseteq {k \in 0 .. m : Nth(g, c)[k] = Nth(f, c)[k]}
  <2>1. Nth(g, c)[0] = Nth(f, c)[0]
    BY NthStep
  <2>2. ASSUME NEW k \in 0 .. m - 1, Nth(g, c)[k] = Nth(f, c)[k]
        PROVE  Nth(g, c)[k+1] = Nth(f, c)[k+1]
    <3>1. k \in 0 .. NEntries - 1
      BY FatAssumption
    <3>2. /\ Nth(f, c)[k+1] = IF Nth(f, c)[k] = LAST THEN LAST ELSE f[Nth(f, c)[k]]
          /\ Nth(g, c)[k+1] = IF Nth(g, c)[k] = LAST THEN LAST ELSE g[Nth(g, c)[k]]
      BY <3>1, NthStep
    <3>3. QED
      BY <2>2, <3>2
  <2>3. m \in Nat /\ 0 \in 0 .. m /\ \A k \in 0 .. m - 1 : k + 1 \in 0 .. m
    BY FatAssumption
  <2>4. QED
    BY <2>1, <2>2, <2>3, InductTo
<1>2. QED
  BY <1>1

-----------------------------------------------------------------------------
(* The invariant.  It speaks of callers that write files once: with others *)
(* the chains on the card may dangle, see WrittenOnce.                     *)

DataClusters == 3 .. NEntries - 1
Stored   == (Payloads \X Nat) \cup {None}
Contents == Seq(Stored) \cup {None}
Entry    == [name : Names \cup {None}, start : Nat, size : Nat]
Jobs     == [cur : Nat, left : Nat, pos : Nat, payload : Payloads \cup {None},
             sec : Nat, name : Names \cup {None}, result : Contents]

\* Links lead upwards: find_free_cluster searches from the chain's end on.
FatOK(f) ==
  /\ f \in [0 .. NEntries - 1 -> 0 .. NEntries]
  /\ \A x \in DataClusters : f[x] = FREE \/ x < f[x]

Sound(f, c) == c \in DataClusters /\ Chain(f, c) \subseteq DataClusters

\* g has the chain of f that starts at c; at least the clusters of f; and
\* where it has more, the sector sec or a later one of f will cut it.
Agree(f, g, c)      == \A x \in Chain(f, c) : g[x] = f[x]
Longer(f, g, c)     == \A x \in Chain(f, c) : g[x] = f[x] \/ f[x] = LAST
CutLater(f, g, c, sec) ==
  \A x \in Chain(f, c) : g[x] = f[x] \/ (f[x] = LAST /\ sec <= x \div PerSector)

\* The directory d makes sense with the FAT f.
Good(f, d) ==
  /\ d \in [Slots -> Entry]
  /\ \A s \in Slots : /\ d[s].name = None => d[s].start = 0
                      /\ d[s].start = 0 => d[s].size = 0
                      /\ d[s].start # 0 => Sound(f, d[s].start)
  /\ \A s, t \in Slots : s # t =>
       /\ d[s].name # None => d[s].name # d[t].name
       /\ d[s].start # 0 /\ d[t].start # 0 =>
            Chain(f, d[s].start) \cap Chain(f, d[t].start) = {}

\* The file has a cluster for each of its blocks.
Full(f, e) ==
  /\ e.size <= NEntries
  /\ \A k \in 0 .. e.size - 1 : Nth(f, e.start)[k] \in DataClusters

\* g is fit for the directory d if f is: it has no other clusters in its
\* files, or has the same files.
Fewer(f, g, d) == \A s \in Slots : d[s].start # 0 =>
                    Chain(g, d[s].start) \subseteq Chain(f, d[s].start)
Same(f, g, d)  == \A s \in Slots : d[s].start # 0 => Agree(f, g, d[s].start)

ContentOf(f, data, e) ==
  [k \in 1 .. e.size |-> IF Nth(f, e.start)[k-1] \in Clusters
                         THEN data[Nth(f, e.start)[k-1]] ELSE None]

\* What an operation has left to write before, and after, its directory entry.
Data  == <<"data", "fat", "dir", "fat">>
Early == <<"fat", "dir", "fat">>
Late  == <<"dir", "fat">>
Last  == <<"fat">>

TypeOK ==
  /\ FatOK(fat) /\ FatOK(dfat)
  /\ ddata \in [Clusters -> Stored]
  /\ acked \in [Names -> Contents]
  /\ job \in Jobs
  /\ todo \in {<< >>, Data, Early, Late, Last}

\* What a power failure would leave is fit for use.
CardOK == Good(dfat, ddir) /\ \A s \in Slots : Full(dfat, ddir[s])

\* So is the FAT in memory for the directory that will be written.
MemoryOK ==
  /\ Good(fat, dirents)
  /\ todo # Data => \A s \in Slots : Full(fat, dirents[s])

\* The sectors of the FAT below job.sec are written.
SectorsOK ==
  /\ todo \notin {Early, Last} => job.sec = 0
  /\ \A x \in 0 .. NEntries - 1 : x \div PerSector < job.sec => dfat[x] = fat[x]
  /\ todo = << >> => dfat = fat
  /\ todo \in {<< >>, Last} => ddir = dirents

\* From the directory on, the card's chains go at least as far as memory's,
\* and the end of one that is cut lies in a sector still to come.
LinkedOK ==
  todo \in {Late, Last} =>
    /\ Good(dfat, dirents)
    /\ \A s \in Slots : dirents[s].start # 0 =>
         CutLater(fat, dfat, dirents[s].start, job.sec)

\* Block pos of the file e goes to the last cluster of its chain, below which
\* none is free; the blocks before it are written.
Progress(f, data, e, jb) ==
  /\ jb.payload \in Payloads
  /\ jb.left > 0 /\ jb.pos + jb.left = e.size
  /\ jb.pos <= NEntries
  /\ Nth(f, e.start)[jb.pos] = jb.cur
  /\ f[jb.cur] = LAST
  /\ \A x \in DataClusters : x < jb.cur => f[x] # FREE
  /\ \A k \in 0 .. jb.pos : Nth(f, e.start)[k] \in DataClusters
  /\ \A k \in 0 .. jb.pos - 1 : data[Nth(f, e.start)[k]] = <<jb.payload, k + 1>>

\* The file in slot j is written, and has no cluster in the card's directory.
Fresh(j) ==
  /\ dirents[j].name = job.name /\ dirents[j].start # 0
  /\ ddir[j].name = job.name /\ ddir[j].start = 0
  /\ \A s \in Slots \ {j} : dirents[s] = ddir[s]
  /\ job.result = [k \in 1 .. dirents[j].size |-> <<job.payload, k>>]

\* Before the directory, only clusters free on the card are used.
FreshOK ==
  todo \in {Data, Early} =>
    /\ \A x \in 0 .. NEntries - 1 : dfat[x] = fat[x] \/ dfat[x] = FREE
    /\ \E j \in Slots :
         /\ Fresh(j)
         /\ todo = Data => Progress(fat, ddata, dirents[j], job) /\ dfat[job.cur] = FREE

\* The one entry an operation changes: the old d becomes e.
Blocks(len, p) == [k \in 1 .. len |-> <<p, k>>]
Change(d, e, nm, res) ==
  \/ e = d
  \/ d.name = None /\ e.name # None /\ e.size = 0
  \/ d.name # None /\ e.name = None
  \/ /\ d.name # None /\ e.name # None /\ e.name # d.name
     /\ e.start = d.start /\ e.size = d.size
  \/ d.name # None /\ e.name = d.name /\ e.start = d.start /\ e.size \in 1 .. d.size
  \/ /\ d.name # None /\ e.name = d.name /\ nm = e.name
     /\ d.size = 0 /\ e.size \in 1 .. MaxLen
     /\ \E p \in Payloads : res = Blocks(e.size, p)

ChangeOK ==
  todo \in {Data, Early, Late} =>
    \E j \in Slots : /\ \A s \in Slots \ {j} : dirents[s] = ddir[s]
                     /\ Change(ddir[j], dirents[j], job.name, job.result)

\* Once the data is written, the running operation has its result.
ResultOK ==
  todo \in {Early, Late, Last} /\ job.result # None =>
    \E s \in Slots : /\ dirents[s].name = job.name /\ job.name # None
                     /\ ContentOf(fat, ddata, dirents[s]) = job.result

\* The running operation keeps away from acknowledged files.
AckedOK ==
  \A n \in Names : acked[n] # None =>
    \E s \in Slots : /\ ddir[s].name = n /\ dirents[s] = ddir[s]
                     /\ ContentOf(dfat, ddata, ddir[s]) = acked[n]

IInv == /\ TypeOK /\ CardOK /\ MemoryOK /\ SectorsOK
        /\ LinkedOK /\ FreshOK /\ ChangeOK /\ ResultOK /\ AckedOK

Inv == uses \in Profiles /\ (WrittenOnce => IInv)

\* Callers that write files once rename onto no name in use and cut files only
\* shorter, not to nothing, and know that a name has a dot: all the signature
\* pad does.
AppendOnlyCallers ==
  /\ Dotless = {}
  /\ \A u \in Profiles : "overwrite" \notin u =>
       u \cap {"rename_onto", "truncate_zero", "truncate_grow"} = {}

-----------------------------------------------------------------------------
(* Sound chains. *)

\* Before it has ended, the walk is on the chain.
LEMMA InChain ==
  ASSUME NEW f, NEW c, NEW k \in 0 .. NEntries
  PROVE  Nth(f, c)[k] = LAST \/ Nth(f, c)[k] \in Chain(f, c)
BY DEF Chain

\* A sound chain climbs by at least one cluster at each link.
LEMMA Rising ==
  ASSUME NEW f, NEW c, FatOK(f), Sound(f, c)
  PROVE  \A k \in 0 .. NEntries :
           Nth(f, c)[k] = LAST \/ (Nth(f, c)[k] \in DataClusters /\ Nth(f, c)[k] >= k + 3)
<1>1. PICK g : g = Nth(f, c)
  OBVIOUS
<1>2. PICK S : S = {k \in 0 .. NEntries : g[k] = LAST \/ (g[k] \in DataClusters /\ g[k] >= k + 3)}
  OBVIOUS
<1>3. NEntries \in Nat /\ DataClusters \subseteq Nat
  BY FatAssumption DEF DataClusters
<1>4. 0 \in S
  <2>1. g[0] = c /\ c \in DataClusters
    BY <1>1, NthStep DEF Sound
  <2>2. QED
    BY <1>2, <1>3, <2>1 DEF DataClusters
<1>5. ASSUME NEW k \in 0 .. NEntries - 1, k \in S PROVE k + 1 \in S
  <2>1. k + 1 \in 0 .. NEntries /\ k \in Nat
    BY <1>3
  <2>2. CASE g[k] = LAST
    <3>1. g[k+1] = LAST
      BY <1>1, <1>5, <2>2, NthStep
    <3>2. QED
      BY <1>2, <2>1, <3>1
  <2>3. CASE g[k] # LAST
    <3>1. g[k] \in DataClusters /\ g[k] >= k + 3
      BY <1>2, <1>5, <2>3
    <3>2. g[k+1] = f[g[k]]
      BY <1>1, <1>5, <2>3, NthStep
    <3>3. g[k+1] = LAST \/ g[k+1] \in DataClusters
      BY <1>1, <2>1, InChain DEF Sound
    <3>4. g[k+1] \in DataClusters => g[k] < g[k+1]
      BY <3>1, <3>2 DEF FatOK, FREE, DataClusters
    <3>5. g[k+1] \in DataClusters => g[k+1] >= (k + 1) + 3
      <4>1. g[k] \in Nat /\ (g[k+1] \in DataClusters => g[k+1] \in Nat) /\ k \in Nat
        BY <1>3, <2>1, <3>1
      <4>2. QED
        BY <3>1, <3>4, <4>1
    <3>6. QED
      BY <1>2, <2>1, <3>3, <3>5
  <2>4. QED
    BY <2>2, <2>3
<1>6. 0 .. NEntries \subseteq S
  BY <1>3, <1>4, <1>5, InductTo
<1>7. QED
  BY <1>1, <1>2, <1>6

\* It ends, and its clusters are in use.
LEMMA SoundChain ==
  ASSUME NEW f, NEW c, FatOK(f), Sound(f, c)
  PROVE  /\ Ends(f, c) /\ c \in Chain(f, c)
         /\ \A x \in Chain(f, c) : /\ x \in DataClusters /\ f[x] # FREE /\ x < f[x]
                                   /\ f[x] \in Chain(f, c) \cup {LAST}
<1>1. NEntries \in Nat /\ NEntries > 3 /\ LAST = NEntries
  BY FatAssumption DEF LAST
<1>2. Nth(f, c)[NEntries] = LAST
  <2>1. NEntries \in 0 .. NEntries
    BY <1>1
  <2>2. \A x \in DataClusters : ~(x >= NEntries + 3)
    BY <1>1 DEF DataClusters
  <2>3. QED
    BY <2>1, <2>2, Rising
<1>3. c \in Chain(f, c)
  <2>1. Nth(f, c)[0] = c /\ 0 \in 0 .. NEntries /\ c # LAST
    BY <1>1, NthStep DEF Sound, DataClusters
  <2>2. QED
    BY <2>1 DEF Chain
<1>4. ASSUME NEW x \in Chain(f, c)
      PROVE  /\ x \in DataClusters /\ f[x] # FREE /\ x < f[x]
             /\ f[x] \in Chain(f, c) \cup {LAST}
  <2>1. x \in DataClusters
    BY <1>4 DEF Sound
  <2>2. PICK k \in 0 .. NEntries : Nth(f, c)[k] = x /\ x # LAST
    BY <1>4 DEF Chain
  <2>3. k \in 0 .. NEntries - 1 /\ k + 1 \in 0 .. NEntries
    BY <1>1, <1>2, <2>2
  <2>4. Nth(f, c)[k+1] = f[x]
    BY <2>2, <2>3, NthStep
  <2>5. f[x] \in Chain(f, c) \cup {LAST}
    BY <2>3, <2>4, InChain
  <2>6. f[x] # FREE
    BY <1>1, <2>5 DEF Sound, DataClusters, FREE
  <2>7. x < f[x]
    BY <2>1, <2>6 DEF FatOK
  <2>8. QED
    BY <2>1, <2>5, <2>6, <2>7
<1>5. QED
  BY <1>2, <1>3, <1>4 DEF Ends

\* No cluster comes twice.
LEMMA StrictlyUp ==
  ASSUME NEW f, NEW c, FatOK(f), Sound(f, c), NEW j \in 0 .. NEntries
  PROVE  \A k \in 0 .. NEntries :
           j < k /\ Nth(f, c)[k] # LAST => Nth(f, c)[j] # LAST /\ Nth(f, c)[j] < Nth(f, c)[k]
<1>1. PICK g : g = Nth(f, c)
  OBVIOUS
<1>2. PICK S : S = {k \in 0 .. NEntries : j < k /\ g[k] # LAST => g[j] # LAST /\ g[j] < g[k]}
  OBVIOUS
<1>3. NEntries \in Nat /\ DataClusters \subseteq Nat /\ j \in Nat
  BY FatAssumption DEF DataClusters
<1>4. 0 \in S
  BY <1>2, <1>3
<1>5. ASSUME NEW k \in 0 .. NEntries - 1, k \in S PROVE k + 1 \in S
  <2>1. k + 1 \in 0 .. NEntries /\ k \in 0 .. NEntries /\ k \in Nat
    BY <1>3
  <2> SUFFICES ASSUME j < k + 1, g[k+1] # LAST PROVE g[j] # LAST /\ g[j] < g[k+1]
    BY <1>2, <2>1
  <2>2. g[k] # LAST /\ g[k+1] = f[g[k]]
    BY <1>1, <1>5, NthStep
  <2>3. g[k] \in Chain(f, c) /\ g[k+1] \in Chain(f, c)
    BY <1>1, <2>1, <2>2, InChain
  <2>4. g[k] < g[k+1] /\ g[k] \in Nat /\ g[k+1] \in Nat
    BY <1>3, <2>2, <2>3, SoundChain
  <2>5. CASE j = k
    BY <2>2, <2>4, <2>5
  <2>6. CASE j < k
    <3>1. g[j] # LAST /\ g[j] < g[k]
      BY <1>2, <1>5, <2>2, <2>6
    <3>2. g[j] \in Nat
      BY <1>1, <1>3, <3>1, InChain, SoundChain
    <3>3. QED
      BY <2>4, <3>1, <3>2
  <2>7. QED
    BY <1>3, <2>1, <2>5, <2>6
<1>6. 0 .. NEntries \subseteq S
  BY <1>3, <1>4, <1>5, InductTo
<1>7. QED
  BY <1>1, <1>2, <1>6

\* Tables that agree on a chain have it in common.
LEMMA SameChain ==
  ASSUME NEW f, NEW g, NEW c, Agree(f, g, c)
  PROVE  Nth(g, c) = Nth(f, c) /\ Chain(g, c) = Chain(f, c)
<1>1. \A k \in 0 .. NEntries : Nth(g, c)[k] = Nth(f, c)[k]
  <2>1. \A k \in 0 .. NEntries - 1 : Nth(f, c)[k] # LAST => g[Nth(f, c)[k]] = f[Nth(f, c)[k]]
    BY InChain, FatAssumption DEF Agree
  <2>2. NEntries \in 0 .. NEntries
    BY FatAssumption
  <2>3. QED
    BY <2>1, <2>2, ChainAgrees
<1>2. PICK F : F = Nth(f, c)
  OBVIOUS
<1>3. PICK G : G = Nth(g, c)
  OBVIOUS
<1>4. F = [k \in 0 .. NEntries |-> IF k = 0 THEN c ELSE IF F[k-1] = LAST THEN LAST ELSE f[F[k-1]]]
  BY <1>2, NthIs
<1>5. G = [k \in 0 .. NEntries |-> IF k = 0 THEN c ELSE IF G[k-1] = LAST THEN LAST ELSE g[G[k-1]]]
  BY <1>3, NthIs
<1>6. F = [k \in 0 .. NEntries |-> F[k]] /\ G = [k \in 0 .. NEntries |-> G[k]]
  BY <1>4, <1>5
<1>7. F = G
  BY <1>1, <1>2, <1>3, <1>6
<1>8. QED
  BY <1>2, <1>3, <1>7 DEF Chain

\* A chain that is only cut differently begins with the same clusters.
LEMMA SameFirst ==
  ASSUME NEW f, NEW g, NEW c, NEW n \in Nat, n <= NEntries,
         \A k \in 0 .. n - 1 : Nth(f, c)[k] \in DataClusters,
         Longer(f, g, c)
  PROVE  \A k \in 0 .. n - 1 : Nth(g, c)[k] = Nth(f, c)[k]
<1>1. NEntries \in Nat /\ LAST \notin DataClusters
  BY FatAssumption DEF LAST, DataClusters
<1>2. CASE n = 0
  BY <1>2
<1>3. CASE n # 0
  <2>1. n - 1 \in 0 .. NEntries
    BY <1>1, <1>3
  <2>2. ASSUME NEW k \in 0 .. (n - 1) - 1
        PROVE  g[Nth(f, c)[k]] = f[Nth(f, c)[k]]
    <3>1. /\ k \in 0 .. n - 1 /\ k + 1 \in 0 .. n - 1 /\ k \in 0 .. NEntries - 1
          /\ k \in 0 .. NEntries
      BY <1>1, <1>3
    <3>2. Nth(f, c)[k] # LAST /\ Nth(f, c)[k+1] # LAST
      BY <1>1, <3>1
    <3>3. Nth(f, c)[k] \in Chain(f, c)
      BY <3>1, <3>2, InChain
    <3>4. Nth(f, c)[k+1] = f[Nth(f, c)[k]]
      BY <3>1, <3>2, NthStep
    <3>5. QED
      BY <3>2, <3>3, <3>4 DEF Longer
  <2>3. QED
    BY <2>1, <2>2, ChainAgrees
<1>4. QED
  BY <1>2, <1>3

-----------------------------------------------------------------------------
(* Numbers. *)

\* Min of a set of naturals is its least element.
LEMMA MinIn ==
  ASSUME NEW T, T \subseteq Nat, T # {}
  PROVE  Min(T) \in T /\ \A m \in T : Min(T) <= m
BY Least DEF Min

\* Sectors ascend with the clusters.
LEMMA SectorsAscend ==
  ASSUME NEW x \in Nat, NEW y \in Nat, x <= y
  PROVE  x \div PerSector \in Nat /\ x \div PerSector <= y \div PerSector
<1>1. PerSector \in Nat /\ PerSector > 0
  BY FatAssumption
<1>2. QED
  BY <1>1

\* A chain with n clusters has n of them.
LEMMA LongEnough ==
  ASSUME NEW f, NEW c, FatOK(f), Sound(f, c), NEW n \in Nat, n <= NEntries,
         \A k \in 0 .. n - 1 : Nth(f, c)[k] \in DataClusters
  PROVE  n <= Cardinality(Chain(f, c))
<1>1. NEntries \in Nat /\ LAST \notin DataClusters
  BY FatAssumption DEF LAST, DataClusters
<1>2. IsFiniteSet(Chain(f, c))
  <2>1. IsFiniteSet(3 .. NEntries - 1)
    BY <1>1, FS_Interval
  <2>2. QED
    BY <2>1, FS_Subset DEF Sound, DataClusters
<1>3. PICK h : h = [k \in 1 .. n |-> Nth(f, c)[k-1]]
  OBVIOUS
<1>4. ASSUME NEW k \in 1 .. n
      PROVE  h[k] = Nth(f, c)[k-1] /\ h[k] \in Chain(f, c) /\ k - 1 \in 0 .. NEntries
             /\ Nth(f, c)[k-1] # LAST
  <2>1. k - 1 \in 0 .. n - 1 /\ k - 1 \in 0 .. NEntries
    BY <1>1
  <2>2. Nth(f, c)[k-1] # LAST
    BY <1>1, <2>1
  <2>3. QED
    BY <1>3, <2>1, <2>2, InChain
<1>5. ASSUME NEW j \in 1 .. n, NEW k \in 1 .. n, j < k PROVE h[j] # h[k]
  <2>1. j - 1 < k - 1
    BY <1>5
  <2>2. h[j] < h[k]
    BY <1>4, <1>5, <2>1, StrictlyUp
  <2>3. h[j] \in Nat /\ h[k] \in Nat
    BY <1>4, SoundChain, FatAssumption DEF DataClusters
  <2>4. QED
    BY <2>2, <2>3
<1>6. h \in Injection(1 .. n, Chain(f, c))
  <2>1. h \in [1 .. n -> Chain(f, c)]
    BY <1>3, <1>4
  <2>2. \A j, k \in 1 .. n : h[j] = h[k] => j = k
    <3>1. \A j, k \in 1 .. n : j < k \/ j = k \/ k < j
      OBVIOUS
    <3>2. QED
      BY <1>5, <3>1
  <2>3. QED
    BY <2>1, <2>2 DEF Injection, IsInjective
<1>7. IsFiniteSet(1 .. n) /\ Cardinality(1 .. n) = n
  BY FS_Interval
<1>8. QED
  BY <1>2, <1>6, <1>7, FS_Injection

-----------------------------------------------------------------------------
(* Directories. *)

\* What Good says of one file.
LEMMA GoodFile ==
  ASSUME NEW f, NEW d, FatOK(f), Good(f, d), NEW s \in Slots, d[s].start # 0
  PROVE  /\ Sound(f, d[s].start) /\ d[s].name # None
         /\ \A t \in Slots : t # s /\ d[t].start # 0 =>
              Chain(f, d[s].start) \cap Chain(f, d[t].start) = {}
         /\ \A x \in Chain(f, d[s].start) :
              /\ x \in DataClusters /\ x \in 0 .. NEntries - 1
              /\ f[x] # FREE /\ f[x] \in Chain(f, d[s].start) \cup {LAST}
<1>1. Sound(f, d[s].start) /\ d[s].name # None
  BY DEF Good
<1>2. \A t \in Slots : t # s /\ d[t].start # 0 =>
        Chain(f, d[s].start) \cap Chain(f, d[t].start) = {}
  BY DEF Good
<1>3. DataClusters \subseteq 0 .. NEntries - 1
  BY FatAssumption DEF DataClusters
<1>4. QED
  BY <1>1, <1>2, <1>3, SoundChain

\* A FAT whose chains are parts of those of a good one is good.
LEMMA GoodShrinks ==
  ASSUME NEW f, NEW g, NEW d, Good(f, d), Fewer(f, g, d)
  PROVE  Good(g, d)
<1>1. \A s \in Slots : d[s].start # 0 => Sound(g, d[s].start)
  BY DEF Good, Sound, Fewer
<1>2. \A s, t \in Slots : s # t /\ d[s].start # 0 /\ d[t].start # 0 =>
        Chain(g, d[s].start) \cap Chain(g, d[t].start) = {}
  BY DEF Good, Fewer
<1>3. QED
  BY <1>1, <1>2 DEF Good

\* So is one that agrees with it on the chains, and the files are the same.
LEMMA GoodSame ==
  ASSUME NEW f, NEW g, NEW d, Good(f, d), Same(f, g, d)
  PROVE  /\ Good(g, d)
         /\ \A s \in Slots : d[s].start # 0 => /\ Nth(g, d[s].start) = Nth(f, d[s].start)
                                               /\ Chain(g, d[s].start) = Chain(f, d[s].start)
<1>1. \A s \in Slots : d[s].start # 0 => /\ Nth(g, d[s].start) = Nth(f, d[s].start)
                                         /\ Chain(g, d[s].start) = Chain(f, d[s].start)
  BY SameChain DEF Same
<1>2. Fewer(f, g, d)
  BY <1>1 DEF Fewer
<1>3. QED
  BY <1>1, <1>2, GoodShrinks

\* A file without clusters looks the same with every FAT.
LEMMA EmptyFile ==
  ASSUME NEW f, NEW g, NEW data, NEW e, e.size = 0
  PROVE  Full(f, e) /\ ContentOf(f, data, e) = ContentOf(g, data, e)
         /\ ContentOf(f, data, e) = << >>
<1>1. Full(f, e)
  BY FatAssumption DEF Full
<1>2. \A h : ContentOf(h, data, e) = << >>
  <2>1. 1 .. 0 = {}
    OBVIOUS
  <2>2. QED
    BY <2>1 DEF ContentOf
<1>3. QED
  BY <1>1, <1>2

\* Two FATs with the same first clusters of a file have the same content.
LEMMA SameContent ==
  ASSUME NEW f, NEW g, NEW data, NEW e \in Entry, Full(f, e),
         \A k \in 0 .. e.size - 1 : Nth(g, e.start)[k] = Nth(f, e.start)[k]
  PROVE  Full(g, e) /\ ContentOf(g, data, e) = ContentOf(f, data, e)
<1>1. e.size \in Nat
  BY DEF Entry
<1>2. \A k \in 1 .. e.size : k - 1 \in 0 .. e.size - 1
  BY <1>1
<1>3. \A k \in 1 .. e.size : Nth(g, e.start)[k-1] = Nth(f, e.start)[k-1]
  BY <1>2
<1>4. ContentOf(g, data, e) = ContentOf(f, data, e)
  BY <1>3 DEF ContentOf
<1>5. Full(g, e)
  BY DEF Full
<1>6. QED
  BY <1>4, <1>5

\* A write to a cluster outside the file does not change it.
LEMMA OtherData ==
  ASSUME NEW f, NEW data, NEW new, NEW e \in Entry, NEW x, Full(f, e), x \notin Chain(f, e.start),
         \A y \in Clusters : y # x => new[y] = data[y]
  PROVE  ContentOf(f, new, e) = ContentOf(f, data, e)
<1>1. e.size \in Nat /\ LAST \notin DataClusters /\ NEntries \in Nat
  BY FatAssumption DEF Entry, LAST, DataClusters
<1>2. ASSUME NEW k \in 1 .. e.size PROVE Nth(f, e.start)[k-1] # x
  <2>1. k - 1 \in 0 .. e.size - 1 /\ k - 1 \in 0 .. NEntries
    BY <1>1 DEF Full
  <2>2. Nth(f, e.start)[k-1] # LAST
    BY <1>1, <2>1 DEF Full
  <2>3. QED
    BY <2>1, <2>2, InChain
<1>3. QED
  BY <1>2 DEF ContentOf

\* A content is a sequence of blocks.
LEMMA ContentIn ==
  ASSUME NEW f, NEW data, NEW e \in Entry, data \in [Clusters -> Stored]
  PROVE  ContentOf(f, data, e) \in Seq(Stored) /\ Len(ContentOf(f, data, e)) = e.size
<1>1. e.size \in Nat /\ None \in Stored
  BY DEF Entry, Stored
<1>2. ContentOf(f, data, e) \in [1 .. e.size -> Stored]
  BY <1>1 DEF ContentOf
<1>3. QED
  BY <1>1, <1>2

-----------------------------------------------------------------------------
(* Writing the FAT, sector by sector. *)

WithSector(f, g, h, sec) ==
  \A x \in 0 .. NEntries - 1 : h[x] = IF x \div PerSector = sec THEN f[x] ELSE g[x]

\* f is the FAT in memory, g the card's, h the card's with one sector more.
\* A chain that is being cut stays whole until the sector of its new end is
\* written, and is cut then: freed clusters lie in the same or later sectors.
LEMMA SectorWritten ==
  ASSUME NEW f, NEW g, NEW h, NEW c, NEW sec \in Nat,
         FatOK(f), FatOK(g), Sound(f, c), Sound(g, c),
         CutLater(f, g, c, sec), WithSector(f, g, h, sec)
  PROVE  Chain(h, c) \subseteq Chain(g, c) /\ CutLater(f, h, c, sec + 1)
<1>1. DataClusters \subseteq 0 .. NEntries - 1 /\ DataClusters \subseteq Nat
  BY FatAssumption DEF DataClusters
<1>2. \A x \in DataClusters : x \div PerSector \in Nat /\ x \in Nat /\ x \in 0 .. NEntries - 1
  BY <1>1, SectorsAscend
<1>3. \A x \in Chain(f, c) : h[x] = f[x] \/ (f[x] = LAST /\ sec + 1 <= x \div PerSector /\ h[x] = g[x])
  <2>1. ASSUME NEW x \in Chain(f, c), h[x] # f[x]
        PROVE  f[x] = LAST /\ sec + 1 <= x \div PerSector /\ h[x] = g[x]
    <3>1. x \in DataClusters /\ x \in 0 .. NEntries - 1 /\ x \div PerSector \in Nat
      BY <1>2, SoundChain
    <3>2. x \div PerSector # sec /\ h[x] = g[x]
      BY <2>1, <3>1 DEF WithSector
    <3>3. f[x] = LAST /\ sec <= x \div PerSector
      BY <2>1, <3>2 DEF CutLater
    <3>4. QED
      BY <3>1, <3>2, <3>3
  <2>2. QED
    BY <2>1
<1>4. c \in Chain(f, c) /\ c \in Chain(g, c)
  BY SoundChain
<1>5. CASE \A x \in Chain(f, c) : h[x] = f[x]
  <2>1. Chain(h, c) = Chain(f, c)
    BY <1>5, SameChain DEF Agree
  <2>2. ASSUME NEW x \in Chain(f, c) \cap Chain(g, c)
        PROVE  f[x] \in (Chain(f, c) \cap Chain(g, c)) \cup {LAST}
    BY <2>2, SoundChain DEF CutLater
  <2>3. Chain(f, c) \subseteq Chain(f, c) \cap Chain(g, c)
    BY <1>4, <2>2, ChainWithin
  <2>4. QED
    BY <1>3, <2>1, <2>3 DEF CutLater
<1>6. CASE \E x \in Chain(f, c) : h[x] # f[x]
  <2>1. PICK z \in Chain(f, c) : h[z] # f[z] /\ \A x \in Chain(f, c) : h[x] # f[x] => z <= x
    <3>1. {x \in Chain(f, c) : h[x] # f[x]} \subseteq Nat
      BY <1>2, SoundChain
    <3>2. {x \in Chain(f, c) : h[x] # f[x]} # {}
      BY <1>6
    <3>3. QED
      BY <3>1, <3>2, Least
  <2>2. z \in DataClusters /\ z \in Nat /\ sec + 1 <= z \div PerSector
    BY <1>2, <1>3, <2>1, SoundChain
  <2>3. PICK S : S = {y \in Chain(g, c) : y \in Chain(f, c) \/ z <= y}
    OBVIOUS
  <2>4. ASSUME NEW y \in S PROVE h[y] \in S \cup {LAST}
    <3>1. /\ y \in Chain(g, c) /\ y \in DataClusters /\ y \in 0 .. NEntries - 1 /\ y \in Nat
          /\ y < g[y] /\ g[y] \in Chain(g, c) \cup {LAST}
      BY <1>2, <2>3, SoundChain
    <3>2. g[y] # LAST => g[y] \in Nat
      BY <1>2, <3>1, SoundChain
    <3>3. CASE z <= y
      <4>1. z \div PerSector <= y \div PerSector /\ y \div PerSector \in Nat /\ z \div PerSector \in Nat
        BY <1>2, <2>2, <3>1, <3>3, SectorsAscend
      <4>2. h[y] = g[y]
        BY <2>2, <3>1, <4>1 DEF WithSector
      <4>3. g[y] # LAST => z <= g[y]
        BY <2>2, <3>1, <3>2, <3>3
      <4>4. QED
        BY <2>3, <3>1, <4>2, <4>3
    <3>4. CASE ~(z <= y)
      <4>1. y \in Chain(f, c) /\ h[y] = f[y]
        BY <2>1, <2>3, <3>4
      <4>2. f[y] \in Chain(f, c) \cup {LAST}
        BY <4>1, SoundChain
      <4>3. CASE f[y] = LAST
        BY <4>1, <4>3
      <4>4. CASE f[y] # LAST
        <5>1. g[y] = f[y]
          BY <4>1, <4>4 DEF CutLater
        <5>2. QED
          BY <2>3, <3>1, <4>1, <4>2, <5>1
      <4>5. QED
        BY <4>3, <4>4
    <3>5. QED
      BY <3>3, <3>4
  <2>5. c \in S
    BY <1>4, <2>3
  <2>6. Chain(h, c) \subseteq S
    BY <2>4, <2>5, ChainWithin
  <2>7. QED
    BY <1>3, <2>3, <2>6 DEF CutLater
<1>7. QED
  BY <1>5, <1>6

\* From the directory on, the card holds the files of the FAT in memory.
LEMMA LinkedFile ==
  ASSUME NEW f, NEW g, NEW data, NEW e \in Entry, Full(f, e), e.start = 0 => e.size = 0,
         e.start # 0 => Longer(f, g, e.start)
  PROVE  Full(g, e) /\ ContentOf(g, data, e) = ContentOf(f, data, e)
<1>1. e.size \in Nat
  BY DEF Entry
<1>2. CASE e.start = 0
  BY <1>2, EmptyFile
<1>3. CASE e.start # 0
  <2>1. e.size <= NEntries /\ \A k \in 0 .. e.size - 1 : Nth(f, e.start)[k] \in DataClusters
    BY DEF Full
  <2>2. \A k \in 0 .. e.size - 1 : Nth(g, e.start)[k] = Nth(f, e.start)[k]
    BY <1>1, <1>3, <2>1, SameFirst
  <2>3. QED
    BY <2>2, SameContent
<1>4. QED
  BY <1>2, <1>3

-----------------------------------------------------------------------------
(* The beginning, and what the invariant gives. *)

\* A new file system satisfies the invariant.
LEMMA InitInv == Init => Inv
<1> SUFFICES ASSUME Init PROVE IInv
  BY DEF Inv, Init
<1>1. /\ NEntries \in Nat /\ NEntries > 3 /\ NSlots \in Nat /\ LAST = NEntries /\ FREE = 0
      /\ Root = 2
  BY FatAssumption DEF LAST, FREE, Root
<1>2. /\ dfat = [c \in 0 .. NEntries - 1 |-> IF c <= Root THEN LAST ELSE FREE]
      /\ fat = dfat /\ ddir = [s \in Slots |-> NoEntry] /\ dirents = ddir
      /\ todo = << >> /\ job = NoJob
      /\ ddata = [c \in Clusters |-> None] /\ acked = [n \in Names |-> None]
  BY DEF Init
<1>3. FatOK(dfat)
  <2>1. \A c \in 0 .. NEntries - 1 : (IF c <= Root THEN LAST ELSE FREE) \in 0 .. NEntries
    BY <1>1
  <2>2. dfat \in [0 .. NEntries - 1 -> 0 .. NEntries]
    BY <1>2, <2>1
  <2>3. \A x \in DataClusters : dfat[x] = FREE
    BY <1>1, <1>2 DEF DataClusters
  <2>4. QED
    BY <2>2, <2>3 DEF FatOK
<1>4. job \in Jobs /\ job.sec = 0
  <2>1. None \in Contents
    BY DEF Contents
  <2>2. QED
    BY <1>2, <2>1 DEF NoJob, Jobs
<1>5. TypeOK
  <2>1. None \in Stored /\ None \in Contents
    BY DEF Stored, Contents
  <2>2. ddata \in [Clusters -> Stored] /\ acked \in [Names -> Contents]
    BY <1>2, <2>1
  <2>3. QED
    BY <1>2, <1>3, <1>4, <2>2 DEF TypeOK
<1>6. \A s \in Slots : /\ ddir[s] = NoEntry /\ ddir[s].start = 0 /\ ddir[s].size = 0
                       /\ ddir[s].name = None
  BY <1>2 DEF NoEntry
<1>7. ddir \in [Slots -> Entry]
  <2>1. NoEntry \in Entry
    BY DEF NoEntry, Entry
  <2>2. QED
    BY <1>2, <2>1
<1>8. Good(dfat, ddir)
  BY <1>6, <1>7 DEF Good
<1>9. \A s \in Slots : Full(dfat, ddir[s])
  BY <1>6, EmptyFile
<1>10. SectorsOK
  <2>1. \A x \in 0 .. NEntries - 1 : ~(x \div PerSector < 0)
    BY SectorsAscend
  <2>2. QED
    BY <1>2, <1>4, <2>1 DEF SectorsOK, Early, Last
<1>11. QED
  BY <1>2, <1>5, <1>8, <1>9, <1>10
     DEF IInv, CardOK, MemoryOK, LinkedOK, FreshOK, ChangeOK, ResultOK, AckedOK, Data, Early, Late, Last

\* No file on the card dangles.
LEMMA InvNoDangling == Inv => NoDangling
<1> SUFFICES ASSUME IInv, NEW s \in Files
             PROVE  IF s \in Linked
                    THEN /\ Ends(dfat, ddir[s].start)
                         /\ CardChain(s) \subseteq Clusters \ {Root}
                         /\ ddir[s].size <= Cardinality(CardChain(s))
                    ELSE ddir[s].size = 0
  BY DEF Inv, NoDangling
<1>1. FatOK(dfat) /\ Good(dfat, ddir) /\ s \in Slots /\ Full(dfat, ddir[s])
  BY DEF IInv, TypeOK, CardOK, Files
<1>2. CASE s \in Linked
  <2>1. ddir[s].start # 0
    BY <1>2 DEF Linked
  <2>2. Sound(dfat, ddir[s].start)
    BY <1>1, <2>1, GoodFile
  <2>3. Ends(dfat, ddir[s].start)
    BY <1>1, <2>2, SoundChain
  <2>4. DataClusters \subseteq Clusters \ {Root}
    BY FatAssumption DEF DataClusters, Clusters, Root
  <2>5. CardChain(s) \subseteq Clusters \ {Root}
    BY <2>2, <2>4 DEF Sound, CardChain
  <2>6. ddir[s].size \in Nat
    BY <1>1 DEF Good, Entry
  <2>7. ddir[s].size <= Cardinality(CardChain(s))
    BY <1>1, <2>2, <2>6, LongEnough DEF Full, CardChain
  <2>8. QED
    BY <1>2, <2>3, <2>5, <2>7
<1>3. CASE s \notin Linked
  <2>1. ddir[s].start = 0
    BY <1>3 DEF Linked
  <2>2. QED
    BY <1>1, <1>3, <2>1 DEF Good
<1>4. QED
  BY <1>2, <1>3

\* Two files on the card share neither clusters nor a name.
LEMMA InvNoCrossLinks == Inv => NoCrossLinks
<1> SUFFICES ASSUME IInv
             PROVE  /\ \A s, t \in Linked : s # t => CardChain(s) \cap CardChain(t) = {}
                    /\ \A s, t \in Files : s # t => ddir[s].name # ddir[t].name
  BY DEF Inv, NoCrossLinks
<1>1. Good(dfat, ddir)
  BY DEF IInv, CardOK
<1>2. QED
  BY <1>1 DEF Good, Files, Linked, CardChain

\* The content of the file in a slot is that of its entry.
LEMMA ContentIs ==
  ASSUME NEW s \in Slots
  PROVE  Content(s) = ContentOf(dfat, ddata, ddir[s])
BY DEF Content, ContentOf

\* Acknowledged content is on the card.
LEMMA InvDurable == Inv => Durable
<1> SUFFICES ASSUME IInv, NEW n \in Names, acked[n] # None
             PROVE  \E s \in Files : ddir[s].name = n /\ Content(s) = acked[n]
  BY DEF Inv, Durable
<1>1. PICK s \in Slots : ddir[s].name = n /\ ContentOf(dfat, ddata, ddir[s]) = acked[n]
  BY DEF IInv, AckedOK
<1>2. s \in Files
  BY <1>1, FatAssumption DEF Files
<1>3. QED
  BY <1>1, <1>2, ContentIs

-----------------------------------------------------------------------------
(* Steps. *)

\* The five states of an operation differ: what is left to write, its head
\* and its tail.
LEMMA TodoDiffer ==
  /\ {Data, Early, Late, Last} \cap {<< >>} = {}
  /\ Data \notin {Early, Late, Last} /\ Early \notin {Late, Last} /\ Late # Last
  /\ Head(Data) = "data" /\ Head(Early) = "fat" /\ Head(Late) = "dir" /\ Head(Last) = "fat"
  /\ Tail(Data) = Early /\ Tail(Early) = Late /\ Tail(Late) = Last /\ Tail(Last) = << >>
<1>1. Len(Data) = 4 /\ Len(Early) = 3 /\ Len(Late) = 2 /\ Len(Last) = 1 /\ Len(<< >>) = 0
  BY DEF Data, Early, Late, Last
<1>2. Head(Data) = "data" /\ Head(Early) = "fat" /\ Head(Late) = "dir" /\ Head(Last) = "fat"
  BY DEF Data, Early, Late, Last
<1>3. Tail(Data) = Early /\ Tail(Early) = Late /\ Tail(Late) = Last /\ Tail(Last) = << >>
  BY DEF Data, Early, Late, Last
<1>4. /\ Data # << >> /\ Early # << >> /\ Late # << >> /\ Last # << >>
      /\ Data # Early /\ Data # Late /\ Data # Last
      /\ Early # Late /\ Early # Last /\ Late # Last
  BY DEF Data, Early, Late, Last
<1>5. QED
  BY <1>2, <1>3, <1>4

\* A panic, a failed assert, a read, or nothing at all.
LEMMA NothingInv ==
  ASSUME IInv, UNCHANGED <<card, fat, dirents, todo, job, acked>>
  PROVE  IInv'
<1>1. UNCHANGED <<dfat, ddir, ddata, fat, dirents, todo, job, acked>>
  BY DEF card
<1>2. TypeOK' /\ CardOK' /\ MemoryOK' /\ SectorsOK'
  BY <1>1 DEF IInv, TypeOK, CardOK, MemoryOK, SectorsOK
<1>3. LinkedOK'
  BY <1>1 DEF IInv, LinkedOK
<1>4. FreshOK'
  BY <1>1 DEF IInv, FreshOK, Fresh
<1>5. ResultOK'
  BY <1>1 DEF IInv, ResultOK
<1>6. AckedOK'
  BY <1>1 DEF IInv, AckedOK
<1>7. ChangeOK'
  BY <1>1 DEF IInv, ChangeOK
<1>8. QED
  BY <1>2, <1>3, <1>4, <1>5, <1>6, <1>7 DEF IInv

\* The memory after a reboot is what the card holds.
LEMMA RebootInv ==
  ASSUME IInv, Reboot
  PROVE  IInv'
<1>1. /\ fat' = dfat /\ dirents' = ddir /\ todo' = << >> /\ job' = NoJob
      /\ UNCHANGED <<dfat, ddir, ddata, acked>>
  BY DEF Reboot, card
<1>2. job' \in Jobs /\ job'.sec = 0
  <2>1. None \in Contents
    BY DEF Contents
  <2>2. QED
    BY <1>1, <2>1 DEF NoJob, Jobs
<1>3. TypeOK'
  BY <1>1, <1>2 DEF IInv, TypeOK
<1>4. CardOK'
  BY <1>1 DEF IInv, CardOK
<1>5. MemoryOK'
  BY <1>1 DEF IInv, CardOK, MemoryOK
<1>6. SectorsOK'
  BY <1>1, <1>2 DEF SectorsOK
<1>7. LinkedOK' /\ FreshOK' /\ ChangeOK' /\ ResultOK'
  BY <1>1, TodoDiffer DEF LinkedOK, FreshOK, ChangeOK, ResultOK
<1>8. AckedOK'
  BY <1>1 DEF IInv, AckedOK
<1>9. QED
  BY <1>3, <1>4, <1>5, <1>6, <1>7, <1>8 DEF IInv

\* The directory is written: from here on a reboot finds the new file.
LEMMA WriteDirInv ==
  ASSUME IInv, WriteDir
  PROVE  IInv'
<1>1. /\ todo = Late /\ todo' = Last /\ ddir' = dirents
      /\ UNCHANGED <<dfat, ddata, fat, dirents, job, acked>>
  BY TodoDiffer DEF WriteDir, IInv, TypeOK
<1>2. FatOK(fat) /\ Good(fat, dirents) /\ \A s \in Slots : Full(fat, dirents[s])
  BY <1>1, TodoDiffer DEF IInv, TypeOK, MemoryOK
<1>3. /\ Good(dfat, dirents)
      /\ \A s \in Slots : dirents[s].start # 0 =>
           CutLater(fat, dfat, dirents[s].start, job.sec)
  BY <1>1 DEF IInv, LinkedOK
<1>4. TypeOK'
  BY <1>1 DEF IInv, TypeOK
<1>5. CardOK'
  <2>1. ASSUME NEW s \in Slots PROVE Full(dfat, dirents[s])
    <3>1. dirents[s].start # 0 => Longer(fat, dfat, dirents[s].start)
      BY <1>3, <2>1 DEF CutLater, Longer
    <3>2. dirents[s] \in Entry /\ (dirents[s].start = 0 => dirents[s].size = 0)
      BY <1>2, <2>1 DEF Good
    <3>3. QED
      BY <1>2, <2>1, <3>1, <3>2, LinkedFile
  <2>2. QED
    BY <1>1, <1>3, <2>1 DEF CardOK
<1>6. MemoryOK'
  BY <1>1, <1>2 DEF MemoryOK
<1>7. SectorsOK'
  BY <1>1, TodoDiffer DEF IInv, SectorsOK
<1>8. LinkedOK'
  BY <1>1, <1>3 DEF LinkedOK
<1>9. FreshOK' /\ ChangeOK'
  BY <1>1, TodoDiffer DEF FreshOK, ChangeOK
<1>10. ResultOK'
  BY <1>1 DEF IInv, ResultOK
<1>11. AckedOK'
  BY <1>1 DEF IInv, AckedOK
<1>12. QED
  BY <1>4, <1>5, <1>6, <1>7, <1>8, <1>9, <1>10, <1>11 DEF IInv

\* What these steps need of the invariant, whatever the callers do.
Follows == /\ FatOK(fat) /\ FatOK(dfat)
           /\ job \in Jobs /\ acked \in [Names -> Contents]
           /\ todo \in {<< >>, Data, Early, Late, Last}
           /\ SectorsOK

LEMMA InvFollows == IInv => Follows
BY DEF IInv, TypeOK, Follows

\* What one sector changes on the card.
LEMMA SectorFacts ==
  ASSUME Follows, WriteFatSector
  PROVE  /\ todo \in {Early, Last} /\ job \in Jobs /\ job.sec \in Nat
         /\ FatOK(fat) /\ FatOK(dfat) /\ FatOK(dfat')
         /\ \A x \in 0 .. NEntries - 1 :
              /\ dfat'[x] = IF x \div PerSector = job.sec THEN fat[x] ELSE dfat[x]
              /\ x \div PerSector < job.sec + 1 => dfat'[x] = fat[x]
         /\ job.sec + 1 \notin Sectors => dfat' = fat
         /\ UNCHANGED <<ddir, ddata, fat, dirents>>
<1>1. todo \in {Early, Last}
  BY TodoDiffer DEF WriteFatSector, Follows
<1>2. FatOK(fat) /\ FatOK(dfat) /\ job \in Jobs /\ job.sec \in Nat
  BY DEF Follows, Jobs
<1>3. fat \in [0 .. NEntries - 1 -> 0 .. NEntries] /\ dfat \in [0 .. NEntries - 1 -> 0 .. NEntries]
  BY <1>2 DEF FatOK
<1>4. dfat' = [c \in 0 .. NEntries - 1 |->
                 IF c \div PerSector = job.sec THEN fat[c] ELSE dfat[c]]
  <2>1. DOMAIN fat = 0 .. NEntries - 1
    BY <1>3
  <2>2. QED
    BY <2>1 DEF WriteFatSector
<1>5. FatOK(dfat')
  <2>1. dfat' \in [0 .. NEntries - 1 -> 0 .. NEntries]
    BY <1>3, <1>4
  <2>2. DataClusters \subseteq 0 .. NEntries - 1
    BY FatAssumption DEF DataClusters
  <2>3. \A x \in DataClusters : dfat'[x] = fat[x] \/ dfat'[x] = dfat[x]
    BY <1>4, <2>2
  <2>4. QED
    BY <1>2, <2>1, <2>3 DEF FatOK
<1>6. \A x \in 0 .. NEntries - 1 :
        /\ dfat'[x] = IF x \div PerSector = job.sec THEN fat[x] ELSE dfat[x]
        /\ x \div PerSector < job.sec => dfat[x] = fat[x]
        /\ x \div PerSector \in Nat /\ x \div PerSector <= (NEntries - 1) \div PerSector
  <2>1. \A x \in 0 .. NEntries - 1 : x \div PerSector < job.sec => dfat[x] = fat[x]
    BY DEF Follows, SectorsOK
  <2>2. ASSUME NEW x \in 0 .. NEntries - 1
        PROVE  x \div PerSector \in Nat /\ x \div PerSector <= (NEntries - 1) \div PerSector
    <3>1. x \in Nat /\ NEntries - 1 \in Nat /\ x <= NEntries - 1
      BY FatAssumption
    <3>2. QED
      BY <3>1, SectorsAscend
  <2>3. QED
    BY <1>4, <2>1, <2>2
<1>7. \A x \in 0 .. NEntries - 1 : x \div PerSector < job.sec + 1 => dfat'[x] = fat[x]
  <2>1. ASSUME NEW x \in 0 .. NEntries - 1, x \div PerSector < job.sec + 1
        PROVE  dfat'[x] = fat[x]
    <3>1. x \div PerSector < job.sec \/ x \div PerSector = job.sec
      BY <1>2, <1>6, <2>1
    <3>2. QED
      BY <1>2, <1>6, <3>1
  <2>2. QED
    BY <2>1
<1>8. job.sec + 1 \notin Sectors => dfat' = fat
  <2>1. SUFFICES ASSUME job.sec + 1 \notin Sectors PROVE dfat' = fat
    OBVIOUS
  <2>2. (NEntries - 1) \div PerSector \in Nat
    BY SectorsAscend, FatAssumption
  <2>3. ~(job.sec + 1 <= (NEntries - 1) \div PerSector)
    BY <1>2, <2>1, <2>2 DEF Sectors
  <2>4. \A x \in 0 .. NEntries - 1 : x \div PerSector < job.sec + 1
    BY <1>2, <1>6, <2>2, <2>3
  <2>5. \A x \in 0 .. NEntries - 1 : dfat'[x] = fat[x]
    BY <1>7, <2>4
  <2>6. QED
    BY <1>3, <1>4, <2>5
<1>9. UNCHANGED <<ddir, ddata, fat, dirents>>
  BY DEF WriteFatSector
<1>10. QED
  BY <1>1, <1>2, <1>5, <1>6, <1>7, <1>8, <1>9

\* How the driver goes on after a sector.
LEMMA SectorNext ==
  ASSUME Follows, WriteFatSector
  PROVE  /\ job' \in Jobs /\ acked' \in [Names -> Contents]
         /\ job.sec + 1 \in Sectors =>
              /\ todo' = todo /\ acked' = acked
              /\ job'.sec = job.sec + 1 /\ job'.name = job.name /\ job'.result = job.result
              /\ job'.payload = job.payload
         /\ job.sec + 1 \notin Sectors /\ todo = Early =>
              /\ todo' = Late /\ acked' = acked /\ job'.sec = 0
              /\ job'.name = job.name /\ job'.result = job.result
         /\ job.sec + 1 \notin Sectors /\ todo = Last =>
              /\ todo' = << >> /\ job'.sec = 0
              /\ acked' = [acked EXCEPT ![job.name] = job.result]
<1>1. todo \in {Early, Last} /\ job \in Jobs /\ job.sec \in Nat
  BY SectorFacts
<1>2. acked \in [Names -> Contents] /\ job.result \in Contents
  BY <1>1 DEF Follows, Jobs
<1>3. NoJob \in Jobs /\ NoJob.sec = 0
  BY DEF NoJob, Jobs, Contents
<1>4. CASE job.sec + 1 \in Sectors
  <2>1. job' = [job EXCEPT !.sec = job.sec + 1] /\ todo' = todo /\ acked' = acked
    BY <1>4 DEF WriteFatSector
  <2>2. job.sec + 1 \in Nat
    BY <1>1
  <2>3. /\ job' \in Jobs /\ job'.sec = job.sec + 1 /\ job'.name = job.name
        /\ job'.result = job.result /\ job'.payload = job.payload
    BY <1>1, <2>1, <2>2 DEF Jobs
  <2>4. QED
    BY <1>2, <1>4, <2>1, <2>3
<1>5. CASE job.sec + 1 \notin Sectors /\ todo = Early
  <2>1. job' = [job EXCEPT !.sec = 0] /\ todo' = Late /\ acked' = acked
    BY <1>5, TodoDiffer DEF WriteFatSector
  <2>2. job' \in Jobs /\ job'.sec = 0 /\ job'.name = job.name /\ job'.result = job.result
    BY <1>1, <2>1 DEF Jobs
  <2>3. QED
    BY <1>2, <1>5, <2>1, <2>2, TodoDiffer
<1>6. CASE job.sec + 1 \notin Sectors /\ todo = Last
  <2>1. /\ job' = NoJob /\ todo' = << >>
        /\ acked' = [acked EXCEPT ![job.name] = job.result]
    BY <1>6, TodoDiffer DEF WriteFatSector
  <2>2. acked' \in [Names -> Contents]
    BY <1>2, <2>1
  <2>3. QED
    BY <1>3, <1>6, <2>1, <2>2, TodoDiffer
<1>7. QED
  BY <1>1, <1>4, <1>5, <1>6

\* The card shows the same files.
Kept == /\ ddir' = ddir
        /\ \A s \in Slots : ContentOf(dfat', ddata', ddir[s]) = ContentOf(dfat, ddata, ddir[s])

\* Before the directory: the sector takes only clusters that are free on the
\* card, so that no file there notices.
LEMMA EarlySectorInv ==
  ASSUME IInv, WriteFatSector, todo = Early
  PROVE  IInv' /\ Kept
<1>1. /\ FatOK(fat) /\ FatOK(dfat) /\ FatOK(dfat') /\ job.sec \in Nat
      /\ \A x \in 0 .. NEntries - 1 :
           /\ dfat'[x] = IF x \div PerSector = job.sec THEN fat[x] ELSE dfat[x]
           /\ x \div PerSector < job.sec + 1 => dfat'[x] = fat[x]
      /\ job.sec + 1 \notin Sectors => dfat' = fat
      /\ UNCHANGED <<ddir, ddata, fat, dirents>>
  BY SectorFacts, InvFollows
<1>2. /\ job' \in Jobs /\ acked' = acked /\ job'.name = job.name /\ job'.result = job.result
      /\ \/ /\ job.sec + 1 \in Sectors /\ todo' = Early /\ job'.sec = job.sec + 1
            /\ job'.payload = job.payload
         \/ /\ job.sec + 1 \notin Sectors /\ todo' = Late /\ job'.sec = 0
  BY SectorNext, InvFollows
<1>3. \A x \in 0 .. NEntries - 1 : dfat[x] = fat[x] \/ dfat[x] = FREE
  BY DEF IInv, FreshOK, Fresh
<1>4. Good(dfat, ddir) /\ \A s \in Slots : Full(dfat, ddir[s])
  BY DEF IInv, CardOK
<1>5. \A s \in Slots : ddir[s].start # 0 =>
        \A x \in Chain(dfat, ddir[s].start) : dfat'[x] = dfat[x]
  BY <1>1, <1>3, <1>4, GoodFile
<1>6. /\ Good(dfat', ddir)
      /\ \A s \in Slots : ddir[s].start # 0 => Nth(dfat', ddir[s].start) = Nth(dfat, ddir[s].start)
  <2>1. PICK h : h = dfat'
    OBVIOUS
  <2>2. Same(dfat, h, ddir)
    BY <1>5, <2>1 DEF Same, Agree
  <2>3. /\ Good(h, ddir)
        /\ \A s \in Slots : ddir[s].start # 0 => Nth(h, ddir[s].start) = Nth(dfat, ddir[s].start)
    BY <1>4, <2>2, GoodSame
  <2>4. QED
    BY <2>1, <2>3
<1>7. ASSUME NEW s \in Slots
      PROVE  Full(dfat', ddir[s]) /\ ContentOf(dfat', ddata, ddir[s]) = ContentOf(dfat, ddata, ddir[s])
  <2>1. ddir[s] \in Entry
    BY <1>4 DEF Good
  <2>2. CASE ddir[s].start = 0
    <3>1. ddir[s].size = 0
      BY <1>4, <2>2 DEF Good
    <3>2. QED
      BY <3>1, EmptyFile
  <2>3. CASE ddir[s].start # 0
    BY <1>4, <1>6, <2>1, <2>3, SameContent
  <2>4. QED
    BY <2>2, <2>3
<1>8. TypeOK'
  BY <1>1, <1>2 DEF IInv, TypeOK
<1>9. CardOK'
  BY <1>1, <1>6, <1>7 DEF CardOK
<1>10. Good(fat, dirents) /\ \A s \in Slots : Full(fat, dirents[s])
  BY TodoDiffer DEF IInv, MemoryOK
<1>11. MemoryOK'
  BY <1>1, <1>10 DEF MemoryOK
<1>12. SectorsOK'
  <2>1. CASE todo' = Early
    BY <1>1, <1>2, <2>1, TodoDiffer DEF SectorsOK
  <2>2. CASE todo' = Late
    <3>1. job'.sec = 0 /\ dfat' = fat'
      BY <1>1, <1>2, <2>2, TodoDiffer
    <3>2. QED
      BY <2>2, <3>1, TodoDiffer DEF SectorsOK
  <2>3. QED
    BY <1>2, <2>1, <2>2
<1>13. LinkedOK'
  <2>1. todo' \in {Late, Last} => dfat' = fat
    BY <1>1, <1>2, TodoDiffer
  <2>2. QED
    BY <1>1, <1>10, <2>1 DEF LinkedOK, CutLater
<1>14. FreshOK'
  <2>1. SUFFICES ASSUME todo' = Early PROVE FreshOK'
    BY <1>2, TodoDiffer DEF FreshOK, Fresh
  <2>2. \A x \in 0 .. NEntries - 1 : dfat'[x] = fat[x] \/ dfat'[x] = FREE
    BY <1>1, <1>3
  <2>3. job'.payload = job.payload
    BY <1>2, <2>1, TodoDiffer
  <2>4. PICK j \in Slots :
          /\ dirents[j].name = job.name /\ dirents[j].start # 0
          /\ ddir[j].name = job.name /\ ddir[j].start = 0
          /\ \A s \in Slots \ {j} : dirents[s] = ddir[s]
          /\ job.result = [k \in 1 .. dirents[j].size |-> <<job.payload, k>>]
    BY DEF IInv, FreshOK, Fresh
  <2>5. /\ dirents'[j].name = job'.name /\ dirents'[j].start # 0
        /\ ddir'[j].name = job'.name /\ ddir'[j].start = 0
        /\ \A s \in Slots \ {j} : dirents'[s] = ddir'[s]
        /\ job'.result = [k \in 1 .. dirents'[j].size |-> <<job'.payload, k>>]
    BY <1>1, <1>2, <2>3, <2>4
  <2>6. QED
    BY <1>1, <2>1, <2>2, <2>5, TodoDiffer DEF FreshOK, Fresh
<1>15. ChangeOK'
  BY <1>1, <1>2, TodoDiffer DEF IInv, ChangeOK
<1>16. ResultOK'
  BY <1>1, <1>2, TodoDiffer DEF IInv, ResultOK
<1>17. AckedOK'
  BY <1>1, <1>2, <1>7 DEF IInv, AckedOK
<1>18. IInv'
  BY <1>8, <1>9, <1>11, <1>12, <1>13, <1>14, <1>16, <1>17, <1>15 DEF IInv
<1>19. Kept
  BY <1>1, <1>7 DEF Kept
<1>20. QED
  BY <1>18, <1>19

\* After it: clusters are freed, and a chain is cut, one sector at a time;
\* the last sector ends the operation.
LEMMA LastSectorInv ==
  ASSUME IInv, WriteFatSector, todo = Last
  PROVE  IInv' /\ Kept
<1>1. /\ FatOK(fat) /\ FatOK(dfat) /\ FatOK(dfat') /\ job.sec \in Nat
      /\ \A x \in 0 .. NEntries - 1 :
           /\ dfat'[x] = IF x \div PerSector = job.sec THEN fat[x] ELSE dfat[x]
           /\ x \div PerSector < job.sec + 1 => dfat'[x] = fat[x]
      /\ job.sec + 1 \notin Sectors => dfat' = fat
      /\ UNCHANGED <<ddir, ddata, fat, dirents>>
  BY SectorFacts, InvFollows
<1>2. /\ job' \in Jobs /\ acked' \in [Names -> Contents]
      /\ \/ /\ job.sec + 1 \in Sectors /\ todo' = Last /\ acked' = acked
            /\ job'.sec = job.sec + 1 /\ job'.name = job.name /\ job'.result = job.result
         \/ /\ job.sec + 1 \notin Sectors /\ todo' = << >> /\ job'.sec = 0
            /\ acked' = [acked EXCEPT ![job.name] = job.result]
  BY SectorNext, InvFollows, TodoDiffer
<1>3. /\ ddir = dirents /\ Good(dfat, ddir) /\ Good(fat, ddir)
      /\ \A s \in Slots : Full(dfat, ddir[s]) /\ Full(fat, ddir[s])
  BY TodoDiffer DEF IInv, CardOK, MemoryOK, SectorsOK
<1>4. \A s \in Slots : ddir[s].start # 0 => CutLater(fat, dfat, ddir[s].start, job.sec)
  BY <1>3 DEF IInv, LinkedOK
<1>5. /\ Fewer(dfat, dfat', ddir)
      /\ \A s \in Slots : ddir[s].start # 0 => CutLater(fat, dfat', ddir[s].start, job.sec + 1)
  <2>1. PICK h : h = dfat'
    OBVIOUS
  <2>2. WithSector(fat, dfat, h, job.sec)
    BY <1>1, <2>1 DEF WithSector
  <2>3. ASSUME NEW s \in Slots, ddir[s].start # 0
        PROVE  /\ Chain(h, ddir[s].start) \subseteq Chain(dfat, ddir[s].start)
               /\ CutLater(fat, h, ddir[s].start, job.sec + 1)
    <3>1. Sound(fat, ddir[s].start) /\ Sound(dfat, ddir[s].start)
      BY <1>1, <1>3, <2>3, GoodFile
    <3>2. CutLater(fat, dfat, ddir[s].start, job.sec)
      BY <1>4, <2>3
    <3>3. QED
      BY <1>1, <2>2, <3>1, <3>2, SectorWritten
  <2>4. QED
    BY <2>1, <2>3 DEF Fewer
<1>6. Good(dfat', ddir)
  BY <1>3, <1>5, GoodShrinks
<1>7. ASSUME NEW s \in Slots
      PROVE  /\ Full(dfat', ddir[s])
             /\ ContentOf(dfat', ddata, ddir[s]) = ContentOf(fat, ddata, ddir[s])
             /\ ContentOf(dfat, ddata, ddir[s]) = ContentOf(fat, ddata, ddir[s])
  <2>1. PICK h : h = dfat'
    OBVIOUS
  <2>2. ddir[s].start # 0 =>
          Longer(fat, dfat, ddir[s].start) /\ Longer(fat, h, ddir[s].start)
    BY <1>4, <1>5, <1>7, <2>1 DEF CutLater, Longer
  <2>3. /\ ddir[s] \in Entry /\ (ddir[s].start = 0 => ddir[s].size = 0)
        /\ Full(fat, ddir[s])
    BY <1>3, <1>7 DEF Good
  <2>4. ContentOf(dfat, ddata, ddir[s]) = ContentOf(fat, ddata, ddir[s])
    BY <2>2, <2>3, LinkedFile
  <2>5. Full(h, ddir[s]) /\ ContentOf(h, ddata, ddir[s]) = ContentOf(fat, ddata, ddir[s])
    BY <2>2, <2>3, LinkedFile
  <2>6. QED
    BY <2>1, <2>4, <2>5
<1>8. TypeOK'
  BY <1>1, <1>2 DEF IInv, TypeOK
<1>9. CardOK'
  BY <1>1, <1>6, <1>7 DEF CardOK
<1>10. MemoryOK'
  BY <1>1, <1>3 DEF MemoryOK
<1>11. SectorsOK'
  <2>1. CASE todo' = Last
    BY <1>1, <1>2, <1>3, <2>1, TodoDiffer DEF SectorsOK
  <2>2. CASE todo' = << >>
    <3>1. job'.sec = 0 /\ dfat' = fat'
      BY <1>1, <1>2, <2>2, TodoDiffer
    <3>2. QED
      BY <1>1, <1>3, <2>2, <3>1, TodoDiffer DEF SectorsOK
  <2>3. QED
    BY <1>2, <2>1, <2>2
<1>12. LinkedOK'
  <2>1. SUFFICES ASSUME todo' = Last PROVE LinkedOK'
    BY <1>2, TodoDiffer DEF LinkedOK
  <2>2. job'.sec = job.sec + 1
    BY <1>2, <2>1, TodoDiffer
  <2>3. QED
    BY <1>1, <1>3, <1>5, <1>6, <2>2 DEF LinkedOK
<1>13. FreshOK' /\ ChangeOK'
  BY <1>2, TodoDiffer DEF FreshOK, ChangeOK
<1>14. ResultOK'
  <2>1. SUFFICES ASSUME todo' = Last PROVE ResultOK'
    BY <1>2, TodoDiffer DEF ResultOK
  <2>2. job'.name = job.name /\ job'.result = job.result
    BY <1>2, <2>1, TodoDiffer
  <2>3. QED
    BY <1>1, <2>2 DEF IInv, ResultOK
<1>15. AckedOK'
  <2>1. SUFFICES ASSUME NEW n \in Names, acked'[n] # None
                 PROVE  \E s \in Slots : /\ ddir'[s].name = n /\ dirents'[s] = ddir'[s]
                                         /\ ContentOf(dfat', ddata', ddir'[s]) = acked'[n]
    BY DEF AckedOK
  <2>2. CASE acked'[n] = acked[n]
    <3>1. PICK s \in Slots : /\ ddir[s].name = n
                             /\ ContentOf(dfat, ddata, ddir[s]) = acked[n]
      BY <2>1, <2>2 DEF IInv, AckedOK
    <3>2. QED
      BY <1>1, <1>3, <1>7, <2>2, <3>1
  <2>3. CASE acked'[n] # acked[n]
    <3>1. acked' = [acked EXCEPT ![job.name] = job.result] /\ acked \in [Names -> Contents]
      BY <1>2, <2>3 DEF IInv, TypeOK
    <3>2. n = job.name /\ acked'[n] = job.result
      BY <2>1, <2>3, <3>1
    <3>3. PICK s \in Slots : /\ dirents[s].name = job.name
                             /\ ContentOf(fat, ddata, dirents[s]) = job.result
      BY <2>1, <3>2 DEF IInv, ResultOK
    <3>4. QED
      BY <1>1, <1>3, <1>7, <3>2, <3>3
  <2>4. QED
    BY <2>2, <2>3
<1>16. IInv'
  BY <1>8, <1>9, <1>10, <1>11, <1>12, <1>13, <1>14, <1>15 DEF IInv
<1>17. Kept
  BY <1>1, <1>7 DEF Kept
<1>18. QED
  BY <1>16, <1>17

\* An entry for the slot j with no chain, or that of the entry it replaces.
NameFree(d, j, n) == \A t \in Slots : t # j /\ n # None => d[t].name # n
Fits(d, j, e) ==
  /\ e.name = None => e.start = 0
  /\ e.start = 0 => e.size = 0
  /\ e.start = 0 \/ e.start = d[j].start
  /\ NameFree(d, j, e.name)

\* The other files have their chains.
Others(f, g, d, j) ==
  \A s \in Slots : s # j /\ d[s].start # 0 => Agree(f, g, d[s].start)

Changed(d, j, e) == [d EXCEPT ![j] = e]

\* The other files keep their blocks.
FullToo(f, g, d, d2, j) == \A s \in Slots : s # j /\ Full(f, d[s]) => Full(g, d2[s])

\* The chain that starts at c is at most cut.
OnlyCut(f, g, c) ==
  c # 0 => Chain(g, c) \subseteq Chain(f, c) /\ Longer(g, f, c)

\* An operation that gives no file a new cluster: one entry and, with g, its
\* own chain change.
LEMMA EntryChanged ==
  ASSUME NEW f, NEW g, NEW d, Good(f, d), NEW j \in Slots, NEW e \in Entry,
         Fits(d, j, e),
         Others(f, g, d, j),
         OnlyCut(f, g, e.start),
         NEW d2, d2 = Changed(d, j, e)
  PROVE  /\ Good(f, d2) /\ Good(g, d2)
         /\ \A s \in Slots : d2[s].start # 0 => Longer(g, f, d2[s].start)
         /\ FullToo(f, g, d, d2, j)
<1>1. d \in [Slots -> Entry]
  BY DEF Good
<1>2. d2 \in [Slots -> Entry] /\ d2[j] = e /\ \A s \in Slots : s # j => d2[s] = d[s]
  BY <1>1 DEF Changed
<1>3. Good(f, d2)
  <2>1. ASSUME NEW s \in Slots
        PROVE  /\ d2[s].name = None => d2[s].start = 0
               /\ d2[s].start = 0 => d2[s].size = 0
               /\ d2[s].start = 0 \/ d2[s].start = d[s].start
               /\ d2[s].start # 0 => Sound(f, d2[s].start)
    BY <1>2, <2>1 DEF Good, Fits
  <2>2. ASSUME NEW s \in Slots, NEW t \in Slots, s # t
        PROVE  /\ d2[s].name # None => d2[s].name # d2[t].name
               /\ d2[s].start # 0 /\ d2[t].start # 0 =>
                    Chain(f, d2[s].start) \cap Chain(f, d2[t].start) = {}
    <3>1. d2[s].start # 0 /\ d2[t].start # 0 =>
            Chain(f, d2[s].start) \cap Chain(f, d2[t].start) = {}
      BY <2>1, <2>2 DEF Good
    <3>2. d2[s].name # None => d2[s].name # d2[t].name
      <4>1. CASE s = j
        BY <1>2, <2>2, <4>1 DEF Fits, NameFree
      <4>2. CASE t = j
        BY <1>2, <2>2, <4>2 DEF Fits, NameFree
      <4>3. CASE s # j /\ t # j
        BY <1>2, <2>2, <4>3 DEF Good
      <4>4. QED
        BY <4>1, <4>2, <4>3
    <3>3. QED
      BY <3>1, <3>2
  <2>3. QED
    BY <1>2, <2>1, <2>2 DEF Good
<1>4. ASSUME NEW s \in Slots, s # j, d[s].start # 0
      PROVE  Nth(g, d[s].start) = Nth(f, d[s].start) /\ Chain(g, d[s].start) = Chain(f, d[s].start)
             /\ Longer(g, f, d[s].start)
  <2>1. Agree(f, g, d[s].start)
    BY <1>4 DEF Others
  <2>2. Nth(g, d[s].start) = Nth(f, d[s].start) /\ Chain(g, d[s].start) = Chain(f, d[s].start)
    BY <2>1, SameChain
  <2>3. Longer(g, f, d[s].start)
    BY <2>1, <2>2 DEF Agree, Longer
  <2>4. QED
    BY <2>2, <2>3
<1>5. Fewer(f, g, d2)
  BY <1>2, <1>4 DEF Fewer, OnlyCut
<1>6. Good(g, d2)
  BY <1>3, <1>5, GoodShrinks
<1>7. \A s \in Slots : d2[s].start # 0 => Longer(g, f, d2[s].start)
  BY <1>2, <1>4 DEF OnlyCut
<1>8. ASSUME NEW s \in Slots, s # j, Full(f, d[s])
      PROVE  Full(g, d2[s])
  <2>1. d2[s] = d[s]
    BY <1>2, <1>8
  <2>2. CASE d[s].start = 0
    <3>1. d[s].size = 0
      BY <1>8, <2>2 DEF Good
    <3>2. QED
      BY <2>1, <3>1, EmptyFile
  <2>3. CASE d[s].start # 0
    <3>1. Nth(g, d[s].start) = Nth(f, d[s].start)
      BY <1>4, <1>8, <2>3
    <3>2. QED
      BY <1>8, <2>1, <3>1 DEF Full
  <2>4. QED
    BY <2>2, <2>3
<1>9. QED
  BY <1>3, <1>6, <1>7, <1>8 DEF FullToo

\* The job of a starting operation.
JobFor(nm, res) == [NoJob EXCEPT !.name = nm, !.result = res]

\* The job of an operation that starts.
LEMMA JobFields ==
  ASSUME NEW nm \in Names, NEW res \in Contents
  PROVE  /\ JobFor(nm, res) \in Jobs /\ JobFor(nm, res).sec = 0
         /\ JobFor(nm, res).name = nm /\ JobFor(nm, res).result = res
<1>1. PICK q : q = [NoJob EXCEPT !.name = nm]
  OBVIOUS
<1>2. NoJob \in Jobs /\ NoJob.sec = 0
  BY DEF NoJob, Jobs, Contents
<1>3. q \in Jobs /\ q.sec = 0 /\ q.name = nm
  BY <1>1, <1>2 DEF Jobs
<1>4. JobFor(nm, res) = [q EXCEPT !.result = res]
  BY <1>1 DEF JobFor
<1>5. QED
  BY <1>3, <1>4 DEF Jobs

\* An idle driver.
LEMMA IdleFacts ==
  ASSUME IInv, Idle
  PROVE  /\ todo = << >> /\ dfat = fat /\ dirents = ddir
         /\ FatOK(fat) /\ Good(fat, ddir) /\ ddir \in [Slots -> Entry]
         /\ \A s \in Slots : Full(fat, ddir[s])
         /\ ddata \in [Clusters -> Stored] /\ acked \in [Names -> Contents]
<1>1. todo = << >>
  BY DEF Idle
<1>2. dfat = fat /\ dirents = ddir
  BY <1>1 DEF IInv, SectorsOK
<1>3. FatOK(fat) /\ ddata \in [Clusters -> Stored] /\ acked \in [Names -> Contents]
  BY DEF IInv, TypeOK
<1>4. Good(fat, ddir) /\ \A s \in Slots : Full(fat, ddir[s])
  BY <1>2 DEF IInv, CardOK
<1>5. ddir \in [Slots -> Entry]
  BY <1>4 DEF Good
<1>6. QED
  BY <1>1, <1>2, <1>3, <1>4, <1>5

\* find_dirent_with_name finds the one slot of the name.
LEMMA SlotIs ==
  ASSUME NEW n, Found(n) # {}
  PROVE  Slot(n) \in Slots /\ ddir[Slot(n)].name = n
<1>1. Found(n) \subseteq Nat /\ Found(n) \subseteq Slots
  BY FatAssumption DEF Found, Slots
<1>2. Slot(n) \in Found(n)
  BY <1>1, MinIn DEF Slot
<1>3. QED
  BY <1>1, <1>2 DEF Found, Matches

\* Acknowledged files other than those of the operation are not touched.
LEMMA AckedStart ==
  ASSUME IInv, Idle, NEW ns, NEW j \in Slots, ddir[j].name \in ns \cup {None},
         acked' = [n \in Names |-> IF n \in ns THEN None ELSE acked[n]],
         \A s \in Slots : s # j => dirents'[s] = ddir[s],
         UNCHANGED card
  PROVE  AckedOK' /\ acked' \in [Names -> Contents]
<1>1. acked \in [Names -> Contents] /\ None \in Contents
  BY IdleFacts DEF Contents
<1>2. UNCHANGED <<dfat, ddir, ddata>>
  BY DEF card
<1>3. ASSUME NEW n \in Names, acked'[n] # None
      PROVE  \E s \in Slots : /\ ddir'[s].name = n /\ dirents'[s] = ddir'[s]
                              /\ ContentOf(dfat', ddata', ddir'[s]) = acked'[n]
  <2>1. n \notin ns /\ acked'[n] = acked[n]
    BY <1>3
  <2>2. PICK s \in Slots : ddir[s].name = n /\ ContentOf(dfat, ddata, ddir[s]) = acked[n]
    BY <1>3, <2>1 DEF IInv, AckedOK
  <2>3. s # j
    BY <1>3, <2>1, <2>2, FatAssumption
  <2>4. QED
    BY <1>2, <2>1, <2>2, <2>3
<1>4. acked' \in [Names -> Contents]
  BY <1>1
<1>5. QED
  BY <1>3, <1>4 DEF AckedOK

\* The content an operation has promised is that of the entry e.
Yields(f, data, e, nm, res) == res # None => e.name = nm /\ ContentOf(f, data, e) = res

\* The first step of an operation that needs no new cluster.
LEMMA LateStart ==
  ASSUME IInv, Idle, NEW j \in Slots, NEW e \in Entry, NEW h, h = fat',
         Fits(ddir, j, e),
         FatOK(h), Others(fat, h, ddir, j), Full(h, e),
         OnlyCut(fat, h, e.start),
         dirents' = Changed(ddir, j, e),
         NEW ns, ddir[j].name \in ns \cup {None},
         acked' = [n \in Names |-> IF n \in ns THEN None ELSE acked[n]],
         NEW nm \in Names, NEW res \in Contents,
         job' \in Jobs, job'.sec = 0, job'.name = nm, job'.result = res,
         Yields(h, ddata, e, nm, res), Change(ddir[j], e, nm, res),
         todo' = Late, UNCHANGED card
  PROVE  IInv'
<1>1. /\ todo = << >> /\ dfat = fat /\ dirents = ddir
      /\ FatOK(fat) /\ Good(fat, ddir) /\ ddir \in [Slots -> Entry]
      /\ \A s \in Slots : Full(fat, ddir[s])
      /\ ddata \in [Clusters -> Stored] /\ acked \in [Names -> Contents]
  BY IdleFacts
<1>2. UNCHANGED <<dfat, ddir, ddata>>
  BY DEF card
<1>3. PICK d2 : d2 = Changed(ddir, j, e)
  OBVIOUS
<1>4. Good(fat, d2)
  BY <1>1, <1>3, EntryChanged
<1>5. Good(h, d2)
  BY <1>1, <1>3, EntryChanged
<1>6. \A s \in Slots : d2[s].start # 0 => Longer(h, fat, d2[s].start)
  BY <1>1, <1>3, EntryChanged
<1>7. \A s \in Slots : s # j => d2[s] = ddir[s]
  BY <1>1, <1>3 DEF Changed
<1>8. \A s \in Slots : s # j => Full(h, d2[s])
  <2>1. FullToo(fat, h, ddir, d2, j)
    BY <1>1, <1>3, EntryChanged
  <2>2. QED
    BY <1>1, <2>1 DEF FullToo
<1>9. /\ Good(fat, d2) /\ Good(h, d2)
      /\ \A s \in Slots : d2[s].start # 0 => Longer(h, fat, d2[s].start)
      /\ \A s \in Slots : s # j => d2[s] = ddir[s] /\ Full(h, d2[s])
  BY <1>4, <1>5, <1>6, <1>7, <1>8
<1>10. dirents' = d2 /\ d2[j] = e
  BY <1>1, <1>3 DEF Changed
<1>11. \A s \in Slots : Full(h, d2[s])
  BY <1>1, <1>9, <1>10
<1>12. AckedOK' /\ acked' \in [Names -> Contents]
  BY <1>9, <1>10, AckedStart
<1>13. TypeOK'
  BY <1>1, <1>2, <1>12 DEF TypeOK
<1>14. CardOK'
  BY <1>1, <1>2 DEF CardOK
<1>15. MemoryOK'
  BY <1>9, <1>10, <1>11 DEF MemoryOK
<1>16. SectorsOK'
  <2>1. \A x \in 0 .. NEntries - 1 : ~(x \div PerSector < 0)
    BY SectorsAscend
  <2>2. QED
    BY <2>1, TodoDiffer DEF SectorsOK
<1>17. LinkedOK'
  <2>1. ASSUME NEW s \in Slots, d2[s].start # 0 PROVE CutLater(h, fat, d2[s].start, 0)
    <3>1. Longer(h, fat, d2[s].start)
      BY <1>9, <2>1
    <3>2. \A x \in Chain(h, d2[s].start) : x \in Nat
      <4>1. Sound(h, d2[s].start)
        BY <1>9, <2>1 DEF Good
      <4>2. QED
        BY <4>1, FatAssumption DEF Sound, DataClusters
    <3>3. \A x \in Chain(h, d2[s].start) : 0 <= x \div PerSector
      BY <3>2, SectorsAscend
    <3>4. QED
      BY <3>1, <3>3 DEF Longer, CutLater
  <2>2. QED
    <3>1. dfat' = fat /\ dirents' = d2 /\ fat' = h /\ job'.sec = 0 /\ Good(fat, d2)
      BY <1>1, <1>2, <1>9, <1>10
    <3>2. QED
      BY <2>1, <3>1 DEF LinkedOK
<1>18. FreshOK'
  BY TodoDiffer DEF FreshOK
<1>19. ChangeOK'
  <2>1. dirents'[j] = e /\ ddir'[j] = ddir[j]
    BY <1>2, <1>10
  <2>2. \A s \in Slots \ {j} : dirents'[s] = ddir'[s]
    BY <1>2, <1>9, <1>10
  <2>3. QED
    BY <2>1, <2>2 DEF ChangeOK
<1>20. ResultOK'
  <2>1. SUFFICES ASSUME res # None
                 PROVE  \E s \in Slots : /\ dirents'[s].name = nm /\ nm # None
                                         /\ ContentOf(h, ddata, dirents'[s]) = res
    BY <1>2 DEF ResultOK
  <2>2. nm # None
    BY FatAssumption
  <2>3. QED
    BY <1>10, <2>1, <2>2 DEF Yields
<1>21. QED
  BY <1>12, <1>13, <1>14, <1>15, <1>16, <1>17, <1>18, <1>20, <1>19 DEF IInv

\* The FAT does not change.
LEMMA SameFat ==
  ASSUME NEW f, NEW d, NEW j, NEW c
  PROVE  Others(f, f, d, j) /\ OnlyCut(f, f, c)
BY DEF Others, OnlyCut, Agree, Longer

\* A name that is not found is that of no entry.
LEMMA NoOther ==
  ASSUME Dotless = {}, NEW n, Found(n) = {}
  PROVE  \A s \in Slots : ddir[s].name # n
BY DEF Found, Matches

\* The same for the operations that begin alike.
LEMMA LateCall ==
  ASSUME IInv, Idle, NEW j \in Slots, NEW e \in Entry, NEW h, h = fat',
         Fits(ddir, j, e),
         FatOK(h), Others(fat, h, ddir, j), Full(h, e),
         OnlyCut(fat, h, e.start),
         NEW d2, d2 = Changed(ddir, j, e),
         NEW ns, ddir[j].name \in ns \cup {None},
         NEW nm \in Names, NEW res \in Contents,
         Start(ns, d2, Late, nm, res),
         Yields(h, ddata, e, nm, res), Change(ddir[j], e, nm, res),
         UNCHANGED card
  PROVE  IInv'
<1>1. dirents' = Changed(ddir, j, e) /\ todo' = Late
  BY DEF Start
<1>2. acked' = [n \in Names |-> IF n \in ns THEN None ELSE acked[n]]
  BY DEF Start
<1>3. job' \in Jobs /\ job'.sec = 0 /\ job'.name = nm /\ job'.result = res
  <2>1. job' = JobFor(nm, res)
    BY DEF Start, JobFor
  <2>2. QED
    BY <2>1, JobFields
<1>4. QED
  BY <1>1, <1>2, <1>3, LateStart

\* fat32_create.
LEMMA CreateInv ==
  ASSUME IInv, Dotless = {}, NEW n \in Names, Create(n)
  PROVE  IInv'
<1>1. Idle /\ Found(n) = {} /\ UNCHANGED card
  BY DEF Create
<1>2. CASE FreeSlots = {}
  <2>1. UNCHANGED <<fat, dirents, todo, job, acked>>
    BY <1>2 DEF Create, Fail
  <2>2. QED
    BY <1>1, <2>1, NothingInv
<1>3. CASE FreeSlots # {}
  <2>1. PICK j : j = Min(FreeSlots)
    OBVIOUS
  <2>2. j \in Slots /\ ddir[j].name = None
    <3>1. FreeSlots \subseteq Nat
      BY FatAssumption DEF FreeSlots, Slots
    <3>2. j \in FreeSlots
      BY <1>3, <2>1, <3>1, MinIn
    <3>3. QED
      BY <3>2 DEF FreeSlots
  <2>3. PICK e : e = [NoEntry EXCEPT !.name = n]
    OBVIOUS
  <2>4. e \in Entry /\ e.name = n /\ e.start = 0 /\ e.size = 0
    BY <2>3 DEF NoEntry, Entry
  <2>5. PICK d2 : d2 = Changed(ddir, j, e)
    OBVIOUS
  <2>6. PICK res : res = << >>
    OBVIOUS
  <2>7. PICK ns : ns = {n}
    OBVIOUS
  <2>8. Start(ns, d2, Late, n, res) /\ fat' = fat
    BY <1>3, <2>1, <2>3, <2>5, <2>6, <2>7 DEF Create, Changed, Late
  <2>9. res \in Contents /\ ddir[j].name \in ns \cup {None}
    BY <2>2, <2>6 DEF Contents
  <2>10. Fits(ddir, j, e)
    BY <1>1, <2>4, NoOther DEF Fits, NameFree
  <2>11. Full(fat, e) /\ Yields(fat, ddata, e, n, res)
    BY <2>4, <2>6, EmptyFile DEF Yields
  <2>12. Others(fat, fat, ddir, j) /\ OnlyCut(fat, fat, e.start) /\ FatOK(fat)
    BY <1>1, SameFat, IdleFacts
  <2>13. PICK h : h = fat'
    OBVIOUS
  <2>14. /\ FatOK(h) /\ Others(fat, h, ddir, j) /\ Full(h, e)
         /\ OnlyCut(fat, h, e.start) /\ Yields(h, ddata, e, n, res)
    BY <2>8, <2>11, <2>12, <2>13
  <2>15. Change(ddir[j], e, n, res)
    BY <2>2, <2>4, FatAssumption DEF Change
  <2>16. QED
    BY <1>1, <2>2, <2>4, <2>5, <2>8, <2>9, <2>10, <2>13, <2>14, <2>15, LateCall
<1>4. QED
  BY <1>2, <1>3

\* A card shows an acknowledged file under its name.
LEMMA AckedIs ==
  ASSUME IInv, Idle, NEW n \in Names, NEW j \in Slots, ddir[j].name = n, acked[n] # None
  PROVE  ContentOf(fat, ddata, ddir[j]) = acked[n]
<1>1. PICK s \in Slots : ddir[s].name = n /\ ContentOf(dfat, ddata, ddir[s]) = acked[n]
  BY DEF IInv, AckedOK
<1>2. dfat = fat /\ Good(fat, ddir) /\ n # None
  BY IdleFacts, FatAssumption
<1>3. s = j
  BY <1>1, <1>2 DEF Good
<1>4. QED
  BY <1>1, <1>2, <1>3

\* Changes to one file's clusters are not seen by the others.
LEMMA ApartFrom ==
  ASSUME NEW f, NEW h, NEW d, FatOK(f), Good(f, d), NEW j \in Slots, d[j].start # 0,
         \A x \in 0 .. NEntries - 1 : x \notin Chain(f, d[j].start) => h[x] = f[x]
  PROVE  Others(f, h, d, j)
<1>1. ASSUME NEW s \in Slots, s # j, d[s].start # 0, NEW x \in Chain(f, d[s].start)
      PROVE  h[x] = f[x]
  <2>1. x \in 0 .. NEntries - 1
    BY <1>1, GoodFile
  <2>2. x \notin Chain(f, d[j].start)
    BY <1>1, GoodFile
  <2>3. QED
    BY <2>1, <2>2
<1>2. QED
  BY <1>1 DEF Others, Agree

\* Freeing a chain leaves every other one alone.
LEMMA FreedChain ==
  ASSUME NEW f, NEW c, FatOK(f), NEW h, h = FreeChain(f, c)
  PROVE  /\ FatOK(h)
         /\ \A x \in 0 .. NEntries - 1 : x \notin Chain(f, c) => h[x] = f[x]
<1>1. h = [x \in 0 .. NEntries - 1 |-> IF x \in Chain(f, c) THEN FREE ELSE f[x]]
  BY DEF FreeChain, FatOK
<1>2. FREE \in 0 .. NEntries
  BY FatAssumption DEF FREE
<1>3. DataClusters \subseteq 0 .. NEntries - 1
  BY FatAssumption DEF DataClusters
<1>4. h \in [0 .. NEntries - 1 -> 0 .. NEntries]
  BY <1>1, <1>2 DEF FatOK
<1>5. ASSUME NEW x \in DataClusters PROVE h[x] = FREE \/ x < h[x]
  BY <1>1, <1>3, <1>5 DEF FatOK
<1>6. QED
  BY <1>1, <1>4, <1>5 DEF FatOK

\* fat32_delete: the chain is free in memory, on the card only after the entry.
LEMMA DeleteInv ==
  ASSUME IInv, NEW n \in Names, Delete(n)
  PROVE  IInv'
<1>1. Idle /\ Found(n) # {} /\ UNCHANGED card
  BY DEF Delete
<1>2. PICK j : j = Slot(n)
  OBVIOUS
<1>3. j \in Slots /\ ddir[j].name = n
  BY <1>1, <1>2, SlotIs
<1>4. FatOK(fat) /\ Good(fat, ddir)
  BY <1>1, IdleFacts
<1>5. CASE ddir[j].start >= 2 /\ ~Ends(fat, ddir[j].start)
  <2>1. UNCHANGED <<fat, dirents, todo, job, acked>>
    BY <1>2, <1>5 DEF Delete, Fail
  <2>2. QED
    BY <1>1, <2>1, NothingInv
<1>6. CASE ~(ddir[j].start >= 2 /\ ~Ends(fat, ddir[j].start))
  <2>1. PICK h : h = fat'
    OBVIOUS
  <2>2. PICK e : e = NoEntry
    OBVIOUS
  <2>3. PICK d2 : d2 = Changed(ddir, j, e)
    OBVIOUS
  <2>4. PICK ns : ns = {n}
    OBVIOUS
  <2>5. PICK st : st = ddir[j].start
    OBVIOUS
  <2>6. /\ h = IF st >= 2 THEN FreeChain(fat, st) ELSE fat
        /\ Start(ns, d2, Late, n, None)
    BY <1>2, <1>6, <2>1, <2>2, <2>3, <2>4, <2>5 DEF Delete, Changed, Late
  <2>7. e \in Entry /\ e.name = None /\ e.start = 0 /\ e.size = 0
    BY <2>2 DEF NoEntry, Entry
  <2>8. Fits(ddir, j, e)
    BY <2>7 DEF Fits, NameFree
  <2>9. FatOK(h) /\ Others(fat, h, ddir, j)
    <3>1. CASE st >= 2
      <4>1. st # 0
        BY <3>1
      <4>2. FatOK(h) /\ \A x \in 0 .. NEntries - 1 : x \notin Chain(fat, st) => h[x] = fat[x]
        BY <1>4, <2>6, <3>1, FreedChain
      <4>3. QED
        BY <1>3, <1>4, <2>5, <4>1, <4>2, ApartFrom
    <3>2. CASE ~(st >= 2)
      BY <1>4, <2>6, <3>2, SameFat
    <3>3. QED
      BY <3>1, <3>2
  <2>10. Full(h, e) /\ OnlyCut(fat, h, e.start) /\ Yields(h, ddata, e, n, None)
    BY <2>7, EmptyFile DEF OnlyCut, Yields
  <2>11. None \in Contents /\ ddir[j].name \in ns \cup {None}
    BY <1>3, <2>4 DEF Contents
  <2>12. Change(ddir[j], e, n, None)
    BY <1>3, <2>7, FatAssumption DEF Change
  <2>13. QED
    BY <1>1, <1>3, <2>1, <2>3, <2>6, <2>7, <2>8, <2>9, <2>10, <2>11, <2>12, LateCall
<1>7. QED
  BY <1>5, <1>6

\* fat32_rename.
LEMMA RenameInv ==
  ASSUME IInv, Dotless = {}, "rename_onto" \notin uses,
         NEW old \in Names, NEW new \in Names, Rename(old, new)
  PROVE  IInv'
<1>1. /\ Idle /\ Found(old) # {} /\ Found(new) = {} /\ UNCHANGED card
  BY DEF Rename
<1>2. PICK j : j = Slot(old)
  OBVIOUS
<1>3. j \in Slots /\ ddir[j].name = old
  BY <1>1, <1>2, SlotIs
<1>4. /\ FatOK(fat) /\ Good(fat, ddir) /\ Full(fat, ddir[j])
      /\ ddir \in [Slots -> Entry] /\ acked \in [Names -> Contents]
  BY <1>1, <1>3, IdleFacts
<1>5. PICK h : h = fat'
  OBVIOUS
<1>6. PICK e : e = [ddir[j] EXCEPT !.name = new]
  OBVIOUS
<1>7. PICK d2 : d2 = Changed(ddir, j, e)
  OBVIOUS
<1>8. PICK ns : ns = {old, new}
  OBVIOUS
<1>9. PICK res : res = acked[old]
  OBVIOUS
<1>10. d2 = [ddir EXCEPT ![j].name = new]
  BY <1>3, <1>4, <1>6, <1>7 DEF Changed
<1>11. h = fat /\ Start(ns, d2, Late, new, res)
  BY <1>2, <1>5, <1>8, <1>9, <1>10 DEF Rename, Late
<1>12. ddir[j] \in Entry
  BY <1>3, <1>4
<1>13. e \in Entry /\ e.name = new /\ e.start = ddir[j].start /\ e.size = ddir[j].size
  BY <1>6, <1>12 DEF Entry
<1>14. Fits(ddir, j, e)
  <2>1. new # None /\ NameFree(ddir, j, new)
    BY <1>1, NoOther, FatAssumption DEF NameFree
  <2>2. QED
    BY <1>3, <1>4, <1>13, <2>1 DEF Fits, Good
<1>15. FatOK(h) /\ Others(fat, h, ddir, j) /\ OnlyCut(fat, h, e.start)
  BY <1>4, <1>11, SameFat
<1>16. Full(h, e)
  BY <1>4, <1>11, <1>13 DEF Full
<1>17. Yields(h, ddata, e, new, res)
  <2>1. acked[old] # None => ContentOf(fat, ddata, ddir[j]) = acked[old]
    BY <1>1, <1>3, AckedIs
  <2>2. ContentOf(fat, ddata, ddir[j]) = ContentOf(h, ddata, e)
    BY <1>11, <1>13 DEF ContentOf
  <2>3. QED
    BY <1>9, <1>13, <2>1, <2>2 DEF Yields
<1>18. res \in Contents /\ ddir[j].name \in ns \cup {None}
  BY <1>3, <1>4, <1>8, <1>9
<1>19. Change(ddir[j], e, new, res)
  <2>1. old # new
    BY DEF Rename
  <2>2. QED
    BY <1>3, <1>13, <2>1, FatAssumption DEF Change
<1>20. QED
  BY <1>1, <1>3, <1>5, <1>7, <1>11, <1>13, <1>14, <1>15, <1>16, <1>17, <1>18, <1>19, LateCall

\* Truncate's loop over the chain, for the file that starts at c.
Truncated(f, c, len) ==
  [x \in DOMAIN f |-> CASE \E k \in len .. NEntries : Nth(f, c)[k] = x -> FREE
                        [] \E k \in 0 .. NEntries : Nth(f, c)[k] = x /\ k + 1 = len -> LAST
                        [] OTHER -> f[x]]

\* Cutting a chain at its first len clusters.
LEMMA CutChain ==
  ASSUME NEW f, NEW c, FatOK(f), Sound(f, c), NEW len \in Nat, len > 0, len <= NEntries,
         \A k \in 0 .. len - 1 : Nth(f, c)[k] \in DataClusters,
         NEW h, h = Truncated(f, c, len)
  PROVE  /\ FatOK(h)
         /\ \A x \in 0 .. NEntries - 1 : x \notin Chain(f, c) => h[x] = f[x]
         /\ \A k \in 0 .. len - 1 : Nth(h, c)[k] = Nth(f, c)[k]
         /\ OnlyCut(f, h, c)
<1>1. PICK g : g = Nth(f, c)
  OBVIOUS
<1>2. NEntries \in Nat /\ NEntries > 3 /\ LAST = NEntries /\ FREE = 0
  BY FatAssumption DEF LAST, FREE
<1>3. h = [x \in 0 .. NEntries - 1 |->
             CASE \E k \in len .. NEntries : g[k] = x -> FREE
               [] \E k \in 0 .. NEntries : g[k] = x /\ k + 1 = len -> LAST
               [] OTHER -> f[x]]
  BY <1>1 DEF Truncated, FatOK
<1>4. ASSUME NEW x \in 0 .. NEntries - 1 PROVE h[x] \in {FREE, LAST, f[x]}
  BY <1>3, <1>4
<1>5. FatOK(h)
  <2>1. \A x \in 0 .. NEntries - 1 : h[x] \in 0 .. NEntries
    BY <1>2, <1>4 DEF FatOK
  <2>2. h \in [0 .. NEntries - 1 -> 0 .. NEntries]
    BY <1>3, <2>1
  <2>3. ASSUME NEW x \in DataClusters PROVE h[x] = FREE \/ x < h[x]
    <3>1. x \in 0 .. NEntries - 1 /\ x \in Nat /\ x < NEntries
      BY <1>2 DEF DataClusters
    <3>2. QED
      BY <1>2, <1>4, <3>1 DEF FatOK
  <2>4. QED
    BY <2>2, <2>3 DEF FatOK
<1>6. ASSUME NEW k \in 0 .. NEntries, g[k] # LAST PROVE g[k] \in Chain(f, c)
  BY <1>1, <1>6, InChain
<1>7. ASSUME NEW x \in 0 .. NEntries - 1, x \notin Chain(f, c) PROVE h[x] = f[x]
  <2>1. \A k \in 0 .. NEntries : g[k] # x
    BY <1>2, <1>6, <1>7
  <2>2. \A k \in len .. NEntries : g[k] # x
    BY <2>1
  <2>3. QED
    BY <1>3, <2>1, <2>2
<1>8. ASSUME NEW k \in 0 .. len - 1
      PROVE  /\ k \in 0 .. NEntries /\ k \in Nat
             /\ g[k] \in DataClusters /\ g[k] # LAST /\ g[k] \in 0 .. NEntries - 1 /\ g[k] \in Nat
             /\ \A m \in 0 .. NEntries : k < m => g[m] # g[k]
  <2>1. k \in 0 .. NEntries /\ k \in Nat
    BY <1>2
  <2>2. g[k] \in DataClusters
    BY <1>1
  <2>3. g[k] # LAST /\ g[k] \in 0 .. NEntries - 1 /\ g[k] \in Nat
    BY <1>2, <2>2 DEF DataClusters
  <2>4. ASSUME NEW m \in 0 .. NEntries, k < m PROVE g[m] # g[k]
    <3>1. g[m] # LAST => g[k] < g[m]
      BY <1>1, <2>1, <2>4, StrictlyUp
    <3>2. QED
      BY <2>3, <3>1
  <2>5. QED
    BY <2>1, <2>2, <2>3, <2>4
<1>9. ASSUME NEW k \in 0 .. len - 1
      PROVE  h[g[k]] = IF k + 1 = len THEN LAST ELSE f[g[k]]
  <2>1. \A m \in len .. NEntries : g[m] # g[k]
    <3>1. \A m \in len .. NEntries : m \in 0 .. NEntries /\ k < m
      BY <1>2
    <3>2. QED
      BY <1>8, <3>1
  <2>2. CASE k + 1 = len
    BY <1>3, <1>8, <2>1, <2>2
  <2>3. CASE k + 1 # len
    <3>1. \A m \in 0 .. NEntries : m + 1 = len => k < m
      BY <1>2, <2>3
    <3>2. ~ \E m \in 0 .. NEntries : g[m] = g[k] /\ m + 1 = len
      BY <1>8, <3>1
    <3>3. QED
      BY <1>3, <1>8, <2>1, <2>3, <3>2
  <2>4. QED
    BY <2>2, <2>3
<1>10. \A k \in 0 .. len - 1 : Nth(h, c)[k] = g[k]
  <2>1. len - 1 \in 0 .. NEntries
    BY <1>2
  <2>2. ASSUME NEW k \in 0 .. (len - 1) - 1 PROVE h[g[k]] = f[g[k]]
    <3>1. k \in 0 .. len - 1 /\ k + 1 # len
      BY <2>2
    <3>2. QED
      BY <1>9, <3>1
  <2>3. QED
    BY <1>1, <2>1, <2>2, ChainAgrees
<1>11. PICK S : S = {g[k] : k \in 0 .. len - 1}
  OBVIOUS
<1>12. Chain(h, c) \subseteq S
  <2>1. c \in S
    BY <1>1, <1>11, NthStep
  <2>2. ASSUME NEW x \in S PROVE h[x] \in S \cup {LAST}
    <3>1. PICK k \in 0 .. len - 1 : x = g[k]
      BY <1>11, <2>2
    <3>2. CASE k + 1 = len
      BY <1>9, <3>1, <3>2
    <3>3. CASE k + 1 # len
      <4>1. k + 1 \in 0 .. len - 1 /\ k \in 0 .. NEntries - 1
        BY <1>2, <3>3
      <4>2. g[k+1] = f[g[k]]
        BY <1>1, <1>8, <4>1, NthStep
      <4>3. h[x] = g[k+1]
        BY <1>9, <3>1, <3>3, <4>2
      <4>4. QED
        BY <1>11, <4>1, <4>3
    <3>4. QED
      BY <3>2, <3>3
  <2>3. QED
    BY <2>1, <2>2, ChainWithin
<1>13. S \subseteq Chain(f, c)
  BY <1>6, <1>8, <1>11
<1>14. Longer(h, f, c)
  <2>1. ASSUME NEW x \in S PROVE f[x] = h[x] \/ h[x] = LAST
    BY <1>9, <1>11, <2>1
  <2>2. QED
    BY <1>12, <2>1 DEF Longer
<1>15. QED
  BY <1>1, <1>5, <1>7, <1>10, <1>12, <1>13, <1>14 DEF OnlyCut

\* fat32_truncate: on the card the chain keeps what it loses in memory until the
\* FAT is stored.
LEMMA TruncateInv ==
  ASSUME IInv, "truncate_zero" \notin uses, "truncate_grow" \notin uses,
         NEW n \in Names, NEW len \in 0 .. MaxLen, Truncate(n, len)
  PROVE  IInv'
<1>1. Idle /\ Found(n) # {} /\ UNCHANGED card
  BY DEF Truncate
<1>2. PICK j : j = Slot(n)
  OBVIOUS
<1>3. j \in Slots /\ ddir[j].name = n
  BY <1>1, <1>2, SlotIs
<1>4. /\ FatOK(fat) /\ Good(fat, ddir) /\ Full(fat, ddir[j])
      /\ ddir \in [Slots -> Entry] /\ acked \in [Names -> Contents]
      /\ ddata \in [Clusters -> Stored]
  BY <1>1, <1>3, IdleFacts
<1>5. PICK c : c = ddir[j].start
  OBVIOUS
<1>6. PICK h : h = fat'
  OBVIOUS
<1>7. PICK e : e = [ddir[j] EXCEPT !.size = len]
  OBVIOUS
<1>8. PICK d2 : d2 = Changed(ddir, j, e)
  OBVIOUS
<1>9. PICK ns : ns = {n}
  OBVIOUS
<1>10. PICK res : res = Cut(acked[n], len)
  OBVIOUS
<1>11. ddir[j] \in Entry
  BY <1>3, <1>4
<1>12. e \in Entry /\ e.name = n /\ e.start = c /\ e.size = len /\ len \in Nat
  BY <1>3, <1>5, <1>7, <1>11, FatAssumption DEF Entry
<1>13. len > 0 /\ len <= ddir[j].size /\ ddir[j].size \in Nat
  BY <1>2, <1>11, <1>12 DEF Truncate, Entry
<1>14. c # 0 /\ Sound(fat, c) /\ Ends(fat, c)
  <2>1. ddir[j].size # 0
    BY <1>12, <1>13
  <2>2. c # 0
    BY <1>3, <1>4, <1>5, <2>1 DEF Good
  <2>3. QED
    BY <1>3, <1>4, <1>5, <2>2, GoodFile, SoundChain
<1>15. d2 = [ddir EXCEPT ![j].size = len]
  BY <1>3, <1>4, <1>7, <1>8 DEF Changed
<1>16. h = Truncated(fat, c, len) /\ Start(ns, d2, Late, n, res)
  BY <1>2, <1>5, <1>6, <1>9, <1>10, <1>14, <1>15 DEF Truncate, Truncated, Late
<1>17. /\ len <= NEntries
       /\ \A k \in 0 .. len - 1 : Nth(fat, c)[k] \in DataClusters
  BY <1>4, <1>5, <1>12, <1>13, FatAssumption DEF Full
<1>18. FatOK(h)
  BY <1>4, <1>12, <1>13, <1>14, <1>16, <1>17, CutChain
<1>19. \A x \in 0 .. NEntries - 1 : x \notin Chain(fat, c) => h[x] = fat[x]
  BY <1>4, <1>12, <1>13, <1>14, <1>16, <1>17, CutChain
<1>20. \A k \in 0 .. len - 1 : Nth(h, c)[k] = Nth(fat, c)[k]
  BY <1>4, <1>12, <1>13, <1>14, <1>16, <1>17, CutChain
<1>21. OnlyCut(fat, h, e.start)
  BY <1>4, <1>12, <1>13, <1>14, <1>16, <1>17, CutChain
<1>22. Others(fat, h, ddir, j)
  BY <1>3, <1>4, <1>5, <1>14, <1>19, ApartFrom
<1>23. Full(h, e)
  BY <1>12, <1>17, <1>20 DEF Full
<1>24. Fits(ddir, j, e)
  <2>1. NameFree(ddir, j, n)
    BY <1>3, <1>4, FatAssumption DEF NameFree, Good
  <2>2. QED
    BY <1>3, <1>5, <1>12, <1>14, <2>1, FatAssumption DEF Fits
<1>25. res \in Contents /\ Yields(h, ddata, e, n, res)
  <2>1. CASE acked[n] = None
    BY <1>10, <2>1 DEF Cut, Yields, Contents
  <2>2. CASE acked[n] # None
    <3>1. PICK s : s = ContentOf(fat, ddata, ddir[j])
      OBVIOUS
    <3>2. s = acked[n]
      BY <1>1, <1>3, <2>2, <3>1, AckedIs
    <3>3. s \in Seq(Stored) /\ Len(s) = ddir[j].size
      BY <1>4, <1>11, <3>1, ContentIn
    <3>4. res = SubSeq(s, 1, len)
      BY <1>10, <1>13, <2>2, <3>2, <3>3 DEF Cut
    <3>5. ContentOf(h, ddata, e) \in Seq(Stored) /\ Len(ContentOf(h, ddata, e)) = len
      BY <1>4, <1>12, ContentIn
    <3>6. ASSUME NEW k \in 1 .. len
          PROVE  ContentOf(h, ddata, e)[k] = s[k]
      <4>1. k - 1 \in 0 .. len - 1 /\ k \in 1 .. ddir[j].size
        BY <1>12, <1>13
      <4>2. Nth(h, c)[k-1] = Nth(fat, c)[k-1]
        BY <1>20, <4>1
      <4>3. QED
        BY <1>5, <1>12, <3>1, <4>1, <4>2 DEF ContentOf
    <3>7. res \in Seq(Stored) /\ Len(res) = len /\ \A k \in 1 .. len : res[k] = s[k]
      BY <1>12, <1>13, <3>3, <3>4
    <3>8. ContentOf(h, ddata, e) = res
      BY <1>12, <3>5, <3>6, <3>7
    <3>9. QED
      BY <1>12, <3>7, <3>8 DEF Yields, Contents
  <2>3. QED
    BY <2>1, <2>2
<1>26. ddir[j].name \in ns \cup {None}
  BY <1>3, <1>9
<1>27. Change(ddir[j], e, n, res)
  <2>1. e.size \in 1 .. ddir[j].size
    BY <1>12, <1>13
  <2>2. QED
    BY <1>3, <1>5, <1>12, <2>1, FatAssumption DEF Change
<1>28. QED
  BY <1>1, <1>3, <1>6, <1>8, <1>12, <1>16, <1>18, <1>21, <1>22, <1>23, <1>24, <1>25, <1>26,
     <1>27, LateCall

-----------------------------------------------------------------------------
(* Writing a file. *)

\* The clusters of the file in slot j; a FAT that differs only in the set S.
Own(f, d, j)   == {y \in Chain(f, d[j].start) : d[j].start # 0}
Apart(f, h, S) == \A y \in 0 .. NEntries - 1 : y \notin S => h[y] = f[y]

\* The chain of the file in slot j grows by the cluster x.
LEMMA Grown ==
  ASSUME NEW f, NEW h, NEW d, FatOK(f), Good(f, d), NEW j \in Slots, NEW e \in Entry,
         e.name # None, NameFree(d, j, e.name),
         NEW x \in DataClusters, f[x] = FREE,
         NEW own, own = Own(f, d, j) \cup {x},
         Apart(f, h, own),
         e.start \in DataClusters, Chain(h, e.start) \subseteq own,
         NEW d2, d2 = Changed(d, j, e)
  PROVE  Good(h, d2) /\ Others(f, h, d, j)
<1>1. d \in [Slots -> Entry] /\ 0 \notin DataClusters
  BY FatAssumption DEF Good, DataClusters
<1>2. d2 \in [Slots -> Entry] /\ d2[j] = e /\ \A s \in Slots : s # j => d2[s] = d[s]
  BY <1>1 DEF Changed
<1>3. own \subseteq DataClusters
  BY GoodFile DEF Own
<1>4. ASSUME NEW s \in Slots, s # j, d[s].start # 0
      PROVE  Agree(f, h, d[s].start) /\ Chain(f, d[s].start) \cap own = {}
  <2>1. ASSUME NEW y \in Chain(f, d[s].start)
        PROVE  y \in 0 .. NEntries - 1 /\ y \notin own
    <3>1. y \in 0 .. NEntries - 1 /\ y # x
      BY <1>4, <2>1, GoodFile
    <3>2. y \notin Own(f, d, j)
      BY <1>4, <2>1, GoodFile DEF Own
    <3>3. QED
      BY <3>1, <3>2
  <2>2. QED
    BY <2>1 DEF Agree, Apart
<1>5. ASSUME NEW s \in Slots, s # j, d2[s].start # 0
      PROVE  /\ Sound(h, d2[s].start) /\ Chain(h, d2[s].start) = Chain(f, d[s].start)
             /\ Chain(h, d2[s].start) \cap Chain(h, e.start) = {}
  <2>1. d2[s] = d[s] /\ Chain(h, d[s].start) = Chain(f, d[s].start)
    BY <1>2, <1>4, <1>5, SameChain
  <2>2. Sound(h, d2[s].start)
    BY <1>5, <2>1 DEF Good, Sound
  <2>3. QED
    BY <1>4, <1>5, <2>1, <2>2
<1>6. Sound(h, e.start)
  BY <1>3 DEF Sound
<1>7. ASSUME NEW s \in Slots
      PROVE  /\ d2[s].name = None => d2[s].start = 0
             /\ d2[s].start = 0 => d2[s].size = 0
             /\ d2[s].start # 0 => Sound(h, d2[s].start)
  <2>1. CASE s = j
    BY <1>1, <1>2, <1>6, <2>1
  <2>2. CASE s # j
    BY <1>2, <1>5, <2>2 DEF Good
  <2>3. QED
    BY <2>1, <2>2
<1>8. ASSUME NEW s \in Slots, NEW t \in Slots, s # t
      PROVE  /\ d2[s].name # None => d2[s].name # d2[t].name
             /\ d2[s].start # 0 /\ d2[t].start # 0 =>
                  Chain(h, d2[s].start) \cap Chain(h, d2[t].start) = {}
  <2>1. CASE s = j
    BY <1>2, <1>5, <1>8, <2>1 DEF NameFree
  <2>2. CASE t = j
    BY <1>2, <1>5, <1>8, <2>2 DEF NameFree
  <2>3. CASE s # j /\ t # j
    <3>1. d2[s] = d[s] /\ d2[t] = d[t]
      BY <1>2, <2>3
    <3>2. d2[s].name # None => d2[s].name # d2[t].name
      BY <1>8, <3>1 DEF Good
    <3>3. d2[s].start # 0 /\ d2[t].start # 0 =>
            Chain(h, d2[s].start) \cap Chain(h, d2[t].start) = {}
      <4>1. d[s].start # 0 /\ d[t].start # 0 => Chain(f, d[s].start) \cap Chain(f, d[t].start) = {}
        BY <1>8 DEF Good
      <4>2. QED
        BY <1>5, <2>3, <3>1, <4>1
    <3>4. QED
      BY <3>2, <3>3
  <2>4. QED
    BY <2>1, <2>2, <2>3
<1>9. Good(h, d2)
  BY <1>2, <1>7, <1>8 DEF Good
<1>10. QED
  BY <1>4, <1>9 DEF Others

\* The job of a write.
WriteJob(c, len, p, n) ==
  [NoJob EXCEPT !.cur = c, !.left = len, !.payload = p, !.name = n, !.result = Blocks(len, p)]

\* The job of fat32_write.
LEMMA WriteJobFields ==
  ASSUME NEW c \in Nat, NEW len \in Nat, NEW p \in Payloads, NEW n \in Names,
         NEW r, r = WriteJob(c, len, p, n)
  PROVE  /\ r \in Jobs /\ r.sec = 0 /\ r.name = n /\ r.result = Blocks(len, p)
         /\ r.cur = c /\ r.left = len /\ r.pos = 0 /\ r.payload = p
         /\ Blocks(len, p) \in Contents
<1>1. PICK b : b = Blocks(len, p)
  OBVIOUS
<1>2. b \in Contents
  <2>1. \A k \in 1 .. len : <<p, k>> \in Stored
    BY DEF Stored
  <2>2. b \in [1 .. len -> Stored]
    BY <1>1, <2>1 DEF Blocks
  <2>3. b \in Seq(Stored)
    BY <2>2
  <2>4. QED
    BY <2>3 DEF Contents
<1>3. NoJob \in Jobs /\ NoJob.sec = 0 /\ NoJob.pos = 0
  BY DEF NoJob, Jobs, Contents
<1>4. PICK q1 : q1 = [NoJob EXCEPT !.cur = c]
  OBVIOUS
<1>5. q1 \in Jobs /\ q1.sec = 0 /\ q1.pos = 0 /\ q1.cur = c
  BY <1>3, <1>4 DEF Jobs
<1>6. PICK q2 : q2 = [q1 EXCEPT !.left = len]
  OBVIOUS
<1>7. q2 \in Jobs /\ q2.sec = 0 /\ q2.pos = 0 /\ q2.cur = c /\ q2.left = len
  BY <1>5, <1>6 DEF Jobs
<1>8. PICK q3 : q3 = [q2 EXCEPT !.payload = p]
  OBVIOUS
<1>9. q3 \in Jobs /\ q3.sec = 0 /\ q3.pos = 0 /\ q3.cur = c /\ q3.left = len /\ q3.payload = p
  BY <1>7, <1>8 DEF Jobs
<1>10. r = [q3 EXCEPT !.name = n, !.result = b]
  BY <1>1, <1>4, <1>6, <1>8 DEF WriteJob
<1>11. r = [cur |-> c, left |-> len, pos |-> 0, payload |-> p, sec |-> 0, name |-> n, result |-> b]
  BY <1>9, <1>10 DEF Jobs
<1>12. QED
  BY <1>1, <1>2, <1>11 DEF Jobs

\* The call of fat32_write on a file without clusters, but for its panic.
WriteStart(n, len, p, j, first, h, todoNew) ==
  /\ fat' = h
  /\ dirents' = Changed(ddir, j, [ddir[j] EXCEPT !.size = len, !.start = first])
  /\ todo' = todoNew
  /\ job' = WriteJob(first, len, p, n)
  /\ acked' = [m \in Names |-> IF m \in {n} THEN None ELSE acked[m]]
  /\ UNCHANGED card

\* The cases of fat32_write.
LEMMA WriteCases ==
  ASSUME Idle, ddir \in [Slots -> Entry], acked \in [Names -> Contents],
         NEW n \in Names, NEW len \in 0 .. MaxLen, NEW p \in Payloads,
         Found(n) # {}, Write(n, len, p),
         NEW j, j = Slot(n), NEW first, first = Min(FreeFrom(fat, 3))
  PROVE  \/ /\ ddir[j].start = 0 /\ len > 0 /\ FreeFrom(fat, 3) = {}
            /\ UNCHANGED <<fat, dirents, todo, job, acked, card>>
         \/ /\ ddir[j].start = 0 /\ len > 0 /\ FreeFrom(fat, 3) # {}
            /\ WriteStart(n, len, p, j, first, [fat EXCEPT ![first] = LAST], Data)
            /\ UNCHANGED fault
         \/ /\ ddir[j].start # 0 \/ len = 0
            /\ WriteStart(n, len, p, j, ddir[j].start, fat, IF len > 0 THEN Data ELSE Late)
            /\ UNCHANGED fault
<1>1. UNCHANGED card
  BY DEF Write
<1>2. j \in Slots
  BY SlotIs
<1>3. [acked EXCEPT ![n] = None] = [m \in Names |-> IF m \in {n} THEN None ELSE acked[m]]
  BY <1>2
<1>4. \A z : [ddir EXCEPT ![j].size = len, ![j].start = z]
               = Changed(ddir, j, [ddir[j] EXCEPT !.size = len, !.start = z])
  BY <1>2 DEF Changed
<1>5. << >> \o <<"dir", "fat">> = Late /\ <<"data", "fat">> \o <<"dir", "fat">> = Data
  <2>1. << >> \o <<"dir", "fat">> = Late
    BY DEF Late
  <2>2. <<"data", "fat">> \o <<"dir", "fat">> = Data
    <3>1. PICK S : S = {"data", "fat", "dir"}
      OBVIOUS
    <3>2. PICK q : q = <<"data", "fat">>
      OBVIOUS
    <3>3. PICK r : r = <<"dir", "fat">>
      OBVIOUS
    <3>4. q \in Seq(S) /\ Len(q) = 2 /\ q[1] = "data" /\ q[2] = "fat"
      BY <3>1, <3>2
    <3>5. r \in Seq(S) /\ Len(r) = 2 /\ r[1] = "dir" /\ r[2] = "fat"
      BY <3>1, <3>3
    <3>6. /\ q \o r \in Seq(S) /\ Len(q \o r) = 4
          /\ (q \o r)[1] = q[1] /\ (q \o r)[2] = q[2]
          /\ (q \o r)[3] = r[1] /\ (q \o r)[4] = r[2]
      <4>1. /\ q \o r \in Seq(S) /\ Len(q \o r) = Len(q) + Len(r)
            /\ \A i \in 1 .. Len(q) + Len(r) :
                 (q \o r)[i] = IF i <= Len(q) THEN q[i] ELSE r[i - Len(q)]
        BY <3>4, <3>5, ConcatProperties
      <4>2. Len(q) = 2 /\ Len(r) = 2
        BY <3>4, <3>5
      <4>3. QED
        BY <4>1, <4>2
    <3>7. /\ Data \in Seq(S) /\ Len(Data) = 4
          /\ Data[1] = "data" /\ Data[2] = "fat" /\ Data[3] = "dir" /\ Data[4] = "fat"
      BY <3>1 DEF Data
    <3>8. q \o r = Data
      BY <3>4, <3>5, <3>6, <3>7
    <3>9. QED
      BY <3>2, <3>3, <3>8
  <2>3. QED
    BY <2>1, <2>2
<1>6. len \in Nat /\ (len = 0 \/ len > 0)
  BY FatAssumption
<1>7. CASE ddir[j].start = 0 /\ len > 0 /\ FreeFrom(fat, 3) = {}
  <2>1. UNCHANGED <<fat, dirents, todo, job, acked>>
    BY <1>7 DEF Write, Fail
  <2>2. QED
    BY <1>1, <1>7, <2>1
<1>8. CASE ddir[j].start = 0 /\ len > 0 /\ FreeFrom(fat, 3) # {}
  <2>1. fat' = [fat EXCEPT ![first] = LAST] /\ UNCHANGED fault
    BY <1>8 DEF Write
  <2>2. dirents' = Changed(ddir, j, [ddir[j] EXCEPT !.size = len, !.start = first])
    <3>1. dirents' = [ddir EXCEPT ![j].size = len, ![j].start = first]
      BY <1>8 DEF Write
    <3>2. QED
      BY <1>4, <3>1
  <2>3. todo' = Data
    <3>1. todo' = <<"data", "fat">> \o <<"dir", "fat">>
      BY <1>8 DEF Write
    <3>2. QED
      BY <1>5, <3>1
  <2>4. job' = WriteJob(first, len, p, n)
    BY <1>8 DEF Write, WriteJob, Blocks
  <2>5. acked' = [acked EXCEPT ![n] = None]
    BY <1>8 DEF Write
  <2>6. WriteStart(n, len, p, j, first, [fat EXCEPT ![first] = LAST], Data)
    BY <1>1, <1>3, <2>1, <2>2, <2>3, <2>4, <2>5 DEF WriteStart
  <2>7. QED
    BY <1>8, <2>1, <2>6
<1>9. CASE ddir[j].start # 0 \/ len = 0
  <2>1. ~(ddir[j].start = 0 /\ len > 0)
    BY <1>6, <1>9
  <2>2. PICK c : c = ddir[j].start
    OBVIOUS
  <2>3. fat' = fat /\ UNCHANGED fault
    BY <2>1 DEF Write
  <2>4. dirents' = Changed(ddir, j, [ddir[j] EXCEPT !.size = len, !.start = c])
    <3>1. dirents' = [ddir EXCEPT ![j].size = len, ![j].start = c]
      BY <2>1, <2>2 DEF Write
    <3>2. QED
      BY <1>4, <3>1
  <2>5. todo' = IF len > 0 THEN Data ELSE Late
    <3>1. todo' = (IF len > 0 THEN <<"data", "fat">> ELSE << >>) \o <<"dir", "fat">>
      BY <2>1 DEF Write
    <3>2. CASE len > 0
      BY <1>5, <3>1, <3>2
    <3>3. CASE ~(len > 0)
      BY <1>5, <3>1, <3>3
    <3>4. QED
      BY <3>2, <3>3
  <2>6. job' = WriteJob(c, len, p, n)
    BY <2>1, <2>2 DEF Write, WriteJob, Blocks
  <2>7. acked' = [acked EXCEPT ![n] = None]
    BY <2>1 DEF Write
  <2>8. WriteStart(n, len, p, j, c, fat, IF len > 0 THEN Data ELSE Late)
    BY <1>1, <1>3, <2>3, <2>4, <2>5, <2>6, <2>7 DEF WriteStart
  <2>9. QED
    BY <1>9, <2>2, <2>3, <2>8
<1>10. QED
  BY <1>6, <1>7, <1>8, <1>9

\* They are fewer for callers that write a file once.
LEMMA WriteForms ==
  ASSUME IInv, Idle, "overwrite" \notin uses,
         NEW n \in Names, NEW len \in 0 .. MaxLen, NEW p \in Payloads,
         Found(n) # {}, Write(n, len, p),
         NEW j, j = Slot(n), NEW first, first = Min(FreeFrom(fat, 3))
  PROVE  /\ ddir[j].start = 0
         /\ \/ len = 0 /\ WriteStart(n, len, p, j, 0, fat, Late)
            \/ len > 0 /\ FreeFrom(fat, 3) = {} /\ UNCHANGED <<fat, dirents, todo, job, acked, card>>
            \/ /\ len > 0 /\ FreeFrom(fat, 3) # {}
               /\ WriteStart(n, len, p, j, first, [fat EXCEPT ![first] = LAST], Data)
<1>1. ddir[j].start = 0
  BY DEF Write
<1>2. ddir \in [Slots -> Entry] /\ acked \in [Names -> Contents]
  BY IdleFacts
<1>3. len = 0 => ~(len > 0)
  OBVIOUS
<1>4. QED
  BY <1>1, <1>2, <1>3, WriteCases

\* A write of no blocks changes nothing.
LEMMA WriteNothingInv ==
  ASSUME IInv, Idle, NEW n \in Names, NEW p \in Payloads,
         NEW j \in Slots, ddir[j].name = n, ddir[j].start = 0,
         WriteStart(n, 0, p, j, 0, fat, Late)
  PROVE  IInv'
<1>1. /\ FatOK(fat) /\ Good(fat, ddir) /\ Full(fat, ddir[j]) /\ ddir \in [Slots -> Entry]
  BY IdleFacts
<1>2. PICK e : e = ddir[j]
  OBVIOUS
<1>3. e \in Entry /\ e.name = n /\ e.start = 0 /\ e.size = 0
  BY <1>1, <1>2 DEF Good
<1>4. [e EXCEPT !.size = 0, !.start = 0] = e
  BY <1>3 DEF Entry
<1>5. dirents' = Changed(ddir, j, e) /\ todo' = Late /\ UNCHANGED card
  BY <1>2, <1>4 DEF WriteStart
<1>6. PICK ns : ns = {n}
  OBVIOUS
<1>7. acked' = [m \in Names |-> IF m \in ns THEN None ELSE acked[m]]
  BY <1>6 DEF WriteStart
<1>8. PICK res : res = Blocks(0, p)
  OBVIOUS
<1>9. /\ job' \in Jobs /\ job'.sec = 0 /\ job'.name = n /\ job'.result = res /\ res \in Contents
  <2>1. job' = WriteJob(0, 0, p, n)
    BY DEF WriteStart
  <2>2. QED
    BY <1>8, <2>1, WriteJobFields
<1>10. PICK h : h = fat'
  OBVIOUS
<1>11. h = fat
  BY <1>10 DEF WriteStart
<1>12. FatOK(h) /\ Others(fat, h, ddir, j) /\ Full(h, e) /\ OnlyCut(fat, h, e.start)
  BY <1>1, <1>2, <1>11, SameFat
<1>13. Yields(h, ddata, e, n, res)
  <2>1. res = << >>
    <3>1. 1 .. 0 = {}
      OBVIOUS
    <3>2. QED
      BY <1>8, <3>1 DEF Blocks
  <2>2. QED
    BY <1>3, <2>1, EmptyFile DEF Yields
<1>14. Fits(ddir, j, e)
  BY <1>1, <1>2, <1>3, FatAssumption DEF Fits, NameFree, Good
<1>15. ddir[j].name \in ns \cup {None}
  BY <1>6
<1>16. Change(ddir[j], e, n, res)
  BY <1>2 DEF Change
<1>17. QED
  BY <1>3, <1>5, <1>7, <1>9, <1>10, <1>12, <1>13, <1>14, <1>15, <1>16, LateStart

\* A file gets its first cluster.
LEMMA WriteFreshInv ==
  ASSUME IInv, Idle, NEW n \in Names, NEW len \in 1 .. MaxLen, NEW p \in Payloads,
         NEW j \in Slots, ddir[j].name = n, ddir[j].start = 0,
         FreeFrom(fat, 3) # {}, NEW x, x = Min(FreeFrom(fat, 3)),
         WriteStart(n, len, p, j, x, [fat EXCEPT ![x] = LAST], Data)
  PROVE  IInv'
<1>1. len \in Nat /\ len > 0
  BY FatAssumption
<1>2. /\ todo = << >> /\ dfat = fat /\ dirents = ddir
      /\ FatOK(fat) /\ Good(fat, ddir) /\ ddir \in [Slots -> Entry]
      /\ \A s \in Slots : Full(fat, ddir[s])
      /\ ddata \in [Clusters -> Stored] /\ acked \in [Names -> Contents]
  BY IdleFacts
<1>3. NEntries \in Nat /\ NEntries > 3 /\ LAST = NEntries /\ FREE = 0
  BY FatAssumption DEF LAST, FREE
<1>4. /\ x \in DataClusters /\ fat[x] = FREE /\ x \in Nat
      /\ \A y \in DataClusters : y < x => fat[y] # FREE
  <2>1. FreeFrom(fat, 3) \subseteq Nat
    BY <1>3 DEF FreeFrom, Clusters
  <2>2. x \in FreeFrom(fat, 3) /\ \A y \in FreeFrom(fat, 3) : x <= y
    BY <2>1, MinIn
  <2>3. x \in DataClusters /\ fat[x] = FREE /\ x \in Nat
    BY <1>3, <2>2 DEF FreeFrom, Clusters, DataClusters
  <2>4. ASSUME NEW y \in DataClusters, y < x, fat[y] = FREE PROVE FALSE
    <3>1. y \in FreeFrom(fat, 3) /\ y \in Nat
      BY <1>3, <2>4 DEF FreeFrom, Clusters, DataClusters
    <3>2. QED
      BY <2>2, <2>3, <2>4, <3>1
  <2>5. QED
    BY <2>3, <2>4
<1>5. UNCHANGED <<dfat, ddir, ddata>> /\ UNCHANGED card /\ todo' = Data
  BY DEF card, WriteStart
<1>6. PICK h : h = fat'
  OBVIOUS
<1>7. h = [fat EXCEPT ![x] = LAST]
  BY <1>6 DEF WriteStart
<1>8. x \in 0 .. NEntries - 1 /\ x # LAST /\ DataClusters \subseteq 0 .. NEntries - 1
  BY <1>3, <1>4 DEF DataClusters
<1>9. h[x] = LAST /\ \A y \in 0 .. NEntries - 1 : y # x => h[y] = fat[y]
  BY <1>2, <1>7, <1>8 DEF FatOK
<1>10. FatOK(h)
  <2>1. h \in [0 .. NEntries - 1 -> 0 .. NEntries]
    <3>1. LAST \in 0 .. NEntries /\ fat \in [0 .. NEntries - 1 -> 0 .. NEntries]
      BY <1>2, <1>3 DEF FatOK
    <3>2. QED
      BY <1>7, <3>1
  <2>2. ASSUME NEW y \in DataClusters PROVE h[y] = FREE \/ y < h[y]
    <3>1. CASE y = x
      BY <1>3, <1>4, <1>9, <3>1 DEF DataClusters
    <3>2. CASE y # x
      BY <1>2, <1>8, <1>9, <3>2 DEF FatOK
    <3>3. QED
      BY <3>1, <3>2
  <2>3. QED
    BY <2>1, <2>2 DEF FatOK
<1>11. PICK e : e = [ddir[j] EXCEPT !.size = len, !.start = x]
  OBVIOUS
<1>12. e \in Entry /\ e.name = n /\ e.start = x /\ e.size = len
  <2>1. ddir[j] \in Entry
    BY <1>2
  <2>2. PICK q : q = [ddir[j] EXCEPT !.size = len]
    OBVIOUS
  <2>3. q \in Entry /\ q.name = n /\ q.size = len
    BY <1>1, <2>1, <2>2 DEF Entry
  <2>4. e = [q EXCEPT !.start = x]
    BY <1>11, <2>2
  <2>5. QED
    BY <1>4, <1>1, <2>3, <2>4 DEF Entry
<1>13. PICK d2 : d2 = Changed(ddir, j, e)
  OBVIOUS
<1>14. dirents' = d2
  BY <1>11, <1>13 DEF WriteStart
<1>15. d2[j] = e /\ \A s \in Slots : s # j => d2[s] = ddir[s]
  BY <1>2, <1>13 DEF Changed
<1>16. Chain(h, x) \subseteq {x}
  <2>1. x \in {x} \cup {LAST} /\ \A y \in {x} : h[y] \in {x} \cup {LAST}
    BY <1>9
  <2>2. QED
    BY <2>1, ChainWithin
<1>17. Good(h, d2)
  <2>1. PICK own : own = Own(fat, ddir, j) \cup {x}
    OBVIOUS
  <2>2. own = {x}
    BY <2>1 DEF Own
  <2>3. e.name # None /\ NameFree(ddir, j, e.name)
    BY <1>2, <1>12, FatAssumption DEF NameFree, Good
  <2>4. Apart(fat, h, own)
    BY <1>9, <2>2 DEF Apart
  <2>5. e.start \in DataClusters /\ Chain(h, e.start) \subseteq own
    BY <1>4, <1>12, <1>16, <2>2
  <2>6. QED
    BY <1>2, <1>4, <1>12, <1>13, <2>1, <2>3, <2>4, <2>5, Grown
<1>18. PICK jb : jb = job'
  OBVIOUS
<1>19. /\ jb \in Jobs /\ jb.sec = 0 /\ jb.name = n /\ jb.result = Blocks(len, p)
       /\ jb.cur = x /\ jb.left = len /\ jb.pos = 0 /\ jb.payload = p
  <2>1. jb = WriteJob(x, len, p, n)
    BY <1>18 DEF WriteStart
  <2>2. QED
    BY <1>4, <1>1, <2>1, WriteJobFields
<1>20. Progress(h, ddata, e, jb)
  <2>1. Nth(h, e.start)[0] = x
    BY <1>12, NthStep
  <2>2. \A k \in 0 .. 0 : Nth(h, e.start)[k] \in DataClusters
    BY <1>4, <2>1
  <2>3. \A k \in 0 .. 0 - 1 : FALSE
    OBVIOUS
  <2>4. \A y \in DataClusters : y < x => h[y] # FREE
    BY <1>4, <1>8, <1>9
  <2>5. QED
    BY <1>3, <1>9, <1>12, <1>19, <1>1, <2>1, <2>2, <2>3, <2>4 DEF Progress
<1>21. AckedOK' /\ acked' \in [Names -> Contents]
  <2>1. PICK ns : ns = {n}
    OBVIOUS
  <2>2. acked' = [m \in Names |-> IF m \in ns THEN None ELSE acked[m]]
    BY <2>1 DEF WriteStart
  <2>3. ddir[j].name \in ns \cup {None}
    BY <2>1
  <2>4. \A s \in Slots : s # j => dirents'[s] = ddir[s]
    BY <1>14, <1>15
  <2>5. QED
    BY <1>5, <2>2, <2>3, <2>4, AckedStart
<1>22. TypeOK'
  BY <1>2, <1>5, <1>6, <1>10, <1>18, <1>19, <1>21 DEF TypeOK
<1>23. CardOK'
  BY <1>2, <1>5 DEF CardOK
<1>24. MemoryOK'
  BY <1>5, <1>6, <1>14, <1>17 DEF MemoryOK
<1>25. SectorsOK'
  <2>1. \A y \in 0 .. NEntries - 1 : ~(y \div PerSector < 0)
    BY SectorsAscend
  <2>2. QED
    BY <1>5, <1>18, <1>19, <2>1, TodoDiffer DEF SectorsOK
<1>26. LinkedOK' /\ ResultOK'
  BY <1>5, TodoDiffer DEF LinkedOK, ResultOK
<1>27. FreshOK'
  <2>1. \A y \in 0 .. NEntries - 1 : dfat'[y] = h[y] \/ dfat'[y] = FREE
    BY <1>2, <1>4, <1>5, <1>9
  <2>2. /\ d2[j].name = jb.name /\ d2[j].start # 0
        /\ ddir'[j].name = jb.name /\ ddir'[j].start = 0
        /\ \A s \in Slots \ {j} : d2[s] = ddir'[s]
        /\ jb.result = [k \in 1 .. d2[j].size |-> <<jb.payload, k>>]
        /\ Progress(h, ddata', d2[j], jb)
        /\ dfat'[jb.cur] = FREE
    <3>1. x # 0
      BY <1>3, <1>4 DEF DataClusters
    <3>2. jb.result = [k \in 1 .. d2[j].size |-> <<jb.payload, k>>]
      BY <1>12, <1>15, <1>19 DEF Blocks
    <3>3. QED
      BY <1>2, <1>4, <1>5, <1>12, <1>15, <1>19, <1>20, <3>1, <3>2
  <2>3. QED
    BY <1>6, <1>14, <1>18, <2>1, <2>2 DEF FreshOK, Fresh
<1>28. ChangeOK'
  <2>1. Change(ddir[j], e, n, Blocks(len, p))
    <3>1. e.size \in 1 .. MaxLen /\ ddir[j].size = 0
      BY <1>2, <1>12 DEF Good
    <3>2. QED
      BY <1>12, <3>1, FatAssumption DEF Change
  <2>2. dirents'[j] = e /\ ddir'[j] = ddir[j] /\ job'.name = n /\ job'.result = Blocks(len, p)
    BY <1>5, <1>14, <1>15, <1>18, <1>19
  <2>3. \A s \in Slots \ {j} : dirents'[s] = ddir'[s]
    BY <1>5, <1>14, <1>15
  <2>4. QED
    BY <2>1, <2>2, <2>3 DEF ChangeOK
<1>29. QED
  BY <1>21, <1>22, <1>23, <1>24, <1>25, <1>26, <1>27, <1>28 DEF IInv

\* fat32_write.
LEMMA WriteInv ==
  ASSUME IInv, "overwrite" \notin uses, NEW n \in Names, NEW len \in 0 .. MaxLen,
         NEW p \in Payloads, Write(n, len, p)
  PROVE  IInv'
<1>1. Idle /\ Found(n) # {}
  BY DEF Write
<1>2. PICK j : j = Slot(n)
  OBVIOUS
<1>3. PICK x : x = Min(FreeFrom(fat, 3))
  OBVIOUS
<1>4. j \in Slots /\ ddir[j].name = n
  BY <1>1, <1>2, SlotIs
<1>5. ddir[j].start = 0
  BY <1>1, <1>2, <1>3, WriteForms
<1>6. \/ len = 0 /\ WriteStart(n, len, p, j, 0, fat, Late)
      \/ len > 0 /\ FreeFrom(fat, 3) = {} /\ UNCHANGED <<fat, dirents, todo, job, acked, card>>
      \/ /\ len > 0 /\ FreeFrom(fat, 3) # {}
         /\ WriteStart(n, len, p, j, x, [fat EXCEPT ![x] = LAST], Data)
  BY <1>1, <1>2, <1>3, WriteForms
<1>7. CASE len = 0 /\ WriteStart(n, len, p, j, 0, fat, Late)
  BY <1>1, <1>4, <1>5, <1>7, WriteNothingInv
<1>8. CASE UNCHANGED <<fat, dirents, todo, job, acked, card>>
  BY <1>8, NothingInv
<1>9. CASE /\ len > 0 /\ FreeFrom(fat, 3) # {}
           /\ WriteStart(n, len, p, j, x, [fat EXCEPT ![x] = LAST], Data)
  <2>1. len \in 1 .. MaxLen
    BY <1>9, FatAssumption
  <2>2. QED
    BY <1>1, <1>3, <1>4, <1>5, <1>9, <2>1, WriteFreshInv
<1>10. QED
  BY <1>6, <1>7, <1>8, <1>9

\* A file's block goes to the card.
NextJob(jb, next) == [jb EXCEPT !.cur = next, !.left = @ - 1, !.pos = @ + 1]

\* The job one block further.
LEMMA NextJobFields ==
  ASSUME NEW jb \in Jobs, NEW next \in Nat, jb.left > 0, NEW r, r = NextJob(jb, next)
  PROVE  /\ r \in Jobs /\ r.sec = jb.sec /\ r.name = jb.name /\ r.result = jb.result
         /\ r.payload = jb.payload
         /\ r.cur = next /\ r.left = jb.left - 1 /\ r.pos = jb.pos + 1
<1>1. jb.left - 1 \in Nat /\ jb.pos + 1 \in Nat
  BY DEF Jobs
<1>2. r = [cur |-> next, left |-> jb.left - 1, pos |-> jb.pos + 1, payload |-> jb.payload,
           sec |-> jb.sec, name |-> jb.name, result |-> jb.result]
  BY DEF NextJob, Jobs
<1>3. QED
  BY <1>1, <1>2 DEF Jobs

\* What write_cluster_chain does with one block, when it is at the end of
\* the chain: the last block, no room for the next, the next.
LEMMA WriteClusterForms ==
  ASSUME IInv, WriteCluster, todo = Data, NEW c, c = job.cur, c \in DataClusters,
         fat[c] = LAST, NEW next, next = Min(FreeFrom(fat, c))
  PROVE  /\ ddata' = [ddata EXCEPT ![c] = <<job.payload, job.pos + 1>>]
         /\ UNCHANGED <<dfat, ddir, acked, dirents>>
         /\ \/ job.left = 1 /\ fat' = fat /\ todo' = Early /\ job' = job
            \/ job.left # 1 /\ fat' = fat /\ todo' = Data /\ job' = job
            \/ /\ job.left # 1 /\ FreeFrom(fat, c) # {} /\ todo' = Data
               /\ fat' = [fat EXCEPT ![c] = next, ![next] = LAST]
               /\ job' = NextJob(job, next)
<1>1. ~(c < 2)
  BY FatAssumption DEF DataClusters
<1>2. FatOK(fat) /\ c \in 0 .. NEntries - 1
  BY FatAssumption DEF IInv, TypeOK, DataClusters
<1>3. Ends(fat, LAST)
  <2>1. \A k \in 0 .. NEntries : Nth(fat, LAST)[k] \in {} \cup {LAST}
    BY ChainWithin
  <2>2. QED
    BY <2>1, FatAssumption DEF Ends
<1>4. [fat EXCEPT ![c] = LAST] = fat
  BY <1>2 DEF FatOK
<1>5. ddata' = [ddata EXCEPT ![c] = <<job.payload, job.pos + 1>>]
  BY <1>1 DEF WriteCluster
<1>6. UNCHANGED <<dfat, ddir, acked, dirents>>
  BY <1>1 DEF WriteCluster, Fail
<1>7. CASE job.left = 1
  <2>1. fat' = [fat EXCEPT ![c] = LAST] /\ todo' = Tail(todo) /\ job' = job
    BY <1>1, <1>3, <1>7 DEF WriteCluster
  <2>2. QED
    BY <1>4, <1>5, <1>6, <1>7, <2>1, TodoDiffer
<1>8. CASE job.left # 1 /\ FreeFrom(fat, c) = {}
  <2>1. fat' = fat /\ todo' = todo /\ job' = job
    BY <1>1, <1>8 DEF WriteCluster, Fail
  <2>2. QED
    BY <1>5, <1>6, <1>8, <2>1
<1>9. CASE job.left # 1 /\ FreeFrom(fat, c) # {}
  <2>1. /\ fat' = [fat EXCEPT ![c] = next, ![next] = LAST] /\ todo' = todo
        /\ job' = NextJob(job, next)
    BY <1>1, <1>9 DEF WriteCluster, NextJob
  <2>2. QED
    BY <1>5, <1>6, <1>9, <2>1
<1>10. QED
  BY <1>7, <1>8, <1>9

\* The other files do not have the cluster that is written.
LEMMA OtherFiles ==
  ASSUME IInv, todo = Data, NEW j \in Slots, Fresh(j), NEW nd,
         \A y \in Clusters : y # job.cur => nd[y] = ddata[y],
         job.cur \in Chain(fat, dirents[j].start),
         NEW s \in Slots, s # j
  PROVE  Full(fat, dirents[s]) /\ ContentOf(dfat, nd, ddir[s]) = ContentOf(dfat, ddata, ddir[s])
<1>1. /\ FatOK(fat) /\ FatOK(dfat) /\ Good(fat, dirents) /\ Good(dfat, ddir)
      /\ Full(dfat, ddir[s]) /\ ddir[s] \in Entry
  BY DEF IInv, TypeOK, MemoryOK, CardOK, Good
<1>2. dirents[s] = ddir[s] /\ dirents[j].start # 0
  BY DEF Fresh
<1>3. CASE ddir[s].start = 0
  <2>1. ddir[s].size = 0
    BY <1>1, <1>3 DEF Good
  <2>2. QED
    BY <1>2, <2>1, EmptyFile
<1>4. CASE ddir[s].start # 0
  <2>1. \A x \in 0 .. NEntries - 1 : dfat[x] = fat[x] \/ dfat[x] = FREE
    BY DEF IInv, FreshOK
  <2>2. Agree(dfat, fat, ddir[s].start)
    BY <1>1, <1>4, <2>1, GoodFile DEF Agree
  <2>3. /\ Nth(fat, ddir[s].start) = Nth(dfat, ddir[s].start)
        /\ Chain(fat, ddir[s].start) = Chain(dfat, ddir[s].start)
    BY <2>2, SameChain
  <2>4. job.cur \notin Chain(dfat, ddir[s].start)
    BY <1>1, <1>2, <1>4, <2>3, GoodFile
  <2>5. Full(fat, dirents[s])
    BY <1>1, <1>2, <2>3 DEF Full
  <2>6. QED
    BY <1>1, <2>4, <2>5, OtherData
<1>5. QED
  BY <1>3, <1>4

\* The blocks up to the current one are written.
Written(data, f, e, jb) ==
  \A k \in 0 .. jb.pos : data[Nth(f, e.start)[k]] = <<jb.payload, k + 1>>

\* The block goes to a cluster of its file, and the file then holds the blocks
\* so far.
LEMMA BlockWritten ==
  ASSUME IInv, todo = Data, NEW j \in Slots, Fresh(j), NEW e, e = dirents[j],
         Progress(fat, ddata, e, job),
         NEW nd, nd = [ddata EXCEPT ![job.cur] = <<job.payload, job.pos + 1>>]
  PROVE  /\ e \in Entry /\ Sound(fat, e.start) /\ e.name # None
         /\ job.cur \in DataClusters /\ job.cur \in Chain(fat, e.start)
         /\ job.pos \in Nat /\ job.pos + 3 < NEntries
         /\ nd \in [Clusters -> Stored]
         /\ \A y \in Clusters : y # job.cur => nd[y] = ddata[y]
         /\ Written(nd, fat, e, job)
<1>1. /\ FatOK(fat) /\ Good(fat, dirents) /\ ddata \in [Clusters -> Stored] /\ job \in Jobs
  BY DEF IInv, TypeOK, MemoryOK
<1>2. e \in Entry /\ Sound(fat, e.start) /\ e.name # None
  BY <1>1, GoodFile DEF Fresh, Good
<1>3. NEntries \in Nat /\ NEntries > 3 /\ LAST = NEntries
  BY FatAssumption DEF LAST
<1>4. PICK g : g = Nth(fat, e.start)
  OBVIOUS
<1>5. /\ job.pos \in Nat /\ job.pos <= NEntries /\ g[job.pos] = job.cur
      /\ \A k \in 0 .. job.pos : g[k] \in DataClusters
      /\ \A k \in 0 .. job.pos - 1 : ddata[g[k]] = <<job.payload, k + 1>>
      /\ job.payload \in Payloads
  BY <1>1, <1>4 DEF Progress, Jobs
<1>6. job.pos \in 0 .. NEntries /\ job.pos \in 0 .. job.pos
  BY <1>3, <1>5
<1>7. job.cur \in DataClusters /\ job.cur # LAST /\ job.cur \in Nat /\ job.cur < NEntries
  BY <1>3, <1>5, <1>6 DEF DataClusters
<1>8. job.cur >= job.pos + 3
  BY <1>1, <1>2, <1>4, <1>5, <1>6, <1>7, Rising
<1>9. job.cur \in Chain(fat, e.start)
  BY <1>4, <1>5, <1>6, <1>7, InChain
<1>10. DataClusters \subseteq Clusters
  BY <1>3 DEF DataClusters, Clusters
<1>11. nd \in [Clusters -> Stored] /\ nd[job.cur] = <<job.payload, job.pos + 1>>
       /\ \A y \in Clusters : y # job.cur => nd[y] = ddata[y]
  <2>1. <<job.payload, job.pos + 1>> \in Stored
    BY <1>5 DEF Stored
  <2>2. job.cur \in Clusters
    BY <1>7, <1>10
  <2>3. QED
    BY <1>1, <2>1, <2>2
<1>12. ASSUME NEW k \in 0 .. job.pos PROVE nd[g[k]] = <<job.payload, k + 1>>
  <2>1. CASE k = job.pos
    BY <1>5, <1>11, <2>1
  <2>2. CASE k # job.pos
    <3>1. k \in 0 .. job.pos - 1 /\ k < job.pos /\ k \in 0 .. NEntries
      BY <1>3, <1>5, <2>2
    <3>2. g[k] < g[job.pos]
      BY <1>1, <1>2, <1>4, <1>5, <1>6, <1>7, <3>1, StrictlyUp
    <3>3. g[k] # job.cur /\ g[k] \in Clusters
      <4>1. g[k] \in DataClusters /\ g[k] \in Nat
        BY <1>3, <1>5 DEF DataClusters
      <4>2. QED
        BY <1>5, <1>7, <1>10, <3>2, <4>1
    <3>4. QED
      BY <1>5, <1>11, <3>1, <3>3
  <2>3. QED
    BY <2>1, <2>2
<1>13. job.pos + 3 < NEntries
  BY <1>3, <1>5, <1>7, <1>8
<1>14. Written(nd, fat, e, job)
  BY <1>4, <1>12 DEF Written
<1>15. QED
  BY <1>2, <1>5, <1>7, <1>9, <1>11, <1>13, <1>14

\* What a step of write_cluster_chain leaves alone.
LEMMA DataStep ==
  ASSUME IInv, todo = Data, NEW j \in Slots, Fresh(j), NEW e, e = dirents[j],
         Progress(fat, ddata, e, job),
         NEW nd, nd = [ddata EXCEPT ![job.cur] = <<job.payload, job.pos + 1>>],
         ddata' = nd, UNCHANGED <<dfat, ddir, acked, dirents>>
  PROVE  CardOK' /\ AckedOK' /\ Kept
<1>1. CardOK'
  BY DEF IInv, CardOK
<1>2. /\ job.cur \in Chain(fat, dirents[j].start)
      /\ \A y \in Clusters : y # job.cur => nd[y] = ddata[y]
  BY BlockWritten
<1>3. ASSUME NEW n \in Names, acked[n] # None
      PROVE  \E s \in Slots : /\ ddir[s].name = n /\ dirents[s] = ddir[s]
                              /\ ContentOf(dfat, nd, ddir[s]) = acked[n]
  <2>1. PICK s \in Slots : /\ ddir[s].name = n /\ dirents[s] = ddir[s]
                           /\ ContentOf(dfat, ddata, ddir[s]) = acked[n]
    BY <1>3 DEF IInv, AckedOK
  <2>2. s # j
    BY <2>1 DEF Fresh
  <2>3. ContentOf(dfat, nd, ddir[s]) = ContentOf(dfat, ddata, ddir[s])
    BY <1>2, <2>2, OtherFiles
  <2>4. QED
    BY <2>1, <2>3
<1>4. AckedOK'
  BY <1>3 DEF AckedOK
<1>5. ASSUME NEW s \in Slots
      PROVE  ContentOf(dfat, nd, ddir[s]) = ContentOf(dfat, ddata, ddir[s])
  <2>1. CASE s = j
    <3>1. ddir[j].size = 0
      BY DEF Fresh, IInv, CardOK, Good
    <3>2. ContentOf(dfat, nd, ddir[j]) = << >> /\ ContentOf(dfat, ddata, ddir[j]) = << >>
      BY <3>1, EmptyFile
    <3>3. QED
      BY <2>1, <3>2
  <2>2. CASE s # j
    BY <1>2, <2>2, OtherFiles
  <2>3. QED
    BY <2>1, <2>2
<1>6. Kept
  BY <1>5 DEF Kept
<1>7. QED
  BY <1>1, <1>4, <1>6

\* The last block is written: the file is complete in memory.
LEMMA LastBlockInv ==
  ASSUME IInv, todo = Data, NEW j \in Slots, Fresh(j), NEW e, e = dirents[j],
         Progress(fat, ddata, e, job),
         NEW nd, nd = [ddata EXCEPT ![job.cur] = <<job.payload, job.pos + 1>>],
         ddata' = nd, UNCHANGED <<dfat, ddir, acked, dirents>>,
         job.left = 1, fat' = fat, todo' = Early, job' = job
  PROVE  IInv'
<1>1. /\ e \in Entry /\ Sound(fat, e.start) /\ e.name # None
      /\ job.pos \in Nat /\ job.pos + 3 < NEntries
      /\ nd \in [Clusters -> Stored]
      /\ \A y \in Clusters : y # job.cur => nd[y] = ddata[y]
      /\ job.cur \in Chain(fat, e.start)
  BY BlockWritten
<1>2. \A k \in 0 .. job.pos : nd[Nth(fat, e.start)[k]] = <<job.payload, k + 1>>
  <2>1. Written(nd, fat, e, job)
    BY BlockWritten
  <2>2. QED
    BY <2>1 DEF Written
<1>3. /\ e.size = job.pos + 1 /\ \A k \in 0 .. job.pos : Nth(fat, e.start)[k] \in DataClusters
  BY <1>1 DEF Progress, Entry
<1>4. NEntries \in Nat /\ DataClusters \subseteq Clusters
  BY FatAssumption DEF DataClusters, Clusters
<1>5. Full(fat, e)
  BY <1>1, <1>3, <1>4 DEF Full
<1>6. ContentOf(fat, nd, e) = job.result
  <2>1. ASSUME NEW k \in 1 .. e.size
        PROVE  Nth(fat, e.start)[k-1] \in Clusters
               /\ nd[Nth(fat, e.start)[k-1]] = <<job.payload, k>>
    <3>1. k - 1 \in 0 .. job.pos /\ (k - 1) + 1 = k
      BY <1>1, <1>3
    <3>2. QED
      BY <1>1, <1>3, <1>4, <1>2, <3>1
  <2>2. ContentOf(fat, nd, e) = [k \in 1 .. e.size |-> <<job.payload, k>>]
    BY <2>1 DEF ContentOf
  <2>3. job.result = [k \in 1 .. e.size |-> <<job.payload, k>>]
    BY DEF Fresh
  <2>4. QED
    BY <2>2, <2>3
<1>7. TypeOK'
  BY <1>1 DEF IInv, TypeOK
<1>8. CardOK' /\ AckedOK'
  BY DataStep
<1>9. MemoryOK'
  <2>1. \A s \in Slots : Full(fat, dirents[s])
    BY <1>1, <1>5, OtherFiles
  <2>2. QED
    BY <2>1 DEF IInv, MemoryOK
<1>10. SectorsOK'
  BY TodoDiffer DEF IInv, SectorsOK
<1>11. LinkedOK'
  BY TodoDiffer DEF LinkedOK
<1>12. FreshOK'
  <2>1. Fresh(j)'
    BY DEF Fresh
  <2>2. \A x \in 0 .. NEntries - 1 : dfat[x] = fat[x] \/ dfat[x] = FREE
    BY DEF IInv, FreshOK
  <2>3. QED
    BY <2>1, <2>2, TodoDiffer DEF FreshOK
<1>13. ResultOK'
  BY <1>1, <1>6 DEF ResultOK, Fresh
<1>14. ChangeOK'
  BY DEF IInv, ChangeOK
<1>15. QED
  BY <1>7, <1>8, <1>9, <1>10, <1>11, <1>12, <1>13, <1>14 DEF IInv

\* The block is written and no cluster is left for the next: a panic.
LEMMA NoRoomInv ==
  ASSUME IInv, todo = Data, NEW j \in Slots, Fresh(j), NEW e, e = dirents[j],
         Progress(fat, ddata, e, job), dfat[job.cur] = FREE,
         NEW nd, nd = [ddata EXCEPT ![job.cur] = <<job.payload, job.pos + 1>>],
         ddata' = nd, UNCHANGED <<dfat, ddir, acked, dirents>>,
         fat' = fat, todo' = Data, job' = job
  PROVE  IInv'
<1>1. /\ nd \in [Clusters -> Stored] /\ job.pos \in Nat
      /\ \A y \in Clusters : y # job.cur => nd[y] = ddata[y]
  BY BlockWritten
<1>2. \A k \in 0 .. job.pos : nd[Nth(fat, e.start)[k]] = <<job.payload, k + 1>>
  <2>1. Written(nd, fat, e, job)
    BY BlockWritten
  <2>2. QED
    BY <2>1 DEF Written
<1>3. Progress(fat, nd, e, job)
  <2>1. \A k \in 0 .. job.pos - 1 : k \in 0 .. job.pos
    BY <1>1
  <2>2. QED
    BY <1>2, <2>1 DEF Progress
<1>4. TypeOK'
  BY <1>1 DEF IInv, TypeOK
<1>5. CardOK' /\ AckedOK'
  BY DataStep
<1>6. MemoryOK' /\ SectorsOK'
  BY DEF IInv, MemoryOK, SectorsOK
<1>7. LinkedOK' /\ ResultOK'
  BY TodoDiffer DEF LinkedOK, ResultOK
<1>8. FreshOK'
  <2>1. Fresh(j)'
    BY DEF Fresh
  <2>2. \A x \in 0 .. NEntries - 1 : dfat[x] = fat[x] \/ dfat[x] = FREE
    BY DEF IInv, FreshOK
  <2>3. QED
    BY <1>3, <2>1, <2>2 DEF FreshOK
<1>9. ChangeOK'
  BY DEF IInv, ChangeOK
<1>10. QED
  BY <1>4, <1>5, <1>6, <1>7, <1>8, <1>9 DEF IInv

\* The chain's last cluster is linked to a free one.
Link(f, c, x) == [f EXCEPT ![c] = x, ![x] = LAST]

\* A higher free cluster x linked behind the end c of a chain.
LEMMA LinkedFat ==
  ASSUME NEW f, FatOK(f), NEW c \in DataClusters, f[c] = LAST,
         NEW x \in DataClusters, f[x] = FREE, c < x, NEW h, h = Link(f, c, x)
  PROVE  /\ FatOK(h) /\ h[c] = x /\ h[x] = LAST
         /\ Apart(f, h, {c, x})
<1>1. NEntries \in Nat /\ LAST = NEntries /\ FREE = 0
  BY FatAssumption DEF LAST, FREE
<1>2. /\ c \in 0 .. NEntries - 1 /\ x \in 0 .. NEntries - 1 /\ c \in Nat /\ x \in Nat
      /\ x < NEntries /\ f \in [0 .. NEntries - 1 -> 0 .. NEntries]
  BY <1>1 DEF DataClusters, FatOK
<1>3. PICK q : q = [f EXCEPT ![c] = x]
  OBVIOUS
<1>4. q \in [0 .. NEntries - 1 -> 0 .. NEntries] /\ q[c] = x
      /\ \A y \in 0 .. NEntries - 1 : y # c => q[y] = f[y]
  <2>1. x \in 0 .. NEntries
    BY <1>1, <1>2
  <2>2. QED
    BY <1>2, <1>3, <2>1
<1>5. h = [q EXCEPT ![x] = LAST]
  BY <1>3 DEF Link
<1>6. h \in [0 .. NEntries - 1 -> 0 .. NEntries] /\ h[x] = LAST
      /\ \A y \in 0 .. NEntries - 1 : y # x => h[y] = q[y]
  <2>1. LAST \in 0 .. NEntries
    BY <1>1
  <2>2. QED
    BY <1>2, <1>4, <1>5, <2>1
<1>7. h[c] = x
  BY <1>2, <1>4, <1>6
<1>8. \A y \in 0 .. NEntries - 1 : y # x /\ y # c => h[y] = f[y]
  BY <1>4, <1>6
<1>9. ASSUME NEW y \in DataClusters PROVE h[y] = FREE \/ y < h[y]
  <2>1. y \in 0 .. NEntries - 1
    BY <1>1 DEF DataClusters
  <2>2. CASE y = x
    BY <1>1, <1>2, <1>6, <2>2
  <2>3. CASE y = c
    BY <1>7, <2>3
  <2>4. CASE y # x /\ y # c
    BY <1>8, <2>1, <2>4 DEF FatOK
  <2>5. QED
    BY <2>2, <2>3, <2>4
<1>10. QED
  BY <1>6, <1>7, <1>8, <1>9 DEF FatOK, Apart

\* The file's chain with the new cluster.
LEMMA LinkedChain ==
  ASSUME NEW f, FatOK(f), NEW st, Sound(f, st), NEW pos \in Nat, pos + 3 < NEntries,
         NEW c \in DataClusters, Nth(f, st)[pos] = c, f[c] = LAST,
         NEW x \in DataClusters, f[x] = FREE, c < x, NEW h, h = Link(f, c, x)
  PROVE  /\ Chain(h, st) \subseteq Chain(f, st) \cup {x}
         /\ \A k \in 0 .. pos : Nth(h, st)[k] = Nth(f, st)[k]
         /\ Nth(h, st)[pos+1] = x
<1>1. NEntries \in Nat /\ NEntries > 3 /\ LAST = NEntries
  BY FatAssumption DEF LAST
<1>2. h[c] = x /\ h[x] = LAST /\ Apart(f, h, {c, x})
  BY LinkedFat
<1>3. pos \in 0 .. NEntries /\ pos \in 0 .. NEntries - 1 /\ c # LAST /\ c \in Nat
  BY <1>1 DEF DataClusters
<1>4. \A y \in Chain(f, st) : y \in 0 .. NEntries - 1 /\ f[y] \in Chain(f, st) \cup {LAST} /\ y # x
  <2>1. \A y \in Chain(f, st) : /\ y \in DataClusters /\ f[y] # FREE
                                /\ f[y] \in Chain(f, st) \cup {LAST}
    BY SoundChain
  <2>2. DataClusters \subseteq 0 .. NEntries - 1
    BY <1>1 DEF DataClusters
  <2>3. QED
    BY <2>1, <2>2
<1>5. Chain(h, st) \subseteq Chain(f, st) \cup {x}
  <2>1. PICK S : S = Chain(f, st) \cup {x}
    OBVIOUS
  <2>2. ASSUME NEW y \in S PROVE h[y] \in S \cup {LAST}
    <3>1. CASE y = x
      BY <1>2, <3>1
    <3>2. CASE y = c
      BY <1>2, <2>1, <3>2
    <3>3. CASE y # x /\ y # c
      BY <1>2, <1>4, <2>1, <2>2, <3>3 DEF Apart
    <3>4. QED
      BY <3>1, <3>2, <3>3
  <2>3. st \in S \cup {LAST}
    BY <2>1, SoundChain
  <2>4. QED
    BY <2>1, <2>2, <2>3, ChainWithin
<1>6. \A k \in 0 .. pos : Nth(h, st)[k] = Nth(f, st)[k]
  <2>1. ASSUME NEW k \in 0 .. pos - 1 PROVE h[Nth(f, st)[k]] = f[Nth(f, st)[k]]
    <3>1. k \in 0 .. NEntries /\ k < pos
      BY <1>1
    <3>2. Nth(f, st)[k] # LAST /\ Nth(f, st)[k] < c
      BY <1>3, <3>1, StrictlyUp
    <3>3. Nth(f, st)[k] \in Chain(f, st)
      BY <3>1, <3>2, InChain
    <3>4. Nth(f, st)[k] # c /\ Nth(f, st)[k] # x /\ Nth(f, st)[k] \in 0 .. NEntries - 1
      BY <1>3, <1>4, <3>2, <3>3
    <3>5. QED
      BY <1>2, <3>4 DEF Apart
  <2>2. QED
    BY <1>3, <2>1, ChainAgrees
<1>7. Nth(h, st)[pos+1] = x
  <2>1. pos \in 0 .. pos
    OBVIOUS
  <2>2. Nth(h, st)[pos] = c
    BY <1>6, <2>1
  <2>3. QED
    BY <1>2, <1>3, <2>2, NthStep
<1>8. QED
  BY <1>5, <1>6, <1>7

\* The block is written and its cluster linked to the next.
LEMMA NextBlockInv ==
  ASSUME IInv, todo = Data, NEW j \in Slots, Fresh(j), NEW e, e = dirents[j],
         Progress(fat, ddata, e, job), dfat[job.cur] = FREE,
         NEW nd, nd = [ddata EXCEPT ![job.cur] = <<job.payload, job.pos + 1>>],
         ddata' = nd, UNCHANGED <<dfat, ddir, acked, dirents>>,
         job.left # 1, NEW c, c = job.cur, FreeFrom(fat, c) # {},
         NEW x, x = Min(FreeFrom(fat, c)),
         fat' = Link(fat, c, x), todo' = Data, job' = NextJob(job, x)
  PROVE  IInv'
<1>1. /\ FatOK(fat) /\ FatOK(dfat) /\ Good(fat, dirents) /\ job \in Jobs
      /\ acked \in [Names -> Contents] /\ dirents \in [Slots -> Entry]
  BY DEF IInv, TypeOK, MemoryOK, Good
<1>2. /\ e \in Entry /\ Sound(fat, e.start) /\ e.name # None
      /\ c \in DataClusters /\ c \in Chain(fat, e.start)
      /\ job.pos \in Nat /\ job.pos + 3 < NEntries
      /\ nd \in [Clusters -> Stored]
  BY BlockWritten
<1>3. \A k \in 0 .. job.pos : nd[Nth(fat, e.start)[k]] = <<job.payload, k + 1>>
  <2>1. Written(nd, fat, e, job)
    BY BlockWritten
  <2>2. QED
    BY <2>1 DEF Written
<1>4. /\ job.payload \in Payloads /\ job.left > 0 /\ job.left \in Nat
      /\ job.pos + job.left = e.size
      /\ Nth(fat, e.start)[job.pos] = c /\ fat[c] = LAST
      /\ \A k \in 0 .. job.pos : Nth(fat, e.start)[k] \in DataClusters
  BY <1>1 DEF Progress, Jobs
<1>5. NEntries \in Nat /\ NEntries > 3 /\ LAST = NEntries /\ FREE = 0
  BY FatAssumption DEF LAST, FREE
<1>6. c \in Nat /\ c >= 3
  BY <1>2, <1>5 DEF DataClusters
<1>7. x \in DataClusters /\ fat[x] = FREE /\ c < x /\ x \in Nat /\ x \in 0 .. NEntries - 1
      /\ \A y \in DataClusters : y < x => fat[y] # FREE
  <2>1. FreeFrom(fat, c) \subseteq Nat
    BY <1>5 DEF FreeFrom, Clusters
  <2>2. x \in FreeFrom(fat, c) /\ \A y \in FreeFrom(fat, c) : x <= y
    BY <2>1, MinIn
  <2>3. x \in Clusters /\ x >= 3 /\ x >= c /\ fat[x] = FREE
    BY <2>2 DEF FreeFrom
  <2>4. x # c
    BY <1>4, <1>5, <2>3
  <2>5. x \in Nat /\ c < x
    BY <1>5, <1>6, <2>3, <2>4 DEF Clusters
  <2>6. ASSUME NEW y \in DataClusters, y < x, fat[y] = FREE PROVE FALSE
    <3>1. y \in Nat /\ y >= 3 /\ y \in Clusters
      BY <1>5, <2>6 DEF Clusters, DataClusters
    <3>2. CASE y < c
      BY <2>6, <3>2 DEF Progress
    <3>3. CASE y >= c
      <4>1. y \in FreeFrom(fat, c)
        BY <2>6, <3>1, <3>3 DEF FreeFrom
      <4>2. QED
        BY <2>2, <2>5, <2>6, <3>1, <4>1
    <3>4. QED
      BY <1>6, <3>1, <3>2, <3>3
  <2>7. QED
    BY <1>5, <1>6, <2>3, <2>5, <2>6 DEF Clusters, DataClusters
<1>8. PICK h : h = fat'
  OBVIOUS
<1>9. h = Link(fat, c, x)
  BY <1>8
<1>10. FatOK(h) /\ h[x] = LAST /\ h[c] = x /\ Apart(fat, h, {c, x})
  BY <1>1, <1>2, <1>4, <1>7, <1>9, LinkedFat
<1>11. Chain(h, e.start) \subseteq Chain(fat, e.start) \cup {x}
  BY <1>1, <1>2, <1>4, <1>7, <1>9, LinkedChain
<1>12. \A k \in 0 .. job.pos : Nth(h, e.start)[k] = Nth(fat, e.start)[k]
  BY <1>1, <1>2, <1>4, <1>7, <1>9, LinkedChain
<1>13. Nth(h, e.start)[job.pos+1] = x
  BY <1>1, <1>2, <1>4, <1>7, <1>9, LinkedChain
<1>14. Good(h, dirents)
  <2>1. PICK own : own = Own(fat, dirents, j) \cup {x}
    OBVIOUS
  <2>2. own = Chain(fat, e.start) \cup {x}
    BY <2>1 DEF Own, Fresh
  <2>3. NameFree(dirents, j, e.name)
    BY <1>1 DEF NameFree, Good
  <2>4. Apart(fat, h, own)
    BY <1>2, <1>10, <2>2 DEF Apart
  <2>5. e.start \in DataClusters /\ Chain(h, e.start) \subseteq own
    BY <1>2, <1>11, <2>2 DEF Sound
  <2>6. PICK d2 : d2 = Changed(dirents, j, e)
    OBVIOUS
  <2>7. Good(h, d2)
    BY <1>1, <1>2, <1>7, <2>1, <2>3, <2>4, <2>5, <2>6, Grown
  <2>8. d2 = dirents
    BY <1>1, <2>6 DEF Changed
  <2>9. QED
    BY <2>7, <2>8
<1>15. PICK jb : jb = job'
  OBVIOUS
<1>16. /\ jb \in Jobs /\ jb.sec = job.sec /\ jb.name = job.name /\ jb.result = job.result
       /\ jb.payload = job.payload
       /\ jb.cur = x /\ jb.left = job.left - 1 /\ jb.pos = job.pos + 1
  BY <1>1, <1>4, <1>7, <1>15, NextJobFields
<1>17. Progress(h, nd, e, jb)
  <2>1. ASSUME NEW k \in 0 .. job.pos + 1 PROVE Nth(h, e.start)[k] \in DataClusters
    <3>1. CASE k = job.pos + 1
      BY <1>7, <1>13, <3>1
    <3>2. CASE k # job.pos + 1
      <4>1. k \in 0 .. job.pos
        BY <1>2, <3>2
      <4>2. QED
        BY <1>4, <1>12, <4>1
    <3>3. QED
      BY <3>1, <3>2
  <2>2. ASSUME NEW k \in 0 .. (job.pos + 1) - 1
        PROVE  nd[Nth(h, e.start)[k]] = <<job.payload, k + 1>>
    <3>1. k \in 0 .. job.pos
      BY <1>2
    <3>2. QED
      BY <1>3, <1>12, <3>1
  <2>3. job.left - 1 > 0 /\ (job.pos + 1) + (job.left - 1) = e.size /\ job.pos + 1 <= NEntries
    BY <1>2, <1>4, <1>5
  <2>4. ASSUME NEW y \in DataClusters, y < x PROVE h[y] # FREE
    <3>1. y # x /\ y \in 0 .. NEntries - 1 /\ x # 0
      BY <1>5, <1>7, <2>4 DEF DataClusters
    <3>2. CASE y = c
      BY <1>5, <1>10, <3>1, <3>2
    <3>3. CASE y # c
      BY <1>7, <1>10, <2>4, <3>1, <3>3 DEF Apart
    <3>4. QED
      BY <3>2, <3>3
  <2>5. QED
    BY <1>4, <1>10, <1>13, <1>16, <2>1, <2>2, <2>3, <2>4 DEF Progress
<1>18. TypeOK'
  BY <1>1, <1>2, <1>8, <1>10, <1>15, <1>16 DEF TypeOK
<1>19. CardOK' /\ AckedOK'
  BY DataStep
<1>20. MemoryOK'
  BY <1>8, <1>14 DEF MemoryOK
<1>21. SectorsOK'
  <2>1. job.sec = 0
    BY TodoDiffer DEF IInv, SectorsOK
  <2>2. \A y \in 0 .. NEntries - 1 : ~(y \div PerSector < 0)
    BY SectorsAscend
  <2>3. QED
    BY <1>15, <1>16, <2>1, <2>2, TodoDiffer DEF SectorsOK
<1>22. LinkedOK' /\ ResultOK'
  BY TodoDiffer DEF LinkedOK, ResultOK
<1>23. FreshOK'
  <2>1. \A y \in 0 .. NEntries - 1 : dfat[y] = fat[y] \/ dfat[y] = FREE
    BY DEF IInv, FreshOK
  <2>2. dfat[x] = FREE
    BY <1>7, <2>1
  <2>3. \A y \in 0 .. NEntries - 1 : dfat[y] = h[y] \/ dfat[y] = FREE
    BY <1>10, <2>1, <2>2 DEF Apart
  <2>4. Fresh(j)'
    BY <1>15, <1>16 DEF Fresh
  <2>5. QED
    BY <1>8, <1>15, <1>16, <1>17, <2>2, <2>3, <2>4 DEF FreshOK
<1>24. ChangeOK'
  BY <1>15, <1>16 DEF IInv, ChangeOK
<1>25. QED
  BY <1>18, <1>19, <1>20, <1>21, <1>22, <1>23, <1>24 DEF IInv

\* write_cluster_chain preserves the invariant and no file on the card notices.
LEMMA WriteClusterInv ==
  ASSUME IInv, WriteCluster
  PROVE  IInv' /\ Kept
<1>1. todo = Data
  BY TodoDiffer DEF WriteCluster, IInv, TypeOK
<1>2. PICK j \in Slots : Fresh(j) /\ Progress(fat, ddata, dirents[j], job) /\ dfat[job.cur] = FREE
  BY <1>1 DEF IInv, FreshOK
<1>3. PICK e : e = dirents[j]
  OBVIOUS
<1>4. PICK nd : nd = [ddata EXCEPT ![job.cur] = <<job.payload, job.pos + 1>>]
  OBVIOUS
<1>5. PICK c : c = job.cur
  OBVIOUS
<1>6. PICK x : x = Min(FreeFrom(fat, c))
  OBVIOUS
<1>7. c \in DataClusters
  BY <1>1, <1>2, <1>3, <1>4, <1>5, BlockWritten
<1>8. fat[c] = LAST /\ Progress(fat, ddata, e, job)
  BY <1>2, <1>3, <1>5 DEF Progress
<1>9. ddata' = nd
  BY <1>1, <1>4, <1>5, <1>6, <1>7, <1>8, WriteClusterForms
<1>10. UNCHANGED <<dfat, ddir, acked, dirents>>
  BY <1>1, <1>5, <1>6, <1>7, <1>8, WriteClusterForms
<1>11. \/ job.left = 1 /\ fat' = fat /\ todo' = Early /\ job' = job
       \/ job.left # 1 /\ fat' = fat /\ todo' = Data /\ job' = job
       \/ /\ job.left # 1 /\ FreeFrom(fat, c) # {} /\ todo' = Data
          /\ fat' = Link(fat, c, x)
          /\ job' = NextJob(job, x)
  BY <1>1, <1>5, <1>6, <1>7, <1>8, WriteClusterForms DEF Link
<1>12. ASSUME job.left = 1 /\ fat' = fat /\ todo' = Early /\ job' = job PROVE IInv'
  BY <1>1, <1>2, <1>3, <1>4, <1>8, <1>9, <1>10, <1>12, LastBlockInv
<1>13. ASSUME fat' = fat /\ todo' = Data /\ job' = job PROVE IInv'
  BY <1>1, <1>2, <1>3, <1>4, <1>8, <1>9, <1>10, <1>13, NoRoomInv
<1>14. ASSUME /\ job.left # 1 /\ FreeFrom(fat, c) # {} /\ todo' = Data
              /\ fat' = Link(fat, c, x) /\ job' = NextJob(job, x)
       PROVE  IInv'
  BY <1>1, <1>2, <1>3, <1>4, <1>5, <1>6, <1>8, <1>9, <1>10, <1>14, NextBlockInv
<1>15. Kept
  BY <1>1, <1>2, <1>3, <1>4, <1>8, <1>9, <1>10, DataStep
<1>16. QED
  BY <1>11, <1>12, <1>13, <1>14, <1>15

-----------------------------------------------------------------------------
(* The panic. *)

\* The driver gives up only when there is no free cluster: it takes them from
\* below.
PanicOK ==
  fault = "no free cluster" => \A c \in Clusters : c >= 3 => fat[c] # FREE

\* A search from c on that finds nothing means a full card if the clusters
\* below c are in use.
LEMMA NoneFree ==
  ASSUME NEW f, NEW c \in Nat, c <= NEntries, FreeFrom(f, c) = {},
         \A x \in DataClusters : x < c => f[x] # FREE
  PROVE  \A x \in Clusters : x >= 3 => f[x] # FREE
<1>1. ASSUME NEW x \in Clusters, x >= 3, f[x] = FREE PROVE FALSE
  <2>1. x \in DataClusters /\ x \in Nat
    BY <1>1, FatAssumption DEF Clusters, DataClusters
  <2>2. CASE x < c
    BY <1>1, <2>1, <2>2
  <2>3. CASE ~(x < c)
    <3>1. x >= c
      BY <2>1, <2>3
    <3>2. QED
      BY <1>1, <3>1 DEF FreeFrom
  <2>4. QED
    BY <2>2, <2>3
<1>2. QED
  BY <1>1

\* Every step keeps panics justified.
LEMMA PanicStep ==
  ASSUME IInv, PanicOK, "overwrite" \notin uses, [Next]_vars
  PROVE  PanicOK'
<1>1. ASSUME UNCHANGED <<fault, fat>> PROVE PanicOK'
  BY <1>1 DEF PanicOK
<1>2. ASSUME fault' # "no free cluster" PROVE PanicOK'
  BY <1>2 DEF PanicOK
<1>3. CASE UNCHANGED vars
  BY <1>1, <1>3 DEF vars, ram
<1>4. CASE Reboot
  BY <1>2, <1>4 DEF Reboot
<1>5. CASE WriteDir \/ WriteFatSector
  BY <1>2, <1>5 DEF WriteDir, WriteFatSector
<1>6. ASSUME NEW n \in Names, Create(n) \/ Delete(n) \/ Read(n) PROVE PanicOK'
  BY <1>2, <1>6 DEF Create, Delete, Read, Idle, Start, Fail
<1>7. ASSUME NEW old \in Names, NEW new \in Names, Rename(old, new) PROVE PanicOK'
  BY <1>2, <1>7 DEF Rename, Idle, Start
<1>8. ASSUME NEW n \in Names, NEW len \in 0 .. MaxLen, Truncate(n, len) PROVE PanicOK'
  <2>1. fault' = "hang" \/ fault' = "none"
    BY <1>8 DEF Truncate, Idle, Start, Fail
  <2>2. QED
    BY <1>2, <2>1
<1>9. ASSUME NEW n \in Names, NEW len \in 0 .. MaxLen, NEW p \in Payloads, Write(n, len, p)
      PROVE  PanicOK'
  <2>1. fault = "none" /\ (FreeFrom(fat, 3) = {} \/ fault' = fault)
    BY <1>9 DEF Write, Idle
  <2>2. CASE FreeFrom(fat, 3) = {} /\ fat' = fat
    <3>1. \A x \in DataClusters : ~(x < 3)
      BY FatAssumption DEF DataClusters
    <3>2. 3 \in Nat /\ 3 <= NEntries
      BY FatAssumption
    <3>3. QED
      BY <2>2, <3>1, <3>2, NoneFree DEF PanicOK
  <2>3. CASE fault' = "none"
    BY <1>2, <2>3
  <2>4. (FreeFrom(fat, 3) = {} /\ fat' = fat) \/ fault' = "none"
    BY <1>9, <2>1 DEF Write, Fail
  <2>5. QED
    BY <2>2, <2>3, <2>4
<1>10. CASE WriteCluster
  <2>1. todo = Data
    BY <1>10, TodoDiffer DEF WriteCluster, IInv, TypeOK
  <2>2. PICK j \in Slots : Fresh(j) /\ Progress(fat, ddata, dirents[j], job)
    BY <2>1 DEF IInv, FreshOK
  <2>3. PICK e : e = dirents[j]
    OBVIOUS
  <2>4. PICK nd : nd = [ddata EXCEPT ![job.cur] = <<job.payload, job.pos + 1>>]
    OBVIOUS
  <2>5. job.cur \in DataClusters
    BY <2>1, <2>2, <2>3, <2>4, BlockWritten
  <2>6. job.cur \in Nat /\ job.cur <= NEntries
    BY <2>5, FatAssumption DEF DataClusters
  <2>7. \A x \in DataClusters : x < job.cur => fat[x] # FREE
    BY <2>2 DEF Progress
  <2>8. fault' = "no free cluster" => FreeFrom(fat, job.cur) = {} /\ fat' = fat
    BY <1>10 DEF WriteCluster, Fail
  <2>9. CASE fault' = "no free cluster"
    BY <2>6, <2>7, <2>8, <2>9, NoneFree DEF PanicOK
  <2>10. QED
    BY <1>2, <2>9
<1>11. QED
  BY <1>3, <1>4, <1>5, <1>6, <1>7, <1>8, <1>9, <1>10 DEF Next, Call, Step

-----------------------------------------------------------------------------
(* The abstract file store. *)

\* The files a directory and a FAT show.
InUse(d) == {s \in Slots : d[s].name # None}
FilesOf(f, data, d) ==
  [n \in Names |-> IF \E s \in InUse(d) : d[s].name = n
                   THEN ContentOf(f, data, d[CHOOSE s \in InUse(d) : d[s].name = n])
                   ELSE None]

\* The file of a name: that of its one entry, or none.
LEMMA FileIn ==
  ASSUME NEW f, NEW data, NEW d, Good(f, d), NEW n \in Names
  PROVE  /\ \A s \in Slots : d[s].name = n => FilesOf(f, data, d)[n] = ContentOf(f, data, d[s])
         /\ (\A s \in Slots : d[s].name # n) => FilesOf(f, data, d)[n] = None
<1>1. n # None
  BY FatAssumption
<1>2. ASSUME NEW s \in Slots, d[s].name = n
      PROVE  FilesOf(f, data, d)[n] = ContentOf(f, data, d[s])
  <2>1. s \in InUse(d)
    BY <1>1, <1>2 DEF InUse
  <2>2. PICK t : t = CHOOSE u \in InUse(d) : d[u].name = n
    OBVIOUS
  <2>3. t \in InUse(d) /\ d[t].name = n
    BY <1>2, <2>1, <2>2
  <2>4. t = s
    BY <1>1, <1>2, <2>3 DEF InUse, Good
  <2>5. FilesOf(f, data, d)[n] = ContentOf(f, data, d[t])
    BY <1>2, <2>1, <2>2 DEF FilesOf
  <2>6. QED
    BY <2>4, <2>5
<1>3. (\A s \in Slots : d[s].name # n) => FilesOf(f, data, d)[n] = None
  BY DEF FilesOf, InUse
<1>4. QED
  BY <1>2, <1>3

\* Files with the same content each are the same files.
LEMMA SameFiles ==
  ASSUME NEW f, NEW g, NEW data, NEW nd, NEW d, Good(f, d), Good(g, d),
         \A s \in Slots : ContentOf(g, nd, d[s]) = ContentOf(f, data, d[s])
  PROVE  FilesOf(g, nd, d) = FilesOf(f, data, d)
<1>1. ASSUME NEW n \in Names PROVE FilesOf(g, nd, d)[n] = FilesOf(f, data, d)[n]
  BY <1>1, FileIn
<1>2. QED
  BY <1>1 DEF FilesOf

\* What one change of the store does to the files.
StoreStep(F, G) ==
  \/ G = F
  \/ \E n \in Names : F[n] = None /\ G = [F EXCEPT ![n] = << >>]
  \/ \E n \in Names : /\ F[n] = << >> /\ G[n] \in Seq(Payloads \X (1 .. MaxLen)) \ {<< >>}
                      /\ G = [F EXCEPT ![n] = G[n]]
  \/ \E n \in Names : F[n] # None /\ \E len \in 1 .. Len(F[n]) :
                        G = [F EXCEPT ![n] = SubSeq(F[n], 1, len)]
  \/ \E n \in Names : F[n] # None /\ G = [F EXCEPT ![n] = None]
  \/ \E old, new \in Names : /\ F[old] # None /\ F[new] = None
                             /\ G = [F EXCEPT ![new] = F[old], ![old] = None]

\* The content of an entry is never None.
LEMMA NotNone ==
  ASSUME NEW f, NEW data, NEW e \in Entry, data \in [Clusters -> Stored]
  PROVE  ContentOf(f, data, e) # None
BY ContentIn, FatAssumption DEF Stored

\* One changed entry is one step of the store.
LEMMA EntryStep ==
  ASSUME NEW f, NEW data, data \in [Clusters -> Stored], NEW d, NEW d2,
         Good(f, d), Good(f, d2), NEW j \in Slots,
         \A s \in Slots \ {j} : d2[s] = d[s],
         NEW nm, NEW res, Change(d[j], d2[j], nm, res),
         Yields(f, data, d2[j], nm, res) \/ d2[j].name # nm,
         NEW F, F = FilesOf(f, data, d), NEW G, G = FilesOf(f, data, d2)
  PROVE  StoreStep(F, G)
<1>1. d \in [Slots -> Entry] /\ d2 \in [Slots -> Entry]
  BY DEF Good
<1>2. PICK a : a = d[j].name
  OBVIOUS
<1>3. PICK b : b = d2[j].name
  OBVIOUS
<1>4. d[j] \in Entry /\ d2[j] \in Entry /\ a \in Names \cup {None} /\ b \in Names \cup {None}
  BY <1>1, <1>2, <1>3 DEF Entry
<1>5. F = [n \in Names |-> F[n]] /\ G = [n \in Names |-> G[n]]
  BY DEF FilesOf
<1>6. ASSUME NEW n \in Names, n # a, n # b PROVE G[n] = F[n]
  <2>1. CASE \E s \in Slots : d[s].name = n
    <3>1. PICK s \in Slots : d[s].name = n
      BY <2>1
    <3>2. s # j /\ d2[s] = d[s]
      BY <1>2, <1>6, <3>1
    <3>3. QED
      BY <3>1, <3>2, FileIn
  <2>2. CASE \A s \in Slots : d[s].name # n
    <3>1. \A s \in Slots : d2[s].name # n
      BY <1>3, <1>6, <2>2
    <3>2. QED
      BY <2>2, <3>1, FileIn
  <2>3. QED
    BY <2>1, <2>2
<1>7. a # None => a \in Names /\ F[a] = ContentOf(f, data, d[j]) /\ F[a] # None
  BY <1>2, <1>4, FileIn, NotNone
<1>8. b # None => b \in Names /\ G[b] = ContentOf(f, data, d2[j])
  BY <1>3, <1>4, FileIn
<1>9. a # None /\ a # b => G[a] = None
  <2>1. SUFFICES ASSUME a # None, a # b PROVE G[a] = None
    OBVIOUS
  <2>2. \A s \in Slots : d2[s].name # a
    BY <1>2, <1>3, <2>1 DEF Good
  <2>3. QED
    BY <1>4, <2>1, <2>2, FileIn
<1>10. b # None /\ a # b => F[b] = None
  <2>1. SUFFICES ASSUME b # None, a # b PROVE F[b] = None
    OBVIOUS
  <2>2. \A s \in Slots : d[s].name # b
    BY <1>2, <1>3, <2>1 DEF Good
  <2>3. QED
    BY <1>4, <2>1, <2>2, FileIn
<1>11. CASE d2[j] = d[j]
  <2>1. d2 = d
    BY <1>1, <1>11
  <2>2. QED
    BY <2>1 DEF StoreStep
<1>12. CASE a = None /\ b # None /\ d2[j].size = 0
  <2>1. PICK z : z = << >>
    OBVIOUS
  <2>2. G[b] = z
    BY <1>8, <1>12, <2>1, EmptyFile
  <2>3. G = [F EXCEPT ![b] = z]
    BY <1>4, <1>5, <1>6, <1>8, <1>12, <2>2, FatAssumption
  <2>4. QED
    BY <1>8, <1>10, <1>12, <2>1, <2>3 DEF StoreStep
<1>13. CASE a # None /\ b = None
  <2>1. G = [F EXCEPT ![a] = None]
    BY <1>4, <1>5, <1>6, <1>7, <1>9, <1>13, FatAssumption
  <2>2. QED
    BY <1>7, <1>13, <2>1 DEF StoreStep
<1>14. CASE /\ a # None /\ b # None /\ b # a
            /\ d2[j].start = d[j].start /\ d2[j].size = d[j].size
  <2>1. G[b] = F[a]
    BY <1>7, <1>8, <1>14 DEF ContentOf
  <2>2. G = [F EXCEPT ![b] = F[a], ![a] = None]
    BY <1>5, <1>6, <1>7, <1>8, <1>9, <1>14, <2>1
  <2>3. QED
    BY <1>7, <1>8, <1>10, <1>14, <2>2 DEF StoreStep
<1>15. CASE a # None /\ b = a /\ d2[j].start = d[j].start /\ d2[j].size \in 1 .. d[j].size
  <2>1. PICK s : s = F[a]
    OBVIOUS
  <2>2. s \in Seq(Stored) /\ Len(s) = d[j].size /\ s = ContentOf(f, data, d[j])
    BY <1>4, <1>7, <1>15, <2>1, ContentIn
  <2>3. G[a] \in Seq(Stored) /\ Len(G[a]) = d2[j].size /\ G[a] = ContentOf(f, data, d2[j])
    BY <1>4, <1>8, <1>15, ContentIn
  <2>4. PICK len : len = d2[j].size
    OBVIOUS
  <2>5. len \in Nat /\ d[j].size \in Nat /\ len \in 1 .. d[j].size
    BY <1>4, <1>15, <2>4 DEF Entry
  <2>6. \A k \in 1 .. len : G[a][k] = s[k]
    <3>1. \A k \in 1 .. len : k \in 1 .. d[j].size
      BY <2>5
    <3>2. QED
      BY <1>15, <2>2, <2>3, <2>4, <3>1 DEF ContentOf
  <2>7. G[a] = SubSeq(s, 1, len)
    BY <2>2, <2>3, <2>4, <2>5, <2>6
  <2>8. G = [F EXCEPT ![a] = SubSeq(F[a], 1, len)]
    BY <1>5, <1>6, <1>7, <1>15, <2>1, <2>7
  <2>9. len \in 1 .. Len(F[a])
    BY <2>1, <2>2, <2>5
  <2>10. QED
    BY <1>7, <1>15, <2>8, <2>9 DEF StoreStep
<1>16. CASE /\ a # None /\ b = a /\ nm = b /\ d[j].size = 0 /\ d2[j].size \in 1 .. MaxLen
            /\ \E p \in Payloads : res = Blocks(d2[j].size, p)
  <2>1. PICK p \in Payloads : res = Blocks(d2[j].size, p)
    BY <1>16
  <2>2. PICK len : len = d2[j].size
    OBVIOUS
  <2>3. len \in Nat /\ len > 0 /\ len <= MaxLen
    BY <1>16, <2>2, FatAssumption
  <2>4. F[a] = << >>
    BY <1>7, <1>16, EmptyFile
  <2>5. res \in Seq(Payloads \X (1 .. MaxLen)) /\ Len(res) = len
    <3>1. \A k \in 1 .. len : <<p, k>> \in Payloads \X (1 .. MaxLen)
      BY <2>3, FatAssumption
    <3>2. res \in [1 .. len -> Payloads \X (1 .. MaxLen)]
      BY <2>1, <2>2, <3>1 DEF Blocks
    <3>3. QED
      BY <2>3, <3>2
  <2>6. res # None
    <3>1. \A k \in 1 .. len : <<p, k>> \in (Payloads \X Nat) \cup {None}
      OBVIOUS
    <3>2. res \in [1 .. len -> (Payloads \X Nat) \cup {None}]
      BY <2>1, <2>2, <3>1 DEF Blocks
    <3>3. res \in Seq((Payloads \X Nat) \cup {None})
      BY <2>3, <3>2
    <3>4. QED
      BY <3>3, FatAssumption
  <2>7. G[a] = res
    BY <1>3, <1>8, <1>16, <2>6 DEF Yields
  <2>8. res # << >>
    BY <2>3, <2>5
  <2>9. G = [F EXCEPT ![a] = G[a]]
    BY <1>5, <1>6, <1>7, <1>16
  <2>10. QED
    BY <1>7, <1>16, <2>4, <2>5, <2>7, <2>8, <2>9 DEF StoreStep
<1>17. QED
  BY <1>2, <1>3, <1>11, <1>12, <1>13, <1>14, <1>15, <1>16 DEF Change

\* The card's files, seen through WriteDir.
LEMMA WriteDirStep ==
  ASSUME IInv, WriteDir,
         NEW F, F = FilesOf(dfat, ddata, ddir), NEW G, G = FilesOf(dfat, ddata, dirents)
  PROVE  StoreStep(F, G)
<1>1. todo = Late
  BY TodoDiffer DEF WriteDir, IInv, TypeOK
<1>2. /\ Good(dfat, ddir) /\ Good(dfat, dirents) /\ ddata \in [Clusters -> Stored]
      /\ Good(fat, dirents) /\ \A s \in Slots : Full(fat, dirents[s])
  BY <1>1, TodoDiffer DEF IInv, CardOK, MemoryOK, LinkedOK, TypeOK
<1>3. PICK j \in Slots : /\ \A s \in Slots \ {j} : dirents[s] = ddir[s]
                         /\ Change(ddir[j], dirents[j], job.name, job.result)
  BY <1>1 DEF IInv, ChangeOK
<1>4. Yields(dfat, ddata, dirents[j], job.name, job.result) \/ dirents[j].name # job.name
  <2>1. SUFFICES ASSUME job.result # None, dirents[j].name = job.name
                 PROVE  ContentOf(dfat, ddata, dirents[j]) = job.result
    BY DEF Yields
  <2>2. PICK s \in Slots : /\ dirents[s].name = job.name /\ job.name # None
                           /\ ContentOf(fat, ddata, dirents[s]) = job.result
    BY <1>1, <2>1 DEF IInv, ResultOK
  <2>3. s = j
    BY <1>2, <2>1, <2>2 DEF Good
  <2>4. dirents[j].start # 0 => Longer(fat, dfat, dirents[j].start)
    BY <1>1 DEF IInv, LinkedOK, CutLater, Longer
  <2>5. dirents[j] \in Entry /\ (dirents[j].start = 0 => dirents[j].size = 0)
    BY <1>2 DEF Good
  <2>6. ContentOf(dfat, ddata, dirents[j]) = ContentOf(fat, ddata, dirents[j])
    BY <1>2, <2>4, <2>5, LinkedFile
  <2>7. QED
    BY <2>2, <2>3, <2>6
<1>5. PICK f : f = dfat
  OBVIOUS
<1>6. PICK data : data = ddata
  OBVIOUS
<1>7. PICK d : d = ddir
  OBVIOUS
<1>8. PICK d2 : d2 = dirents
  OBVIOUS
<1>9. /\ Good(f, d) /\ Good(f, d2) /\ data \in [Clusters -> Stored]
      /\ \A s \in Slots \ {j} : d2[s] = d[s]
      /\ Change(d[j], d2[j], job.name, job.result)
      /\ Yields(f, data, d2[j], job.name, job.result) \/ d2[j].name # job.name
      /\ F = FilesOf(f, data, d) /\ G = FilesOf(f, data, d2)
  BY <1>2, <1>3, <1>4, <1>5, <1>6, <1>7, <1>8
<1>10. QED
  BY <1>9, EntryStep

\* Every step changes the card's files as the store does, or not at all.
LEMMA FilesStep ==
  ASSUME IInv, IInv', [Next]_vars, "overwrite" \notin uses,
         NEW F, F = FilesOf(dfat, ddata, ddir), NEW G, G = FilesOf(dfat', ddata', ddir')
  PROVE  StoreStep(F, G)
<1>1. ASSUME Kept PROVE StoreStep(F, G)
  <2>1. /\ Good(dfat, ddir) /\ Good(dfat', ddir)
        /\ \A s \in Slots : ContentOf(dfat', ddata', ddir[s]) = ContentOf(dfat, ddata, ddir[s])
        /\ ddir' = ddir
    BY <1>1 DEF IInv, CardOK, Kept
  <2>2. PICK g : g = dfat'
    OBVIOUS
  <2>3. PICK nd : nd = ddata'
    OBVIOUS
  <2>4. FilesOf(g, nd, ddir) = FilesOf(dfat, ddata, ddir)
    BY <2>1, <2>2, <2>3, SameFiles
  <2>5. G = F
    BY <2>1, <2>2, <2>3, <2>4
  <2>6. QED
    BY <2>5 DEF StoreStep
<1>2. ASSUME UNCHANGED card PROVE StoreStep(F, G)
  <2>1. Kept
    BY <1>2 DEF card, Kept
  <2>2. QED
    BY <1>1, <2>1
<1>3. CASE UNCHANGED vars
  BY <1>2, <1>3 DEF vars
<1>4. CASE Reboot
  BY <1>2, <1>4 DEF Reboot
<1>5. CASE Call
  <2>1. UNCHANGED card
    BY <1>5 DEF Call, Create, Delete, Read, Rename, Write, Truncate
  <2>2. QED
    BY <1>2, <2>1
<1>6. CASE WriteCluster
  BY <1>1, <1>6, WriteClusterInv
<1>7. CASE WriteFatSector
  <2>1. todo = Early \/ todo = Last
    BY <1>7, SectorFacts, InvFollows
  <2>2. Kept
    BY <1>7, <2>1, EarlySectorInv, LastSectorInv
  <2>3. QED
    BY <1>1, <2>2
<1>8. CASE WriteDir
  <2>1. ddir' = dirents /\ dfat' = dfat /\ ddata' = ddata
    BY <1>8 DEF WriteDir
  <2>2. G = FilesOf(dfat, ddata, dirents)
    BY <2>1
  <2>3. QED
    BY <1>8, <2>2, WriteDirStep
<1>9. QED
  BY <1>3, <1>4, <1>5, <1>6, <1>7, <1>8 DEF Next, Step

\* A step of the store is one of the specification of the card's files.
LEMMA StoreStepIs ==
  ASSUME NEW F, NEW G, F = CardFiles, G = CardFiles', StoreStep(F, G)
  PROVE  [Store!Next]_CardFiles
<1>1. CASE G = F
  BY <1>1
<1>2. CASE \E n \in Names : F[n] = None /\ G = [F EXCEPT ![n] = << >>]
  BY <1>2 DEF Store!Next, Store!Create
<1>3. CASE \E n \in Names : /\ F[n] = << >>
                            /\ G[n] \in Seq(Payloads \X (1 .. MaxLen)) \ {<< >>}
                            /\ G = [F EXCEPT ![n] = G[n]]
  BY <1>3 DEF Store!Next, Store!Write
<1>4. CASE \E n \in Names : F[n] # None /\ \E len \in 1 .. Len(F[n]) :
                              G = [F EXCEPT ![n] = SubSeq(F[n], 1, len)]
  BY <1>4 DEF Store!Next, Store!Truncate
<1>5. CASE \E n \in Names : F[n] # None /\ G = [F EXCEPT ![n] = None]
  BY <1>5 DEF Store!Next, Store!Delete
<1>6. CASE \E old, new \in Names : /\ F[old] # None /\ F[new] = None
                                   /\ G = [F EXCEPT ![new] = F[old], ![old] = None]
  BY <1>6 DEF Store!Next, Store!Rename
<1>7. QED
  BY <1>1, <1>2, <1>3, <1>4, <1>5, <1>6 DEF StoreStep

\* The card's files as the properties and as these lemmas name them.
LEMMA CardFilesAre ==
  /\ WrittenOnce => CardFiles = FilesOf(dfat, ddata, ddir)
  /\ ~WrittenOnce => CardFiles = [n \in Names |-> None]
<1>1. InUse(ddir) = Files
  BY DEF InUse, Files
<1>2. \A s : Content(s) = ContentOf(dfat, ddata, ddir[s])
  BY DEF Content, ContentOf
<1>3. ASSUME WrittenOnce PROVE CardFiles = FilesOf(dfat, ddata, ddir)
  BY <1>1, <1>2, <1>3 DEF CardFiles, FilesOf
<1>4. QED
  BY <1>3 DEF CardFiles

-----------------------------------------------------------------------------
(* No cluster leaks while power does not fail, whatever else the callers   *)
(* do: they may overwrite files and rename onto names in use.              *)

\* Every chain of the directory d is sound, no two meet, and they hold all
\* clusters in use.
Whole(f, d) ==
  /\ \A s \in Slots : d[s].start # 0 => Sound(f, d[s].start)
  /\ \A s, t \in Slots : s # t /\ d[s].start # 0 /\ d[t].start # 0 =>
       Chain(f, d[s].start) \cap Chain(f, d[t].start) = {}
  /\ \A x \in DataClusters : f[x] # FREE =>
       \E s \in Slots : d[s].start # 0 /\ x \in Chain(f, d[s].start)

\* An entry without a name has no clusters, one without clusters no blocks.
Plain(d) ==
  /\ d \in [Slots -> Entry]
  /\ \A s \in Slots : /\ d[s].name = None => d[s].start = 0
                      /\ d[s].start = 0 => d[s].size = 0

\* The block under way goes to a cluster of some file.
Reached ==
  todo = Data =>
    /\ job.left > 0
    /\ \E j \in Slots : dirents[j].start # 0 /\ job.cur \in Chain(fat, dirents[j].start)

LInv == Follows /\ Plain(dirents) /\ Whole(fat, dirents) /\ Reached

LeakInv == uses \in Profiles /\ ("reboot" \notin uses /\ fault = "none" => LInv)

\* Truncating to nothing leaves the entry with a free cluster; truncating an
\* empty file to a greater length writes FAT entry 0.
LeakFreeCallers ==
  \A u \in Profiles : "reboot" \notin u => u \cap {"truncate_zero", "truncate_grow"} = {}

\* The file in slot j changes, and with it the clusters in own: its own, and
\* the free ones in new.  Those that are then in use are on its chain.
LEMMA WholeStep ==
  ASSUME NEW f, NEW d, FatOK(f), Whole(f, d), NEW j \in Slots, NEW h, NEW d2,
         \A s \in Slots \ {j} : d2[s].start = d[s].start,
         NEW new, new \subseteq DataClusters, \A x \in new : f[x] = FREE,
         NEW own, own = Own(f, d, j) \cup new,
         Apart(f, h, own), Own(h, d2, j) \subseteq own,
         \A x \in own : h[x] # FREE => x \in Own(h, d2, j),
         d2[j].start # 0 => d2[j].start \in DataClusters
  PROVE  Whole(h, d2)
<1>1. DataClusters \subseteq 0 .. NEntries - 1
  BY FatAssumption DEF DataClusters
<1>2. ASSUME NEW s \in Slots, d[s].start # 0
      PROVE  /\ Sound(f, d[s].start)
             /\ \A y \in Chain(f, d[s].start) : y \in DataClusters /\ f[y] # FREE
  <2>1. Sound(f, d[s].start)
    BY <1>2 DEF Whole
  <2>2. QED
    BY <2>1, SoundChain
<1>3. own \subseteq DataClusters
  BY <1>2 DEF Own
<1>4. ASSUME NEW s \in Slots, s # j, d[s].start # 0
      PROVE  /\ Chain(h, d[s].start) = Chain(f, d[s].start)
             /\ Chain(f, d[s].start) \cap own = {}
  <2>1. ASSUME NEW y \in Chain(f, d[s].start) PROVE y \notin own
    <3>1. y \notin new
      BY <1>2, <1>4, <2>1
    <3>2. d[j].start # 0 => Chain(f, d[s].start) \cap Chain(f, d[j].start) = {}
      BY <1>4 DEF Whole
    <3>3. y \notin Own(f, d, j)
      BY <2>1, <3>2 DEF Own
    <3>4. QED
      BY <3>1, <3>3
  <2>2. Agree(f, h, d[s].start)
    BY <1>1, <1>2, <1>4, <2>1 DEF Agree, Apart
  <2>3. QED
    BY <2>1, <2>2, SameChain
<1>5. ASSUME NEW s \in Slots, s # j, d2[s].start # 0
      PROVE  /\ d2[s].start = d[s].start
             /\ Chain(h, d2[s].start) = Chain(f, d[s].start) /\ Sound(h, d2[s].start)
             /\ Chain(h, d2[s].start) \cap own = {}
  <2>1. d2[s].start = d[s].start
    BY <1>5
  <2>2. QED
    BY <1>2, <1>4, <1>5, <2>1 DEF Sound
<1>6. d2[j].start # 0 => Sound(h, d2[j].start) /\ Chain(h, d2[j].start) \subseteq own
  BY <1>3 DEF Own, Sound
<1>7. \A s \in Slots : d2[s].start # 0 => Sound(h, d2[s].start)
  BY <1>5, <1>6
<1>8. ASSUME NEW s \in Slots, NEW t \in Slots, s # t, d2[s].start # 0, d2[t].start # 0
      PROVE  Chain(h, d2[s].start) \cap Chain(h, d2[t].start) = {}
  <2>1. CASE s = j
    BY <1>5, <1>6, <1>8, <2>1
  <2>2. CASE t = j
    BY <1>5, <1>6, <1>8, <2>2
  <2>3. CASE s # j /\ t # j
    <3>1. /\ d2[s].start = d[s].start /\ Chain(h, d2[s].start) = Chain(f, d[s].start)
          /\ d2[t].start = d[t].start /\ Chain(h, d2[t].start) = Chain(f, d[t].start)
      BY <1>5, <1>8, <2>3
    <3>2. Chain(f, d[s].start) \cap Chain(f, d[t].start) = {}
      BY <1>8, <3>1 DEF Whole
    <3>3. QED
      BY <3>1, <3>2
  <2>4. QED
    BY <2>1, <2>2, <2>3
<1>9. ASSUME NEW x \in DataClusters, h[x] # FREE
      PROVE  \E s \in Slots : d2[s].start # 0 /\ x \in Chain(h, d2[s].start)
  <2>1. CASE x \in own
    <3>1. x \in Own(h, d2, j)
      BY <1>9, <2>1
    <3>2. QED
      BY <3>1 DEF Own
  <2>2. CASE x \notin own
    <3>1. f[x] # FREE
      BY <1>1, <1>9, <2>2 DEF Apart
    <3>2. PICK s \in Slots : d[s].start # 0 /\ x \in Chain(f, d[s].start)
      BY <3>1 DEF Whole
    <3>3. s # j
      BY <2>2, <3>2 DEF Own
    <3>4. d2[s].start = d[s].start
      BY <3>3
    <3>5. QED
      BY <1>4, <3>2, <3>3, <3>4
  <2>3. QED
    BY <2>1, <2>2
<1>10. QED
  BY <1>7, <1>8, <1>9 DEF Whole

\* What follows the k-th cluster on a chain is a chain itself.
LEMMA RestOfChain ==
  ASSUME NEW f, NEW c, FatOK(f), Sound(f, c), NEW k \in 0 .. NEntries - 1,
         NEW rest, rest = Nth(f, c)[k+1]
  PROVE  Chain(f, rest) = {Nth(f, c)[m] : m \in k + 1 .. NEntries} \ {LAST}
<1>1. PICK g : g = Nth(f, c)
  OBVIOUS
<1>2. PICK T : T = {g[m] : m \in k + 1 .. NEntries} \ {LAST}
  OBVIOUS
<1>3. NEntries \in Nat /\ k \in Nat /\ k + 1 \in k + 1 .. NEntries /\ k + 1 \in 0 .. NEntries
  BY FatAssumption
<1>4. g[NEntries] = LAST
  BY <1>1, SoundChain DEF Ends
<1>5. Chain(f, rest) \subseteq T
  <2>1. rest \in T \cup {LAST}
    BY <1>1, <1>2, <1>3
  <2>2. ASSUME NEW x \in T PROVE f[x] \in T \cup {LAST}
    <3>1. PICK m \in k + 1 .. NEntries : x = g[m] /\ x # LAST
      BY <1>2, <2>2
    <3>2. m \in 0 .. NEntries - 1 /\ m + 1 \in k + 1 .. NEntries
      BY <1>3, <1>4, <3>1
    <3>3. g[m+1] = f[x]
      BY <1>1, <3>1, <3>2, NthStep
    <3>4. QED
      BY <1>2, <3>2, <3>3
  <2>3. QED
    BY <2>1, <2>2, ChainWithin
<1>6. PICK n : n = NEntries - (k + 1)
  OBVIOUS
<1>7. n \in Nat /\ n \in 0 .. NEntries /\ k + 1 + n = NEntries
  BY <1>3, <1>6
<1>8. PICK S : S = {b \in 0 .. n : Nth(f, rest)[b] = g[k + 1 + b]}
  OBVIOUS
<1>9. 0 .. n \subseteq S
  <2>1. 0 \in S
    <3>1. Nth(f, rest)[0] = rest /\ k + 1 + 0 = k + 1
      BY <1>3, NthStep
    <3>2. QED
      BY <1>1, <1>7, <1>8, <3>1
  <2>2. ASSUME NEW b \in 0 .. n - 1, b \in S PROVE b + 1 \in S
    <3>1. /\ b \in 0 .. NEntries - 1 /\ k + 1 + b \in 0 .. NEntries - 1 /\ b + 1 \in 0 .. n
          /\ (k + 1 + b) + 1 = k + 1 + (b + 1)
      BY <1>3, <1>7
    <3>2. Nth(f, rest)[b] = g[k + 1 + b]
      BY <1>8, <2>2
    <3>3. Nth(f, rest)[b+1] = IF Nth(f, rest)[b] = LAST THEN LAST ELSE f[Nth(f, rest)[b]]
      BY <3>1, NthStep
    <3>4. PICK m : m = k + 1 + b
      OBVIOUS
    <3>5. g[m+1] = IF g[m] = LAST THEN LAST ELSE f[g[m]]
      BY <1>1, <3>1, <3>4, NthStep
    <3>6. g[m+1] = g[k + 1 + (b + 1)]
      BY <3>1, <3>4
    <3>7. QED
      BY <1>8, <3>1, <3>2, <3>3, <3>4, <3>5, <3>6
  <2>3. QED
    BY <1>7, <2>1, <2>2, InductTo
<1>10. ASSUME NEW m \in k + 1 .. NEntries, g[m] # LAST PROVE g[m] \in Chain(f, rest)
  <2>1. PICK b : b = m - (k + 1)
    OBVIOUS
  <2>2. b \in 0 .. n /\ b \in 0 .. NEntries /\ k + 1 + b = m
    BY <1>3, <1>7, <2>1
  <2>3. Nth(f, rest)[b] = g[m]
    BY <1>8, <1>9, <2>2
  <2>4. QED
    BY <1>10, <2>2, <2>3, InChain
<1>11. T \subseteq Chain(f, rest)
  BY <1>2, <1>10
<1>12. QED
  BY <1>1, <1>2, <1>5, <1>11

\* Truncating at len clusters, whether the chain has as many or not: what it
\* loses is free.
LEMMA CutFrees ==
  ASSUME NEW f, NEW c, FatOK(f), Sound(f, c), NEW len \in Nat, len > 0,
         NEW h, h = Truncated(f, c, len)
  PROVE  /\ FatOK(h) /\ Apart(f, h, Chain(f, c)) /\ Chain(h, c) \subseteq Chain(f, c)
         /\ \A x \in Chain(f, c) : h[x] # FREE => x \in Chain(h, c)
<1>1. PICK g : g = Nth(f, c)
  OBVIOUS
<1>2. NEntries \in Nat /\ NEntries > 3 /\ LAST = NEntries
  BY FatAssumption DEF LAST
<1>3. g[NEntries] = LAST
  BY <1>1, SoundChain DEF Ends
<1>4. CASE len <= NEntries /\ g[len-1] # LAST
  <2>1. \A k \in 0 .. len - 1 : g[k] \in DataClusters
    <3>1. len - 1 \in 0 .. NEntries /\ \A k \in 0 .. len - 1 : k \in 0 .. NEntries
      BY <1>2, <1>4
    <3>2. \A k \in 0 .. len - 1 : k < len - 1 => g[k] # LAST
      BY <1>1, <1>4, <3>1, StrictlyUp
    <3>3. ASSUME NEW k \in 0 .. len - 1 PROVE g[k] # LAST
      <4>1. k < len - 1 \/ k = len - 1
        BY <3>3
      <4>2. QED
        BY <1>4, <3>2, <4>1
    <3>4. QED
      BY <1>1, <3>1, <3>3, InChain DEF Sound
  <2>2. FatOK(h)
    BY <1>1, <1>4, <2>1, CutChain
  <2>3. \A x \in 0 .. NEntries - 1 : x \notin Chain(f, c) => h[x] = f[x]
    BY <1>1, <1>4, <2>1, CutChain
  <2>4. \A k \in 0 .. len - 1 : Nth(h, c)[k] = g[k]
    BY <1>1, <1>4, <2>1, CutChain
  <2>5. OnlyCut(f, h, c)
    BY <1>1, <1>4, <2>1, CutChain
  <2>6. Chain(h, c) \subseteq Chain(f, c)
    BY <1>2, <2>5 DEF OnlyCut, Sound, DataClusters
  <2>7. ASSUME NEW x \in Chain(f, c), h[x] # FREE PROVE x \in Chain(h, c)
    <3>1. x \in 0 .. NEntries - 1
      BY <1>2 DEF Sound, DataClusters
    <3>2. PICK k \in 0 .. NEntries : g[k] = x /\ x # LAST
      BY <1>1 DEF Chain
    <3>3. ~(k \in len .. NEntries)
      <4>1. h = [y \in 0 .. NEntries - 1 |->
                  CASE \E m \in len .. NEntries : g[m] = y -> FREE
                    [] \E m \in 0 .. NEntries : g[m] = y /\ m + 1 = len -> LAST
                    [] OTHER -> f[y]]
        BY <1>1 DEF Truncated, FatOK
      <4>2. k \in len .. NEntries => \E m \in len .. NEntries : g[m] = x
        BY <3>2
      <4>3. (\E m \in len .. NEntries : g[m] = x) => h[x] = FREE
        <5>1. PICK P : P = \E m \in len .. NEntries : g[m] = x
          OBVIOUS
        <5>2. PICK Q : Q = \E m \in 0 .. NEntries : g[m] = x /\ m + 1 = len
          OBVIOUS
        <5>3. h[x] = CASE P -> FREE [] Q -> LAST [] OTHER -> f[x]
          BY <3>1, <4>1, <5>1, <5>2
        <5>4. ~(P /\ Q)
          <6>1. ASSUME NEW m \in len .. NEntries, NEW i \in 0 .. NEntries,
                       g[m] = x, g[i] = x, i + 1 = len
                PROVE  FALSE
            <7>1. m \in 0 .. NEntries /\ i < m /\ x # LAST
              BY <1>2, <3>1, <6>1
            <7>2. g[i] < g[m]
              BY <1>1, <6>1, <7>1, StrictlyUp
            <7>3. QED
              BY <1>2, <3>1, <6>1, <7>2
          <6>2. QED
            BY <5>1, <5>2, <6>1
        <5>5. QED
          BY <5>1, <5>3, <5>4
      <4>4. QED
        BY <2>7, <4>2, <4>3
    <3>4. k \in 0 .. len - 1
      BY <1>2, <3>3
    <3>5. QED
      BY <2>4, <3>2, <3>4, InChain
  <2>8. QED
    BY <2>2, <2>3, <2>6, <2>7 DEF Apart
<1>5. CASE ~(len <= NEntries /\ g[len-1] # LAST)
  <2>1. ASSUME NEW k \in len - 1 .. NEntries PROVE g[k] = LAST
    <3>1. k \in 0 .. NEntries /\ len <= NEntries + 1
      BY <1>2
    <3>2. CASE len <= NEntries
      <4>1. len - 1 \in 0 .. NEntries /\ g[len-1] = LAST
        BY <1>2, <1>5, <3>2
      <4>2. len - 1 < k /\ g[k] # LAST => g[len-1] # LAST
        BY <1>1, <3>1, <4>1, StrictlyUp
      <4>3. len - 1 < k \/ k = len - 1
        BY <2>1
      <4>4. QED
        BY <4>1, <4>2, <4>3
    <3>3. CASE ~(len <= NEntries)
      <4>1. k = NEntries
        BY <1>2, <2>1, <3>3
      <4>2. QED
        BY <1>3, <4>1
    <3>4. QED
      BY <3>2, <3>3
  <2>2. ASSUME NEW x \in 0 .. NEntries - 1
        PROVE  /\ ~ \E k \in len .. NEntries : g[k] = x
               /\ ~ \E k \in 0 .. NEntries : g[k] = x /\ k + 1 = len
    <3>1. x # LAST
      BY <1>2
    <3>2. \A k \in len .. NEntries : k \in len - 1 .. NEntries
      BY <1>2
    <3>3. \A k \in 0 .. NEntries : k + 1 = len => k \in len - 1 .. NEntries
      BY <1>2
    <3>4. QED
      BY <2>1, <3>1, <3>2, <3>3
  <2>3. h = [x \in 0 .. NEntries - 1 |-> f[x]]
    <3>1. DOMAIN f = 0 .. NEntries - 1
      BY DEF FatOK
    <3>2. h = [x \in 0 .. NEntries - 1 |->
                 CASE \E k \in len .. NEntries : g[k] = x -> FREE
                   [] \E k \in 0 .. NEntries : g[k] = x /\ k + 1 = len -> LAST
                   [] OTHER -> f[x]]
      BY <1>1, <3>1 DEF Truncated
    <3>3. \A x \in 0 .. NEntries - 1 : h[x] = f[x]
      BY <2>2, <3>2
    <3>4. QED
      BY <3>2, <3>3
  <2>4. h = f
    BY <2>3 DEF FatOK
  <2>5. QED
    BY <2>4 DEF Apart
<1>6. QED
  BY <1>4, <1>5

\* The last block of a file that is overwritten: write_cluster_chain frees the
\* rest of the chain, which is to truncate the file there.
LEMMA LastIsCut ==
  ASSUME NEW f, NEW st, FatOK(f), Sound(f, st), NEW k \in 0 .. NEntries,
         NEW c, c = Nth(f, st)[k], c # LAST,
         NEW h, h = [(IF f[c] = LAST THEN f ELSE FreeChain(f, f[c])) EXCEPT ![c] = LAST]
  PROVE  h = Truncated(f, st, k + 1)
<1>1. PICK g : g = Nth(f, st)
  OBVIOUS
<1>2. NEntries \in Nat /\ NEntries > 3 /\ LAST = NEntries /\ k \in Nat
  BY FatAssumption DEF LAST
<1>3. g[NEntries] = LAST
  BY <1>1, SoundChain DEF Ends
<1>4. k \in 0 .. NEntries - 1
  BY <1>1, <1>2, <1>3
<1>5. PICK rest : rest = f[c]
  OBVIOUS
<1>6. g[k+1] = rest
  BY <1>1, <1>4, <1>5, NthStep
<1>7. PICK R : R = {g[m] : m \in k + 1 .. NEntries} \ {LAST}
  OBVIOUS
<1>8. Chain(f, rest) = R
  BY <1>1, <1>4, <1>6, <1>7, RestOfChain
<1>9. c \in 0 .. NEntries - 1 /\ c \notin R
  <2>1. c \in DataClusters
    BY <1>1, InChain DEF Sound
  <2>2. ASSUME NEW m \in k + 1 .. NEntries, g[m] # LAST PROVE g[m] # c
    <3>1. m \in 0 .. NEntries /\ k < m
      BY <1>2
    <3>2. g[k] < g[m]
      BY <1>1, <2>2, <3>1, StrictlyUp
    <3>3. g[k] = c /\ c \in Nat
      BY <1>1, <1>2, <2>1 DEF DataClusters
    <3>4. QED
      BY <3>2, <3>3
  <2>3. QED
    BY <1>2, <1>7, <2>1, <2>2 DEF DataClusters
<1>10. DOMAIN f = 0 .. NEntries - 1
  BY DEF FatOK
<1>11. PICK q : q = IF rest = LAST THEN f ELSE FreeChain(f, rest)
  OBVIOUS
<1>12. q = [x \in 0 .. NEntries - 1 |-> IF x \in R THEN FREE ELSE f[x]]
  <2>1. CASE rest # LAST
    BY <1>8, <1>10, <1>11, <2>1 DEF FreeChain
  <2>2. CASE rest = LAST
    <3>1. Chain(f, LAST) \subseteq {}
      <4>1. PICK S : S = {}
        OBVIOUS
      <4>2. Chain(f, LAST) \subseteq S
        BY <4>1, ChainWithin
      <4>3. QED
        BY <4>1, <4>2
    <3>2. R = {}
      BY <1>8, <2>2, <3>1
    <3>3. f = [x \in 0 .. NEntries - 1 |-> f[x]]
      BY DEF FatOK
    <3>4. QED
      BY <1>11, <2>2, <3>2, <3>3
  <2>3. QED
    BY <2>1, <2>2
<1>13. h = [q EXCEPT ![c] = LAST]
  BY <1>5, <1>11
<1>14. h = [x \in 0 .. NEntries - 1 |->
              IF x = c THEN LAST ELSE IF x \in R THEN FREE ELSE f[x]]
  BY <1>9, <1>12, <1>13
<1>15. ASSUME NEW x \in 0 .. NEntries - 1
       PROVE  /\ x \in R <=> \E m \in k + 1 .. NEntries : g[m] = x
              /\ x = c <=> \E m \in 0 .. NEntries : g[m] = x /\ m + 1 = k + 1
  <2>1. x # LAST
    BY <1>2
  <2>2. x \in R <=> \E m \in k + 1 .. NEntries : g[m] = x
    BY <1>7, <2>1
  <2>3. \A m \in 0 .. NEntries : m + 1 = k + 1 <=> m = k
    BY <1>2
  <2>4. x = c <=> \E m \in 0 .. NEntries : g[m] = x /\ m + 1 = k + 1
    BY <1>1, <2>3
  <2>5. QED
    BY <2>2, <2>4
<1>16. PICK t : t = Truncated(f, st, k + 1)
  OBVIOUS
<1>17. t = [x \in 0 .. NEntries - 1 |->
              CASE \E m \in k + 1 .. NEntries : g[m] = x -> FREE
                [] \E m \in 0 .. NEntries : g[m] = x /\ m + 1 = k + 1 -> LAST
                [] OTHER -> f[x]]
  BY <1>1, <1>10, <1>16 DEF Truncated
<1>18. ASSUME NEW x \in 0 .. NEntries - 1 PROVE h[x] = t[x]
  <2>1. t[x] = IF x \in R THEN FREE ELSE IF x = c THEN LAST ELSE f[x]
    BY <1>9, <1>15, <1>17
  <2>2. QED
    BY <1>9, <1>14, <2>1
<1>19. h = t
  BY <1>14, <1>17, <1>18
<1>20. QED
  BY <1>16, <1>19

\* An idle driver that has leaked nothing.
LEMMA LeakIdle ==
  ASSUME LInv, Idle
  PROVE  /\ todo = << >> /\ dfat = fat /\ dirents = ddir
         /\ FatOK(fat) /\ Plain(ddir) /\ Whole(fat, ddir) /\ ddir \in [Slots -> Entry]
         /\ acked \in [Names -> Contents]
<1>1. todo = << >>
  BY DEF Idle
<1>2. dfat = fat /\ dirents = ddir
  BY <1>1 DEF LInv, Follows, SectorsOK
<1>3. FatOK(fat) /\ acked \in [Names -> Contents] /\ Plain(ddir) /\ Whole(fat, ddir)
  BY <1>2 DEF LInv, Follows
<1>4. QED
  BY <1>1, <1>2, <1>3 DEF Plain

\* A file of a whole directory.
LEMMA WholeFile ==
  ASSUME NEW f, NEW d, FatOK(f), Plain(d), Whole(f, d), NEW j \in Slots, NEW st, st = d[j].start
  PROVE  /\ d[j] \in Entry /\ d[j].name \in Names \cup {None}
         /\ st \in Nat /\ d[j].size \in Nat
         /\ st = 0 => ~(st >= 2) /\ d[j].size = 0 /\ Own(f, d, j) = {}
         /\ st # 0 => /\ Sound(f, st) /\ Ends(f, st) /\ st \in DataClusters /\ st >= 2
                      /\ Own(f, d, j) = Chain(f, st)
<1>1. d[j] \in Entry
  BY DEF Plain
<1>2. d[j].name \in Names \cup {None} /\ st \in Nat /\ d[j].size \in Nat
  BY <1>1 DEF Entry
<1>3. st = 0 => ~(st >= 2) /\ d[j].size = 0 /\ Own(f, d, j) = {}
  <2>1. st = 0 => ~(st >= 2)
    OBVIOUS
  <2>2. st = 0 => d[j].size = 0
    BY DEF Plain
  <2>3. st = 0 => Own(f, d, j) = {}
    BY DEF Own
  <2>4. QED
    BY <2>1, <2>2, <2>3
<1>4. ASSUME st # 0
      PROVE  /\ Sound(f, st) /\ Ends(f, st) /\ st \in DataClusters /\ st >= 2
             /\ Own(f, d, j) = Chain(f, st)
  <2>1. Sound(f, st)
    BY <1>4 DEF Whole
  <2>2. st \in DataClusters /\ Ends(f, st)
    BY <2>1, SoundChain DEF Sound
  <2>3. st >= 2
    BY <2>2, FatAssumption DEF DataClusters
  <2>4. Own(f, d, j) = Chain(f, st)
    BY <1>4 DEF Own
  <2>5. QED
    BY <2>1, <2>2, <2>3, <2>4
<1>5. QED
  BY <1>1, <1>2, <1>3, <1>4

\* Names and sizes do not matter.
LEMMA SameStarts ==
  ASSUME NEW f, NEW d, NEW d2, Whole(f, d), \A s \in Slots : d2[s].start = d[s].start
  PROVE  Whole(f, d2)
BY DEF Whole

\* One entry of a plain directory changes.
LEMMA PlainChanged ==
  ASSUME NEW d, Plain(d), NEW j \in Slots, NEW e \in Entry,
         e.name = None => e.start = 0, e.start = 0 => e.size = 0,
         NEW d2, d2 = Changed(d, j, e)
  PROVE  Plain(d2) /\ d2[j] = e /\ \A s \in Slots \ {j} : d2[s] = d[s]
<1>1. d \in [Slots -> Entry]
  BY DEF Plain
<1>2. d2 \in [Slots -> Entry] /\ d2[j] = e /\ \A s \in Slots \ {j} : d2[s] = d[s]
  BY <1>1 DEF Changed
<1>3. QED
  BY <1>2 DEF Plain

\* A step that leaves the card alone before a sector is written.
LEMMA FollowsOn ==
  ASSUME FatOK(dfat), dfat' = dfat, NEW h, h = fat', FatOK(h),
         job' \in Jobs, job'.sec = 0, acked' \in [Names -> Contents],
         todo' \in {Data, Early, Late}
  PROVE  Follows'
<1>1. todo' \in {<< >>, Data, Early, Late, Last} /\ todo' \notin {<< >>, Last}
  BY TodoDiffer
<1>2. \A x \in 0 .. NEntries - 1 : ~(x \div PerSector < 0)
  BY SectorsAscend
<1>3. SectorsOK'
  BY <1>1, <1>2 DEF SectorsOK
<1>4. FatOK(fat)' /\ FatOK(dfat)'
  BY DEF FatOK
<1>5. QED
  BY <1>1, <1>3, <1>4 DEF Follows

\* The first step of an operation that needs no new cluster.
LEMMA LateLeak ==
  ASSUME LInv, Idle, NEW j \in Slots, NEW e \in Entry,
         e.name = None => e.start = 0, e.start = 0 => e.size = 0,
         NEW d2, d2 = Changed(ddir, j, e),
         NEW h, h = fat', FatOK(h), Whole(h, d2),
         NEW ns, NEW nm \in Names, NEW res \in Contents,
         Start(ns, d2, Late, nm, res), UNCHANGED card
  PROVE  LInv'
<1>1. /\ FatOK(fat) /\ dfat = fat /\ Plain(ddir) /\ acked \in [Names -> Contents]
  BY LeakIdle
<1>2. dfat' = dfat
  BY DEF card
<1>3. dirents' = d2 /\ todo' = Late
  BY DEF Start
<1>4. acked' \in [Names -> Contents]
  <2>1. acked' = [m \in Names |-> IF m \in ns THEN None ELSE acked[m]]
    BY DEF Start
  <2>2. None \in Contents
    BY DEF Contents
  <2>3. QED
    BY <1>1, <2>1, <2>2
<1>5. job' \in Jobs /\ job'.sec = 0
  <2>1. job' = JobFor(nm, res)
    BY DEF Start, JobFor
  <2>2. QED
    BY <2>1, JobFields
<1>6. Follows'
  BY <1>1, <1>2, <1>3, <1>4, <1>5, FollowsOn
<1>7. Plain(d2)
  BY <1>1, PlainChanged
<1>8. Plain(dirents')
  BY <1>3, <1>7
<1>9. Whole(fat', dirents')
  BY <1>3
<1>10. Reached'
  BY <1>3, TodoDiffer DEF Reached
<1>11. QED
  BY <1>6, <1>8, <1>9, <1>10 DEF LInv

\* fat32_create takes an entry without clusters.
LEMMA CreateLeak ==
  ASSUME LInv, NEW n \in Names, Create(n), fault' = "none"
  PROVE  LInv'
<1>1. Idle /\ UNCHANGED card
  BY DEF Create
<1>2. FreeSlots # {}
  BY DEF Create, Fail
<1>3. /\ FatOK(fat) /\ Plain(ddir) /\ Whole(fat, ddir)
  BY <1>1, LeakIdle
<1>4. PICK j : j = Min(FreeSlots)
  OBVIOUS
<1>5. j \in Slots /\ ddir[j].name = None
  <2>1. FreeSlots \subseteq Nat
    BY FatAssumption DEF FreeSlots, Slots
  <2>2. j \in FreeSlots
    BY <1>2, <1>4, <2>1, MinIn
  <2>3. QED
    BY <2>2 DEF FreeSlots
<1>6. PICK e : e = [NoEntry EXCEPT !.name = n]
  OBVIOUS
<1>7. e \in Entry /\ e.name = n /\ e.start = 0 /\ e.size = 0
  BY <1>6 DEF NoEntry, Entry
<1>8. PICK d2 : d2 = Changed(ddir, j, e)
  OBVIOUS
<1>9. PICK res : res = << >>
  OBVIOUS
<1>10. PICK ns : ns = {n}
  OBVIOUS
<1>11. PICK h : h = fat'
  OBVIOUS
<1>12. Start(ns, d2, Late, n, res) /\ h = fat
  BY <1>2, <1>4, <1>6, <1>8, <1>9, <1>10, <1>11 DEF Create, Changed, Late
<1>13. d2[j] = e /\ \A s \in Slots \ {j} : d2[s] = ddir[s]
  BY <1>3, <1>5, <1>7, <1>8, PlainChanged
<1>14. Whole(h, d2)
  <2>1. ddir[j].start = 0
    BY <1>3, <1>5 DEF Plain
  <2>2. \A s \in Slots : d2[s].start = ddir[s].start
    BY <1>7, <1>13, <2>1
  <2>3. QED
    BY <1>3, <1>12, <2>2, SameStarts
<1>15. res \in Contents /\ FatOK(h)
  BY <1>3, <1>9, <1>12 DEF Contents
<1>16. QED
  BY <1>1, <1>5, <1>7, <1>8, <1>11, <1>12, <1>14, <1>15, LateLeak

\* fat32_delete frees all clusters of the file.
LEMMA DeleteLeak ==
  ASSUME LInv, NEW n \in Names, Delete(n)
  PROVE  LInv'
<1>1. Idle /\ Found(n) # {} /\ UNCHANGED card
  BY DEF Delete
<1>2. PICK j : j = Slot(n)
  OBVIOUS
<1>3. j \in Slots /\ ddir[j].name = n
  BY <1>1, <1>2, SlotIs
<1>4. /\ FatOK(fat) /\ Plain(ddir) /\ Whole(fat, ddir)
  BY <1>1, LeakIdle
<1>5. PICK st : st = ddir[j].start
  OBVIOUS
<1>6. /\ st = 0 => ~(st >= 2)
      /\ st # 0 => Sound(fat, st) /\ Ends(fat, st) /\ st >= 2 /\ Own(fat, ddir, j) = Chain(fat, st)
  BY <1>3, <1>4, <1>5, WholeFile
<1>7. PICK h : h = fat'
  OBVIOUS
<1>8. PICK e : e = NoEntry
  OBVIOUS
<1>9. PICK d2 : d2 = Changed(ddir, j, e)
  OBVIOUS
<1>10. PICK ns : ns = {n}
  OBVIOUS
<1>11. ~(st >= 2 /\ ~Ends(fat, st))
  BY <1>6
<1>12. /\ h = IF st >= 2 THEN FreeChain(fat, st) ELSE fat
       /\ Start(ns, d2, Late, n, None)
  BY <1>2, <1>5, <1>7, <1>8, <1>9, <1>10, <1>11 DEF Delete, Changed, Late
<1>13. e \in Entry /\ e.name = None /\ e.start = 0 /\ e.size = 0
  BY <1>8 DEF NoEntry, Entry
<1>14. d2[j] = e /\ \A s \in Slots \ {j} : d2[s] = ddir[s]
  BY <1>3, <1>4, <1>9, <1>13, PlainChanged
<1>15. CASE st = 0
  <2>1. h = fat
    BY <1>6, <1>12, <1>15
  <2>2. \A s \in Slots : d2[s].start = ddir[s].start
    BY <1>5, <1>13, <1>14, <1>15
  <2>3. Whole(h, d2)
    BY <1>4, <2>1, <2>2, SameStarts
  <2>4. None \in Contents
    BY DEF Contents
  <2>5. QED
    BY <1>1, <1>3, <1>4, <1>7, <1>9, <1>12, <1>13, <2>1, <2>3, <2>4, LateLeak
<1>16. CASE st # 0
  <2>1. h = FreeChain(fat, st)
    BY <1>6, <1>12, <1>16
  <2>2. FatOK(h) /\ \A x \in 0 .. NEntries - 1 : x \notin Chain(fat, st) => h[x] = fat[x]
    BY <1>4, <2>1, FreedChain
  <2>3. PICK own : own = Own(fat, ddir, j) \cup {}
    OBVIOUS
  <2>4. own = Chain(fat, st)
    BY <1>6, <1>16, <2>3
  <2>5. Apart(fat, h, own)
    BY <2>2, <2>4 DEF Apart
  <2>6. \A x \in own : h[x] = FREE
    <3>1. DOMAIN fat = 0 .. NEntries - 1
      BY <1>4 DEF FatOK
    <3>2. own \subseteq 0 .. NEntries - 1
      BY <1>6, <1>16, <2>4, FatAssumption DEF Sound, DataClusters
    <3>3. QED
      BY <2>1, <2>4, <3>1, <3>2 DEF FreeChain
  <2>7. Own(h, d2, j) = {} /\ d2[j].start = 0
    BY <1>13, <1>14 DEF Own
  <2>8. PICK new : new = {}
    OBVIOUS
  <2>9. /\ own = Own(fat, ddir, j) \cup new /\ new \subseteq DataClusters
        /\ \A x \in new : fat[x] = FREE
    BY <2>3, <2>8
  <2>10. /\ Own(h, d2, j) \subseteq own /\ \A x \in own : h[x] # FREE => x \in Own(h, d2, j)
         /\ \A s \in Slots \ {j} : d2[s].start = ddir[s].start
         /\ d2[j].start # 0 => d2[j].start \in DataClusters
    BY <1>14, <2>6, <2>7
  <2>11. Whole(h, d2)
    BY <1>3, <1>4, <2>5, <2>9, <2>10, WholeStep
  <2>12. None \in Contents
    BY DEF Contents
  <2>13. QED
    BY <1>1, <1>3, <1>7, <1>9, <1>12, <1>13, <2>2, <2>11, <2>12, LateLeak
<1>17. QED
  BY <1>15, <1>16

\* fat32_rename moves no cluster, whatever has the new name.
LEMMA RenameLeak ==
  ASSUME LInv, NEW old \in Names, NEW new \in Names, Rename(old, new)
  PROVE  LInv'
<1>1. Idle /\ Found(old) # {} /\ UNCHANGED card
  BY DEF Rename
<1>2. PICK j : j = Slot(old)
  OBVIOUS
<1>3. j \in Slots /\ ddir[j].name = old
  BY <1>1, <1>2, SlotIs
<1>4. /\ FatOK(fat) /\ Plain(ddir) /\ Whole(fat, ddir)
      /\ ddir \in [Slots -> Entry] /\ acked \in [Names -> Contents]
  BY <1>1, LeakIdle
<1>5. PICK h : h = fat'
  OBVIOUS
<1>6. PICK e : e = [ddir[j] EXCEPT !.name = new]
  OBVIOUS
<1>7. PICK d2 : d2 = Changed(ddir, j, e)
  OBVIOUS
<1>8. PICK ns : ns = {old, new}
  OBVIOUS
<1>9. PICK res : res = acked[old]
  OBVIOUS
<1>10. d2 = [ddir EXCEPT ![j].name = new]
  BY <1>3, <1>4, <1>6, <1>7 DEF Changed
<1>11. h = fat /\ Start(ns, d2, Late, new, res)
  BY <1>2, <1>5, <1>8, <1>9, <1>10 DEF Rename, Late
<1>12. ddir[j] \in Entry
  BY <1>3, <1>4
<1>13. e \in Entry /\ e.name = new /\ e.start = ddir[j].start /\ e.size = ddir[j].size
  BY <1>6, <1>12 DEF Entry
<1>14. /\ e.name = None => e.start = 0
       /\ e.start = 0 => e.size = 0
  BY <1>3, <1>4, <1>13, FatAssumption DEF Plain
<1>15. d2[j] = e /\ \A s \in Slots \ {j} : d2[s] = ddir[s]
  BY <1>3, <1>4, <1>7, <1>13, <1>14, PlainChanged
<1>16. Whole(h, d2)
  <2>1. \A s \in Slots : d2[s].start = ddir[s].start
    BY <1>13, <1>15
  <2>2. QED
    BY <1>4, <1>11, <2>1, SameStarts
<1>17. res \in Contents /\ FatOK(h)
  BY <1>4, <1>9, <1>11
<1>18. QED
  BY <1>1, <1>3, <1>5, <1>7, <1>11, <1>13, <1>14, <1>16, <1>17, LateLeak

\* fat32_truncate frees what it cuts off, as long as it leaves a cluster.
LEMMA TruncateLeak ==
  ASSUME LInv, "truncate_zero" \notin uses, "truncate_grow" \notin uses,
         NEW n \in Names, NEW len \in 0 .. MaxLen, Truncate(n, len)
  PROVE  LInv'
<1>1. Idle /\ Found(n) # {} /\ UNCHANGED card
  BY DEF Truncate
<1>2. PICK j : j = Slot(n)
  OBVIOUS
<1>3. j \in Slots /\ ddir[j].name = n
  BY <1>1, <1>2, SlotIs
<1>4. /\ FatOK(fat) /\ Plain(ddir) /\ Whole(fat, ddir)
      /\ ddir \in [Slots -> Entry] /\ acked \in [Names -> Contents]
  BY <1>1, LeakIdle
<1>5. PICK c : c = ddir[j].start
  OBVIOUS
<1>6. PICK h : h = fat'
  OBVIOUS
<1>7. PICK e : e = [ddir[j] EXCEPT !.size = len]
  OBVIOUS
<1>8. PICK d2 : d2 = Changed(ddir, j, e)
  OBVIOUS
<1>9. PICK ns : ns = {n}
  OBVIOUS
<1>10. PICK res : res = Cut(acked[n], len)
  OBVIOUS
<1>11. ddir[j] \in Entry
  BY <1>3, <1>4
<1>12. e \in Entry /\ e.name = n /\ e.start = c /\ e.size = len /\ len \in Nat
  BY <1>3, <1>5, <1>7, <1>11, FatAssumption DEF Entry
<1>13. len > 0 /\ len <= ddir[j].size /\ ddir[j].size \in Nat
  BY <1>2, <1>11, <1>12 DEF Truncate, Entry
<1>14. c # 0 /\ Sound(fat, c) /\ Ends(fat, c) /\ c \in DataClusters
       /\ Own(fat, ddir, j) = Chain(fat, c)
  <2>1. ddir[j].size # 0
    BY <1>12, <1>13
  <2>2. c # 0
    BY <1>3, <1>4, <1>5, <2>1 DEF Plain
  <2>3. QED
    BY <1>3, <1>4, <1>5, <2>2, WholeFile
<1>15. d2 = [ddir EXCEPT ![j].size = len]
  BY <1>3, <1>4, <1>7, <1>8 DEF Changed
<1>16. h = Truncated(fat, c, len) /\ Start(ns, d2, Late, n, res)
  BY <1>2, <1>5, <1>6, <1>9, <1>10, <1>14, <1>15 DEF Truncate, Truncated, Late
<1>17. /\ FatOK(h) /\ Apart(fat, h, Chain(fat, c)) /\ Chain(h, c) \subseteq Chain(fat, c)
       /\ \A x \in Chain(fat, c) : h[x] # FREE => x \in Chain(h, c)
  BY <1>4, <1>12, <1>13, <1>14, <1>16, CutFrees
<1>18. /\ e.name = None => e.start = 0
       /\ e.start = 0 => e.size = 0
  BY <1>12, <1>14, FatAssumption
<1>19. d2[j] = e /\ \A s \in Slots \ {j} : d2[s] = ddir[s]
  BY <1>3, <1>4, <1>8, <1>12, <1>18, PlainChanged
<1>20. Whole(h, d2)
  <2>1. PICK new : new = {}
    OBVIOUS
  <2>2. PICK own : own = Own(fat, ddir, j) \cup new
    OBVIOUS
  <2>3. own = Chain(fat, c) /\ Own(h, d2, j) = Chain(h, c)
    BY <1>12, <1>14, <1>19, <2>1, <2>2 DEF Own
  <2>4. new \subseteq DataClusters /\ \A x \in new : fat[x] = FREE
    BY <2>1
  <2>5. /\ Apart(fat, h, own) /\ Own(h, d2, j) \subseteq own
        /\ \A x \in own : h[x] # FREE => x \in Own(h, d2, j)
        /\ \A s \in Slots \ {j} : d2[s].start = ddir[s].start
        /\ d2[j].start # 0 => d2[j].start \in DataClusters
    BY <1>12, <1>14, <1>17, <1>19, <2>3
  <2>6. QED
    BY <1>3, <1>4, <2>2, <2>4, <2>5, WholeStep
<1>21. res \in Contents
  <2>1. CASE acked[n] = None
    BY <1>10, <2>1 DEF Cut, Contents
  <2>2. CASE acked[n] # None
    <3>1. PICK s : s = acked[n]
      OBVIOUS
    <3>2. s \in Seq(Stored)
      BY <1>4, <2>2, <3>1 DEF Contents
    <3>3. CASE len <= Len(s)
      <4>1. res = SubSeq(s, 1, len)
        BY <1>10, <2>2, <3>1, <3>3 DEF Cut
      <4>2. SubSeq(s, 1, len) \in Seq(Stored)
        BY <1>12, <1>13, <3>2, <3>3
      <4>3. QED
        BY <4>1, <4>2 DEF Contents
    <3>4. CASE ~(len <= Len(s))
      BY <1>10, <2>2, <3>1, <3>4 DEF Cut, Contents
    <3>5. QED
      BY <3>3, <3>4
  <2>3. QED
    BY <2>1, <2>2
<1>22. QED
  BY <1>1, <1>3, <1>6, <1>8, <1>12, <1>16, <1>17, <1>18, <1>20, <1>21, LateLeak

\* The lowest free cluster, and a chain of it alone.
LEMMA FirstFree ==
  ASSUME NEW f, FatOK(f), FreeFrom(f, 3) # {}, NEW x, x = Min(FreeFrom(f, 3)),
         NEW h, h = [f EXCEPT ![x] = LAST]
  PROVE  /\ x \in DataClusters /\ f[x] = FREE /\ x \in Nat /\ x # 0
         /\ FatOK(h) /\ Apart(f, h, {x}) /\ Chain(h, x) = {x}
<1>1. NEntries \in Nat /\ NEntries > 3 /\ LAST = NEntries /\ FREE = 0
  BY FatAssumption DEF LAST, FREE
<1>2. x \in DataClusters /\ f[x] = FREE /\ x \in Nat /\ x # 0
  <2>1. FreeFrom(f, 3) \subseteq Nat
    BY <1>1 DEF FreeFrom, Clusters
  <2>2. x \in FreeFrom(f, 3)
    BY <2>1, MinIn
  <2>3. QED
    BY <1>1, <2>2 DEF FreeFrom, Clusters, DataClusters
<1>3. x \in 0 .. NEntries - 1 /\ x # LAST /\ DataClusters \subseteq 0 .. NEntries - 1
  BY <1>1, <1>2 DEF DataClusters
<1>4. h[x] = LAST /\ \A y \in 0 .. NEntries - 1 : y # x => h[y] = f[y]
  BY <1>3 DEF FatOK
<1>5. h \in [0 .. NEntries - 1 -> 0 .. NEntries]
  <2>1. LAST \in 0 .. NEntries /\ f \in [0 .. NEntries - 1 -> 0 .. NEntries]
    BY <1>1 DEF FatOK
  <2>2. QED
    BY <2>1
<1>6. ASSUME NEW y \in DataClusters PROVE h[y] = FREE \/ y < h[y]
  <2>1. CASE y = x
    BY <1>1, <1>2, <1>4, <2>1 DEF DataClusters
  <2>2. CASE y # x
    BY <1>3, <1>4, <2>2 DEF FatOK
  <2>3. QED
    BY <2>1, <2>2
<1>7. FatOK(h)
  BY <1>5, <1>6 DEF FatOK
<1>8. Apart(f, h, {x})
  BY <1>4 DEF Apart
<1>9. Chain(h, x) \subseteq {x}
  <2>1. PICK S : S = {x}
    OBVIOUS
  <2>2. x \in S \cup {LAST} /\ \A y \in S : h[y] \in S \cup {LAST}
    BY <1>4, <2>1
  <2>3. Chain(h, x) \subseteq S
    BY <2>2, ChainWithin
  <2>4. QED
    BY <2>1, <2>3
<1>10. x \in Chain(h, x)
  <2>1. 0 \in 0 .. NEntries /\ Nth(h, x)[0] = x
    BY <1>1, NthStep
  <2>2. QED
    BY <1>3, <2>1, InChain
<1>11. QED
  BY <1>2, <1>7, <1>8, <1>9, <1>10

\* fat32_write marks the first cluster of a file that has none, or changes the
\* size alone.
LEMMA WriteLeak ==
  ASSUME LInv, NEW n \in Names, NEW len \in 0 .. MaxLen, NEW p \in Payloads,
         Write(n, len, p), fault' = "none"
  PROVE  LInv'
<1>1. Idle /\ Found(n) # {} /\ UNCHANGED card
  BY DEF Write
<1>2. PICK j : j = Slot(n)
  OBVIOUS
<1>3. j \in Slots /\ ddir[j].name = n
  BY <1>1, <1>2, SlotIs
<1>4. /\ FatOK(fat) /\ dfat = fat /\ Plain(ddir) /\ Whole(fat, ddir)
      /\ ddir \in [Slots -> Entry] /\ acked \in [Names -> Contents]
  BY <1>1, LeakIdle
<1>5. dfat' = dfat
  BY <1>1 DEF card
<1>6. PICK st : st = ddir[j].start
  OBVIOUS
<1>7. /\ ddir[j] \in Entry /\ st \in Nat
      /\ st = 0 => Own(fat, ddir, j) = {}
      /\ st # 0 => Sound(fat, st) /\ st \in DataClusters /\ Own(fat, ddir, j) = Chain(fat, st)
  BY <1>3, <1>4, <1>6, WholeFile
<1>8. len \in Nat /\ (len = 0 \/ len > 0) /\ n # None
  BY FatAssumption
<1>9. PICK x : x = Min(FreeFrom(fat, 3))
  OBVIOUS
<1>10. ~(st = 0 /\ len > 0 /\ FreeFrom(fat, 3) = {})
  BY <1>2, <1>6 DEF Write, Fail
<1>11. \/ /\ st = 0 /\ len > 0 /\ FreeFrom(fat, 3) # {}
          /\ WriteStart(n, len, p, j, x, [fat EXCEPT ![x] = LAST], Data)
       \/ /\ st # 0 \/ len = 0
          /\ WriteStart(n, len, p, j, st, fat, IF len > 0 THEN Data ELSE Late)
  BY <1>1, <1>2, <1>4, <1>6, <1>9, <1>10, WriteCases
<1>12. ASSUME NEW c \in Nat, NEW h, FatOK(h), NEW todoNew,
              todoNew = IF len > 0 THEN Data ELSE Late,
              WriteStart(n, len, p, j, c, h, todoNew),
              NEW d2, d2 = Changed(ddir, j, [ddir[j] EXCEPT !.size = len, !.start = c]),
              Whole(h, d2), len > 0 => c # 0 /\ c \in Chain(h, c)
       PROVE  LInv'
  <2>1. PICK e : e = [ddir[j] EXCEPT !.size = len, !.start = c]
    OBVIOUS
  <2>2. e \in Entry /\ e.name = n /\ e.start = c /\ e.size = len
    <3>1. e = [name |-> ddir[j].name, start |-> c, size |-> len]
      BY <1>7, <2>1 DEF Entry
    <3>2. QED
      BY <1>3, <1>8, <3>1 DEF Entry
  <2>3. /\ e.name = None => e.start = 0
        /\ e.start = 0 => e.size = 0
    BY <1>8, <1>12, <2>2
  <2>4. d2 = Changed(ddir, j, e)
    BY <1>12, <2>1
  <2>5. Plain(d2) /\ d2[j] = e
    BY <1>3, <1>4, <2>2, <2>3, <2>4, PlainChanged
  <2>6. /\ fat' = h /\ dirents' = d2 /\ todo' = todoNew /\ job' = WriteJob(c, len, p, n)
        /\ acked' = [m \in Names |-> IF m \in {n} THEN None ELSE acked[m]]
    BY <1>12 DEF WriteStart
  <2>7. PICK r : r = WriteJob(c, len, p, n)
    OBVIOUS
  <2>8. r \in Jobs /\ r.sec = 0 /\ r.cur = c /\ r.left = len
    BY <1>8, <1>12, <2>7, WriteJobFields
  <2>9. acked' \in [Names -> Contents]
    <3>1. None \in Contents
      BY DEF Contents
    <3>2. QED
      BY <1>4, <2>6, <3>1
  <2>10. todo' \in {Data, Early, Late}
    BY <1>12, <2>6
  <2>11. Follows'
    <3>1. job' \in Jobs /\ job'.sec = 0 /\ FatOK(dfat) /\ h = fat'
      BY <1>4, <2>6, <2>7, <2>8
    <3>2. QED
      BY <1>5, <1>12, <2>9, <2>10, <3>1, FollowsOn
  <2>12. Plain(dirents') /\ Whole(fat', dirents')
    BY <1>12, <2>5, <2>6
  <2>13. Reached'
    <3>1. CASE len > 0
      <4>1. job'.left > 0 /\ job'.cur = c
        BY <2>6, <2>7, <2>8, <3>1
      <4>2. dirents'[j].start = c /\ c # 0 /\ c \in Chain(fat', c)
        BY <1>12, <2>2, <2>5, <2>6, <3>1
      <4>3. dirents'[j].start # 0 /\ job'.cur \in Chain(fat', dirents'[j].start)
        BY <4>1, <4>2
      <4>4. QED
        BY <1>3, <4>1, <4>3 DEF Reached
    <3>2. CASE ~(len > 0)
      BY <1>12, <2>6, <3>2, TodoDiffer DEF Reached
    <3>3. QED
      BY <3>1, <3>2
  <2>14. QED
    BY <2>11, <2>12, <2>13 DEF LInv
<1>13. CASE /\ st = 0 /\ len > 0 /\ FreeFrom(fat, 3) # {}
            /\ WriteStart(n, len, p, j, x, [fat EXCEPT ![x] = LAST], Data)
  <2>1. PICK h : h = [fat EXCEPT ![x] = LAST]
    OBVIOUS
  <2>2. /\ x \in DataClusters /\ fat[x] = FREE /\ x \in Nat /\ x # 0
        /\ FatOK(h) /\ Apart(fat, h, {x}) /\ Chain(h, x) = {x}
    BY <1>4, <1>9, <1>13, <2>1, FirstFree
  <2>3. PICK d2 : d2 = Changed(ddir, j, [ddir[j] EXCEPT !.size = len, !.start = x])
    OBVIOUS
  <2>4. d2[j].start = x /\ \A s \in Slots \ {j} : d2[s] = ddir[s]
    BY <1>3, <1>4, <1>7, <2>3 DEF Changed, Entry
  <2>5. PICK new : new = {x}
    OBVIOUS
  <2>6. PICK own : own = Own(fat, ddir, j) \cup new
    OBVIOUS
  <2>7. own = {x} /\ Own(h, d2, j) = {x}
    BY <1>7, <1>13, <2>2, <2>4, <2>5, <2>6 DEF Own
  <2>8. new \subseteq DataClusters /\ \A y \in new : fat[y] = FREE
    BY <2>2, <2>5
  <2>9. /\ Apart(fat, h, own) /\ Own(h, d2, j) \subseteq own
        /\ \A y \in own : h[y] # FREE => y \in Own(h, d2, j)
        /\ \A s \in Slots \ {j} : d2[s].start = ddir[s].start
        /\ d2[j].start # 0 => d2[j].start \in DataClusters
    BY <2>2, <2>4, <2>7
  <2>10. Whole(h, d2)
    BY <1>3, <1>4, <2>6, <2>8, <2>9, WholeStep
  <2>11. x \in Chain(h, x)
    BY <2>2
  <2>12. PICK todoNew : todoNew = Data
    OBVIOUS
  <2>13. todoNew = (IF len > 0 THEN Data ELSE Late) /\ WriteStart(n, len, p, j, x, h, todoNew)
    BY <1>13, <2>1, <2>12
  <2>14. QED
    BY <1>12, <2>2, <2>3, <2>10, <2>11, <2>13
<1>14. CASE /\ st # 0 \/ len = 0
            /\ WriteStart(n, len, p, j, st, fat, IF len > 0 THEN Data ELSE Late)
  <2>1. PICK d2 : d2 = Changed(ddir, j, [ddir[j] EXCEPT !.size = len, !.start = st])
    OBVIOUS
  <2>2. \A s \in Slots : d2[s].start = ddir[s].start
    BY <1>3, <1>4, <1>6, <1>7, <2>1 DEF Changed, Entry
  <2>3. Whole(fat, d2)
    BY <1>4, <2>2, SameStarts
  <2>4. len > 0 => st # 0 /\ st \in Chain(fat, st)
    BY <1>4, <1>7, <1>14, SoundChain
  <2>5. PICK todoNew : todoNew = IF len > 0 THEN Data ELSE Late
    OBVIOUS
  <2>6. WriteStart(n, len, p, j, st, fat, todoNew)
    BY <1>14, <2>5
  <2>7. QED
    BY <1>4, <1>7, <1>12, <2>1, <2>3, <2>4, <2>5, <2>6
<1>15. QED
  BY <1>11, <1>13, <1>14

\* The cluster linked behind the last one is then part of the file.
LEMMA LinkedAll ==
  ASSUME NEW f, FatOK(f), NEW st, Sound(f, st), NEW k \in 0 .. NEntries - 1, k + 3 < NEntries,
         NEW c \in DataClusters, Nth(f, st)[k] = c, f[c] = LAST,
         NEW x \in DataClusters, f[x] = FREE, c < x, NEW h, h = Link(f, c, x)
  PROVE  Chain(h, st) = Chain(f, st) \cup {x}
<1>1. NEntries \in Nat /\ NEntries > 3 /\ LAST = NEntries /\ k \in Nat
  BY FatAssumption DEF LAST
<1>2. PICK g : g = Nth(f, st)
  OBVIOUS
<1>3. PICK w : w = Nth(h, st)
  OBVIOUS
<1>4. /\ Chain(h, st) \subseteq Chain(f, st) \cup {x}
      /\ \A m \in 0 .. k : w[m] = g[m]
      /\ w[k+1] = x
  <2>1. /\ Chain(h, st) \subseteq Chain(f, st) \cup {x}
        /\ \A m \in 0 .. k : Nth(h, st)[m] = Nth(f, st)[m]
        /\ Nth(h, st)[k+1] = x
    BY <1>1, LinkedChain
  <2>2. QED
    BY <1>2, <1>3, <2>1
<1>5. x \in Chain(h, st)
  <2>1. k + 1 \in 0 .. NEntries /\ x # LAST
    BY <1>1 DEF DataClusters
  <2>2. QED
    BY <1>3, <1>4, <2>1, InChain
<1>6. g[k+1] = LAST
  <2>1. c # LAST
    BY <1>1 DEF DataClusters
  <2>2. QED
    BY <1>2, <2>1, NthStep
<1>7. ASSUME NEW y \in Chain(f, st) PROVE y \in Chain(h, st)
  <2>1. PICK m \in 0 .. NEntries : g[m] = y /\ y # LAST
    BY <1>2 DEF Chain
  <2>2. m # k + 1
    BY <1>6, <2>1
  <2>3. ~(k + 1 < m)
    <3>1. k + 1 \in 0 .. NEntries
      BY <1>1
    <3>2. k + 1 < m /\ g[m] # LAST => g[k+1] # LAST
      BY <1>2, <2>1, <3>1, StrictlyUp
    <3>3. QED
      BY <1>6, <2>1, <3>2
  <2>4. m \in 0 .. k
    BY <1>1, <2>1, <2>2, <2>3
  <2>5. w[m] = y
    BY <1>4, <2>1, <2>4
  <2>6. QED
    BY <1>3, <2>1, <2>5, InChain
<1>8. QED
  BY <1>4, <1>5, <1>7

\* write_cluster_chain with one block, whether the file had clusters or not.
LEMMA ClusterForms ==
  ASSUME WriteCluster, fault' = "none", todo = Data, NEW c, c = job.cur, c \in DataClusters,
         NEW x, x = Min(FreeFrom(fat, c)), NEW h, h = fat'
  PROVE  /\ UNCHANGED <<dfat, ddir, acked, dirents>>
         /\ \/ /\ job.left = 1 /\ todo' = Early /\ job' = job
               /\ h = [(IF fat[c] = LAST THEN fat ELSE FreeChain(fat, fat[c])) EXCEPT ![c] = LAST]
            \/ /\ job.left # 1 /\ fat[c] = LAST /\ FreeFrom(fat, c) # {} /\ todo' = Data
               /\ h = Link(fat, c, x) /\ job' = NextJob(job, x)
            \/ /\ job.left # 1 /\ fat[c] # LAST /\ todo' = Data
               /\ h = fat /\ job' = NextJob(job, fat[c])
<1>1. ~(c < 2)
  BY FatAssumption DEF DataClusters
<1>2. UNCHANGED <<dfat, ddir, acked, dirents>>
  BY <1>1 DEF WriteCluster, Fail
<1>3. Tail(todo) = Early
  BY TodoDiffer
<1>4. CASE job.left = 1
  <2>1. Ends(fat, fat[c])
    BY <1>1, <1>4 DEF WriteCluster, Fail
  <2>2. /\ fat' = [(IF fat[c] = LAST THEN fat ELSE FreeChain(fat, fat[c])) EXCEPT ![c] = LAST]
        /\ todo' = Tail(todo) /\ job' = job
    BY <1>1, <1>4, <2>1 DEF WriteCluster
  <2>3. QED
    BY <1>2, <1>3, <1>4, <2>2
<1>5. CASE job.left # 1 /\ fat[c] = LAST
  <2>1. FreeFrom(fat, c) # {}
    BY <1>1, <1>5 DEF WriteCluster, Fail
  <2>2. /\ fat' = [fat EXCEPT ![c] = x, ![x] = LAST] /\ todo' = todo
        /\ job' = NextJob(job, x)
    BY <1>1, <1>5, <2>1 DEF WriteCluster, NextJob
  <2>3. QED
    BY <1>2, <1>5, <2>1, <2>2 DEF Link
<1>6. CASE job.left # 1 /\ fat[c] # LAST
  <2>1. fat' = fat /\ todo' = todo /\ job' = NextJob(job, fat[c])
    BY <1>1, <1>6 DEF WriteCluster, NextJob
  <2>2. QED
    BY <1>2, <1>6, <2>1
<1>7. QED
  BY <1>4, <1>5, <1>6

\* write_cluster_chain: what it adds is the file's, what it cuts off is free.
LEMMA ClusterLeak ==
  ASSUME LInv, WriteCluster, fault' = "none"
  PROVE  LInv'
<1>1. /\ FatOK(fat) /\ FatOK(dfat) /\ job \in Jobs /\ acked \in [Names -> Contents]
      /\ Plain(dirents) /\ Whole(fat, dirents) /\ SectorsOK
  BY DEF LInv, Follows
<1>2. todo = Data
  BY TodoDiffer DEF WriteCluster, LInv, Follows
<1>3. job.sec = 0
  BY <1>1, <1>2, TodoDiffer DEF SectorsOK
<1>4. job.left > 0 /\ job.left \in Nat
  BY <1>1, <1>2 DEF LInv, Reached, Jobs
<1>5. PICK j \in Slots : dirents[j].start # 0 /\ job.cur \in Chain(fat, dirents[j].start)
  BY <1>2 DEF LInv, Reached
<1>6. PICK st : st = dirents[j].start
  OBVIOUS
<1>7. PICK c : c = job.cur
  OBVIOUS
<1>8. /\ st # 0 /\ Sound(fat, st) /\ st \in DataClusters
      /\ Own(fat, dirents, j) = Chain(fat, st) /\ c \in Chain(fat, st)
  BY <1>1, <1>5, <1>6, <1>7, WholeFile
<1>9. /\ c \in DataClusters /\ fat[c] \in Chain(fat, st) \cup {LAST}
  BY <1>1, <1>8, SoundChain
<1>10. NEntries \in Nat /\ NEntries > 3 /\ LAST = NEntries /\ FREE = 0
  BY FatAssumption DEF LAST, FREE
<1>11. PICK k \in 0 .. NEntries : Nth(fat, st)[k] = c /\ c # LAST
  BY <1>8 DEF Chain
<1>12. k \in Nat /\ c >= k + 3 /\ c \in Nat /\ c < NEntries
  <2>1. Nth(fat, st)[k] = LAST \/ Nth(fat, st)[k] >= k + 3
    BY <1>1, <1>8, Rising
  <2>2. QED
    BY <1>9, <1>10, <1>11, <2>1 DEF DataClusters
<1>13. k \in 0 .. NEntries - 1 /\ k + 1 \in Nat /\ k + 1 > 0 /\ k + 1 \in 0 .. NEntries
  BY <1>10, <1>12
<1>14. PICK x : x = Min(FreeFrom(fat, c))
  OBVIOUS
<1>15. PICK h : h = fat'
  OBVIOUS
<1>16. /\ UNCHANGED <<dfat, ddir, acked, dirents>>
       /\ \/ /\ job.left = 1 /\ todo' = Early /\ job' = job
             /\ h = [(IF fat[c] = LAST THEN fat ELSE FreeChain(fat, fat[c])) EXCEPT ![c] = LAST]
          \/ /\ job.left # 1 /\ fat[c] = LAST /\ FreeFrom(fat, c) # {} /\ todo' = Data
             /\ h = Link(fat, c, x) /\ job' = NextJob(job, x)
          \/ /\ job.left # 1 /\ fat[c] # LAST /\ todo' = Data
             /\ h = fat /\ job' = NextJob(job, fat[c])
  BY <1>2, <1>7, <1>9, <1>14, <1>15, ClusterForms
<1>17. ASSUME FatOK(h), Whole(h, dirents), NEW jb, jb = job', jb \in Jobs, jb.sec = 0,
              \/ todo' = Early
              \/ todo' = Data /\ jb.left > 0 /\ jb.cur \in Chain(h, st)
       PROVE  LInv'
  <2>1. Follows'
    <3>1. job' \in Jobs /\ job'.sec = 0 /\ acked' \in [Names -> Contents] /\ dfat' = dfat
      BY <1>1, <1>16, <1>17
    <3>2. todo' \in {Data, Early, Late}
      BY <1>17
    <3>3. QED
      BY <1>1, <1>15, <1>17, <3>1, <3>2, FollowsOn
  <2>2. Plain(dirents') /\ Whole(fat', dirents')
    BY <1>1, <1>15, <1>16, <1>17
  <2>3. Reached'
    <3>1. CASE todo' = Early
      BY <3>1, TodoDiffer DEF Reached
    <3>2. CASE todo' = Data /\ jb.left > 0 /\ jb.cur \in Chain(h, st)
      <4>1. dirents'[j].start # 0 /\ job'.cur \in Chain(fat', dirents'[j].start)
        BY <1>6, <1>8, <1>15, <1>16, <1>17, <3>2
      <4>2. job'.left > 0
        BY <1>17, <3>2
      <4>3. QED
        BY <4>1, <4>2 DEF Reached
    <3>3. QED
      BY <1>17, <3>1, <3>2
  <2>4. QED
    BY <2>1, <2>2, <2>3 DEF LInv
<1>18. ASSUME NEW new, new \subseteq DataClusters, \A y \in new : fat[y] = FREE,
              NEW own, own = Chain(fat, st) \cup new, Apart(fat, h, own),
              Chain(h, st) \subseteq own, \A y \in own : h[y] # FREE => y \in Chain(h, st)
       PROVE  Whole(h, dirents)
  <2>1. own = Own(fat, dirents, j) \cup new /\ Own(h, dirents, j) = Chain(h, st)
    BY <1>6, <1>8, <1>18 DEF Own
  <2>2. /\ Own(h, dirents, j) \subseteq own
        /\ \A y \in own : h[y] # FREE => y \in Own(h, dirents, j)
        /\ dirents[j].start # 0 => dirents[j].start \in DataClusters
    BY <1>6, <1>8, <1>18, <2>1
  <2>3. PICK d2 : d2 = dirents
    OBVIOUS
  <2>4. /\ \A s \in Slots \ {j} : d2[s].start = dirents[s].start
        /\ Own(h, d2, j) \subseteq own
        /\ \A y \in own : h[y] # FREE => y \in Own(h, d2, j)
        /\ d2[j].start # 0 => d2[j].start \in DataClusters
    BY <2>2, <2>3
  <2>5. Whole(h, d2)
    BY <1>1, <1>18, <2>1, <2>4, WholeStep
  <2>6. QED
    BY <2>3, <2>5
<1>19. CASE /\ job.left = 1 /\ todo' = Early /\ job' = job
            /\ h = [(IF fat[c] = LAST THEN fat ELSE FreeChain(fat, fat[c])) EXCEPT ![c] = LAST]
  <2>1. h = Truncated(fat, st, k + 1)
    BY <1>1, <1>8, <1>11, <1>19, LastIsCut
  <2>2. /\ FatOK(h) /\ Apart(fat, h, Chain(fat, st)) /\ Chain(h, st) \subseteq Chain(fat, st)
        /\ \A y \in Chain(fat, st) : h[y] # FREE => y \in Chain(h, st)
    BY <1>1, <1>8, <1>13, <2>1, CutFrees
  <2>3. PICK new : new = {}
    OBVIOUS
  <2>4. PICK own : own = Chain(fat, st) \cup new
    OBVIOUS
  <2>5. own = Chain(fat, st) /\ new \subseteq DataClusters /\ \A y \in new : fat[y] = FREE
    BY <2>3, <2>4
  <2>6. Whole(h, dirents)
    BY <1>18, <2>2, <2>4, <2>5
  <2>7. PICK jb : jb = job'
    OBVIOUS
  <2>8. jb \in Jobs /\ jb.sec = 0
    BY <1>1, <1>3, <1>19, <2>7
  <2>9. QED
    BY <1>17, <1>19, <2>2, <2>6, <2>7, <2>8
<1>20. CASE /\ job.left # 1 /\ fat[c] = LAST /\ FreeFrom(fat, c) # {} /\ todo' = Data
            /\ h = Link(fat, c, x) /\ job' = NextJob(job, x)
  <2>1. x \in DataClusters /\ fat[x] = FREE /\ c < x /\ x \in Nat
    <3>1. FreeFrom(fat, c) \subseteq Nat
      BY <1>10 DEF FreeFrom, Clusters
    <3>2. x \in FreeFrom(fat, c)
      BY <1>14, <1>20, <3>1, MinIn
    <3>3. x \in Clusters /\ x >= 3 /\ x >= c /\ fat[x] = FREE /\ x \in Nat
      BY <3>1, <3>2 DEF FreeFrom
    <3>4. x # c
      BY <1>10, <1>20, <3>3
    <3>5. QED
      BY <1>10, <1>12, <3>3, <3>4 DEF Clusters, DataClusters
  <2>2. k + 3 < NEntries
    BY <1>10, <1>12
  <2>3. FatOK(h) /\ h[x] = LAST /\ h[c] = x /\ Apart(fat, h, {c, x})
    BY <1>1, <1>9, <1>20, <2>1, LinkedFat
  <2>4. Chain(h, st) = Chain(fat, st) \cup {x}
    BY <1>1, <1>8, <1>9, <1>11, <1>13, <1>20, <2>1, <2>2, LinkedAll
  <2>5. PICK new : new = {x}
    OBVIOUS
  <2>6. PICK own : own = Chain(fat, st) \cup new
    OBVIOUS
  <2>7. own = Chain(h, st) /\ new \subseteq DataClusters /\ \A y \in new : fat[y] = FREE
    BY <2>1, <2>4, <2>5, <2>6
  <2>8. Apart(fat, h, own)
    BY <1>8, <2>3, <2>5, <2>6 DEF Apart
  <2>9. Whole(h, dirents)
    BY <1>18, <2>6, <2>7, <2>8
  <2>10. PICK jb : jb = NextJob(job, x)
    OBVIOUS
  <2>11. jb \in Jobs /\ jb.sec = 0 /\ jb.cur = x /\ jb.left = job.left - 1
    BY <1>1, <1>3, <1>4, <2>1, <2>10, NextJobFields
  <2>12. jb = job' /\ jb.left > 0 /\ jb.cur \in Chain(h, st)
    BY <1>4, <1>20, <2>4, <2>10, <2>11
  <2>13. QED
    BY <1>17, <1>20, <2>3, <2>9, <2>11, <2>12
<1>21. CASE /\ job.left # 1 /\ fat[c] # LAST /\ todo' = Data
            /\ h = fat /\ job' = NextJob(job, fat[c])
  <2>1. PICK next : next = fat[c]
    OBVIOUS
  <2>2. next \in Chain(fat, st) /\ next \in Nat
    <3>1. next \in Chain(fat, st)
      BY <1>9, <1>21, <2>1
    <3>2. next \in DataClusters
      BY <1>8, <3>1 DEF Sound
    <3>3. QED
      BY <1>10, <3>1, <3>2 DEF DataClusters
  <2>3. PICK jb : jb = NextJob(job, next)
    OBVIOUS
  <2>4. jb \in Jobs /\ jb.sec = 0 /\ jb.cur = next /\ jb.left = job.left - 1
    BY <1>1, <1>3, <1>4, <2>2, <2>3, NextJobFields
  <2>5. jb = job' /\ jb.left > 0 /\ jb.cur \in Chain(h, st)
    BY <1>4, <1>21, <2>1, <2>2, <2>3, <2>4
  <2>6. QED
    BY <1>1, <1>17, <1>21, <2>4, <2>5
<1>22. QED
  BY <1>16, <1>19, <1>20, <1>21

\* The directory goes to the card.
LEMMA DirLeak ==
  ASSUME LInv, WriteDir
  PROVE  LInv'
<1>1. todo = Late
  BY TodoDiffer DEF WriteDir, LInv, Follows
<1>2. /\ UNCHANGED <<dfat, ddata, fat, dirents, job, fault, acked>>
      /\ ddir' = dirents /\ todo' = Last
  BY <1>1, TodoDiffer DEF WriteDir
<1>3. job.sec = 0
  BY <1>1, TodoDiffer DEF LInv, Follows, SectorsOK
<1>4. SectorsOK'
  <2>1. \A x \in 0 .. NEntries - 1 : ~(x \div PerSector < 0)
    BY SectorsAscend
  <2>2. QED
    BY <1>2, <1>3, <2>1, TodoDiffer DEF SectorsOK
<1>5. Follows'
  BY <1>2, <1>4 DEF LInv, Follows, FatOK
<1>6. Plain(dirents') /\ Whole(fat', dirents')
  BY <1>2 DEF LInv
<1>7. Reached'
  BY <1>2, TodoDiffer DEF Reached
<1>8. QED
  BY <1>5, <1>6, <1>7 DEF LInv

\* A sector of the FAT goes to the card.
LEMMA SectorLeak ==
  ASSUME LInv, WriteFatSector
  PROVE  LInv'
<1>1. Follows
  BY DEF LInv
<1>2. /\ todo \in {Early, Last} /\ job \in Jobs /\ job.sec \in Nat
      /\ FatOK(fat) /\ FatOK(dfat) /\ FatOK(dfat')
      /\ \A x \in 0 .. NEntries - 1 : x \div PerSector < job.sec + 1 => dfat'[x] = fat[x]
      /\ job.sec + 1 \notin Sectors => dfat' = fat
      /\ UNCHANGED <<ddir, ddata, fat, dirents>>
  BY <1>1, SectorFacts
<1>3. job' \in Jobs /\ acked' \in [Names -> Contents]
  BY <1>1, SectorNext
<1>4. job.sec + 1 \in Sectors => todo' = todo /\ job'.sec = job.sec + 1
  BY <1>1, SectorNext
<1>5. job.sec + 1 \notin Sectors /\ todo = Early => todo' = Late /\ job'.sec = 0
  BY <1>1, SectorNext
<1>6. job.sec + 1 \notin Sectors /\ todo = Last => todo' = << >> /\ job'.sec = 0
  BY <1>1, SectorNext
<1>7. todo = Last => ddir = dirents
  BY <1>1 DEF Follows, SectorsOK
<1>8. /\ todo' \in {<< >>, Early, Late, Last} /\ todo' # Data
      /\ todo' \in {<< >>, Last} => todo = Last
      /\ todo' = << >> => dfat' = fat'
      /\ todo' \notin {Early, Last} => job'.sec = 0
  BY <1>2, <1>4, <1>5, <1>6, TodoDiffer
<1>9. \A x \in 0 .. NEntries - 1 : x \div PerSector < job'.sec => dfat'[x] = fat'[x]
  <2>1. \A x \in 0 .. NEntries - 1 : ~(x \div PerSector < 0)
    BY SectorsAscend
  <2>2. job'.sec = 0 \/ job'.sec = job.sec + 1
    BY <1>2, <1>4, <1>5, <1>6
  <2>3. QED
    BY <1>2, <2>1, <2>2
<1>10. SectorsOK'
  BY <1>2, <1>7, <1>8, <1>9 DEF SectorsOK
<1>11. Follows'
  <2>1. FatOK(fat') /\ FatOK(dfat')
    BY <1>2
  <2>2. todo' \in {<< >>, Data, Early, Late, Last}
    BY <1>8
  <2>3. QED
    BY <1>3, <1>10, <2>1, <2>2 DEF Follows
<1>12. Plain(dirents') /\ Whole(fat', dirents')
  BY <1>2 DEF LInv
<1>13. Reached'
  BY <1>8 DEF Reached
<1>14. QED
  BY <1>11, <1>12, <1>13 DEF LInv

\* An empty card.
LEMMA InitLeak == Init => LeakInv
<1> SUFFICES ASSUME Init PROVE LInv
  BY DEF LeakInv, Init
<1>1. Inv /\ todo = << >>
  BY InitInv DEF Init
<1>2. /\ dfat = [c \in 0 .. NEntries - 1 |-> IF c <= Root THEN LAST ELSE FREE]
      /\ fat = dfat /\ ddir = [s \in Slots |-> NoEntry] /\ dirents = ddir
      /\ job = NoJob /\ acked = [n \in Names |-> None]
  BY DEF Init
<1>3. FatOK(dfat)
  <2>1. /\ NEntries \in Nat /\ NEntries > 3 /\ LAST = NEntries /\ FREE = 0 /\ Root = 2
    BY FatAssumption DEF LAST, FREE, Root
  <2>2. \A c \in 0 .. NEntries - 1 : (IF c <= Root THEN LAST ELSE FREE) \in 0 .. NEntries
    BY <2>1
  <2>3. dfat \in [0 .. NEntries - 1 -> 0 .. NEntries]
    BY <1>2, <2>2
  <2>4. \A x \in DataClusters : dfat[x] = FREE
    BY <1>2, <2>1 DEF DataClusters
  <2>5. QED
    BY <2>3, <2>4 DEF FatOK
<1>4. job \in Jobs /\ job.sec = 0 /\ acked \in [Names -> Contents]
  <2>1. None \in Contents
    BY DEF Contents
  <2>2. QED
    BY <1>2, <2>1 DEF NoJob, Jobs
<1>5. SectorsOK
  <2>1. \A x \in 0 .. NEntries - 1 : ~(x \div PerSector < 0)
    BY SectorsAscend
  <2>2. QED
    BY <1>1, <1>2, <1>4, <2>1, TodoDiffer DEF SectorsOK
<1>6. Follows
  BY <1>1, <1>2, <1>3, <1>4, <1>5 DEF Follows
<1>7. Plain(dirents) /\ \A s \in Slots : dirents[s].start = 0
  <2>1. NoEntry \in Entry /\ NoEntry.start = 0 /\ NoEntry.size = 0
    BY DEF NoEntry, Entry
  <2>2. QED
    BY <1>2, <2>1 DEF Plain
<1>8. \A x \in DataClusters : fat[x] = FREE
  BY <1>2, FatAssumption DEF DataClusters, Root
<1>9. Whole(fat, dirents)
  BY <1>7, <1>8 DEF Whole
<1>10. Reached
  BY <1>1, TodoDiffer DEF Reached
<1>11. QED
  BY <1>6, <1>7, <1>9, <1>10 DEF LInv

\* Each step preserves the invariant.
LEMMA NextLeak ==
  ASSUME LeakFreeCallers, LeakInv, [Next]_vars
  PROVE  LeakInv'
<1>1. uses' = uses /\ uses \in Profiles
  BY DEF Next, vars, LeakInv
<1> SUFFICES ASSUME "reboot" \notin uses, fault' = "none" PROVE LInv'
  BY <1>1 DEF LeakInv
<1>2. "truncate_zero" \notin uses /\ "truncate_grow" \notin uses
  BY <1>1 DEF LeakFreeCallers
<1>3. ASSUME fault = "none" PROVE LInv
  BY <1>3 DEF LeakInv
<1>4. CASE Call
  <2>1. fault = "none"
    BY <1>4 DEF Call, Create, Delete, Read, Rename, Write, Truncate, Idle
  <2>2. ASSUME NEW n \in Names, Create(n) PROVE LInv'
    BY <1>3, <2>1, <2>2, CreateLeak
  <2>3. ASSUME NEW n \in Names, Delete(n) PROVE LInv'
    BY <1>3, <2>1, <2>3, DeleteLeak
  <2>4. ASSUME NEW n \in Names, Read(n) PROVE LInv'
    BY <2>4 DEF Read, Fail
  <2>5. ASSUME NEW old \in Names, NEW new \in Names, Rename(old, new) PROVE LInv'
    BY <1>3, <2>1, <2>5, RenameLeak
  <2>6. ASSUME NEW n \in Names, NEW len \in 0 .. MaxLen, NEW p \in Payloads, Write(n, len, p)
        PROVE  LInv'
    BY <1>3, <2>1, <2>6, WriteLeak
  <2>7. ASSUME NEW n \in Names, NEW len \in 0 .. MaxLen, Truncate(n, len) PROVE LInv'
    BY <1>2, <1>3, <2>1, <2>7, TruncateLeak
  <2>8. QED
    BY <1>4, <2>2, <2>3, <2>4, <2>5, <2>6, <2>7 DEF Call
<1>5. CASE WriteCluster
  <2>1. fault = "none"
    BY <1>5 DEF WriteCluster
  <2>2. QED
    BY <1>3, <1>5, <2>1, ClusterLeak
<1>6. CASE WriteDir
  <2>1. fault = "none"
    BY <1>6 DEF WriteDir
  <2>2. QED
    BY <1>3, <1>6, <2>1, DirLeak
<1>7. CASE WriteFatSector
  <2>1. fault = "none"
    BY <1>7 DEF WriteFatSector
  <2>2. QED
    BY <1>3, <1>7, <2>1, SectorLeak
<1>8. CASE Reboot
  BY <1>8 DEF Reboot
<1>9. CASE UNCHANGED vars
  <2>1. UNCHANGED <<dfat, ddir, fat, dirents, todo, job, fault, acked>>
    BY <1>9 DEF vars, ram, card
  <2>2. LInv
    BY <1>3, <2>1
  <2>3. Follows'
    BY <2>1, <2>2 DEF LInv, Follows, SectorsOK
  <2>4. Plain(dirents') /\ Whole(fat', dirents')
    BY <2>1, <2>2 DEF LInv
  <2>5. Reached'
    BY <2>1, <2>2 DEF LInv, Reached
  <2>6. QED
    BY <2>3, <2>4, <2>5 DEF LInv
<1>10. QED
  BY <1>4, <1>5, <1>6, <1>7, <1>8, <1>9 DEF Next, Step

\* An idle driver has lost nothing.
LEMMA LeakInvNoLeak == LeakInv => NoLeak
<1> SUFFICES ASSUME LeakInv, Idle, "reboot" \notin uses,
                    NEW c \in Clusters \ {Root}, fat[c] # FREE
             PROVE  \E s \in Linked : c \in CardChain(s)
  BY DEF NoLeak
<1>1. LInv
  BY DEF LeakInv, Idle
<1>2. dfat = fat /\ Plain(ddir) /\ Whole(fat, ddir)
  BY <1>1, LeakIdle
<1>3. c \in DataClusters
  BY FatAssumption DEF Clusters, Root, DataClusters
<1>4. PICK s \in Slots : ddir[s].start # 0 /\ c \in Chain(fat, ddir[s].start)
  BY <1>2, <1>3 DEF Whole
<1>5. s \in Linked
  BY <1>2, <1>4 DEF Plain, Linked, Files
<1>6. QED
  BY <1>2, <1>4, <1>5 DEF CardChain

-----------------------------------------------------------------------------
(* The theorems. *)

\* Each operation that starts preserves the invariant.
LEMMA CallInv ==
  ASSUME IInv, Dotless = {},
         uses \cap {"overwrite", "rename_onto", "truncate_zero", "truncate_grow"} = {}, Call
  PROVE  IInv'
<1>1. ASSUME NEW n \in Names, Create(n) PROVE IInv'
  BY <1>1, CreateInv
<1>2. ASSUME NEW n \in Names, Delete(n) PROVE IInv'
  BY <1>2, DeleteInv
<1>3. ASSUME NEW n \in Names, Read(n) PROVE IInv'
  <2>1. UNCHANGED <<card, fat, dirents, todo, job, acked>>
    BY <1>3 DEF Read, Fail
  <2>2. QED
    BY <2>1, NothingInv
<1>4. ASSUME NEW old \in Names, NEW new \in Names, Rename(old, new) PROVE IInv'
  BY <1>4, RenameInv
<1>5. ASSUME NEW n \in Names, NEW len \in 0 .. MaxLen, NEW p \in Payloads, Write(n, len, p)
      PROVE  IInv'
  BY <1>5, WriteInv
<1>6. ASSUME NEW n \in Names, NEW len \in 0 .. MaxLen, Truncate(n, len) PROVE IInv'
  BY <1>6, TruncateInv
<1>7. QED
  BY <1>1, <1>2, <1>3, <1>4, <1>5, <1>6 DEF Call

\* Each step preserves the invariant.
LEMMA NextInv ==
  ASSUME AppendOnlyCallers, Inv, [Next]_vars
  PROVE  Inv'
<1>1. uses' = uses /\ uses \in Profiles
  BY DEF Next, vars, Inv
<1> SUFFICES ASSUME WrittenOnce PROVE IInv'
  BY <1>1 DEF Inv, WrittenOnce
<1>2. IInv
  BY DEF Inv
<1>3. /\ Dotless = {}
      /\ uses \cap {"overwrite", "rename_onto", "truncate_zero", "truncate_grow"} = {}
  BY <1>1 DEF AppendOnlyCallers, WrittenOnce
<1>4. CASE Call
  BY <1>2, <1>3, <1>4, CallInv
<1>5. CASE WriteCluster
  BY <1>2, <1>5, WriteClusterInv
<1>6. CASE WriteDir
  BY <1>2, <1>6, WriteDirInv
<1>7. CASE WriteFatSector
  <2>1. todo = Early \/ todo = Last
    BY <1>2, <1>7, SectorFacts, InvFollows
  <2>2. QED
    BY <1>2, <1>7, <2>1, EarlySectorInv, LastSectorInv
<1>8. CASE Reboot
  BY <1>2, <1>8, RebootInv
<1>9. CASE UNCHANGED vars
  <2>1. UNCHANGED <<card, fat, dirents, todo, job, acked>>
    BY <1>9 DEF vars, ram
  <2>2. QED
    BY <1>2, <2>1, NothingInv
<1>10. QED
  BY <1>4, <1>5, <1>6, <1>7, <1>8, <1>9 DEF Next, Step

\* The invariant holds of every run of the driver: fat32.c as the callers
\* AppendOnlyCallers describes use it, with power failures at any card write.
THEOREM InvHolds == ASSUME AppendOnlyCallers PROVE Spec => []Inv
<1>1. Inv /\ [Next]_vars => Inv'
  BY NextInv
<1>2. QED
  BY <1>1, InitInv, PTL DEF Spec

\* No directory entry on the card leads to a free, reserved or missing cluster,
\* at no point of any operation of fat32.c and for every size of card.
THEOREM NoDanglingHolds == ASSUME AppendOnlyCallers PROVE Spec => []NoDangling
BY InvHolds, InvNoDangling, PTL

\* No two files on the card share a cluster or a name, for every size of card
\* (fat32_create, fat32_write, fat32_truncate and fat32_delete).
THEOREM NoCrossLinksHolds == ASSUME AppendOnlyCallers PROVE Spec => []NoCrossLinks
BY InvHolds, InvNoCrossLinks, PTL

\* A file whose operation has returned stays on the card with its content, for
\* every size of card.
THEOREM DurableHolds == ASSUME AppendOnlyCallers PROVE Spec => []Durable
BY InvHolds, InvDurable, PTL

\* The driver panics for want of a cluster only when none is free (fat32.c:281),
\* though each search starts at the end of a chain.
THEOREM PanicsJustifiedHolds == ASSUME AppendOnlyCallers PROVE Spec => []PanicsJustified
<1>1. Init => PanicsJustified
  BY DEF Init, PanicsJustified
<1>2. Inv /\ PanicsJustified /\ [Next]_vars => PanicsJustified'
  <2> SUFFICES ASSUME Inv, PanicsJustified, [Next]_vars, WrittenOnce' PROVE PanicsJustified'
    BY DEF PanicsJustified
  <2>1. uses' = uses
    BY DEF Next, vars
  <2>2. WrittenOnce
    BY <2>1 DEF WrittenOnce
  <2>3. IInv /\ PanicOK /\ "overwrite" \notin uses
    BY <2>2 DEF Inv, PanicsJustified, PanicOK, WrittenOnce
  <2>4. PanicOK'
    BY <2>3, PanicStep
  <2>5. QED
    BY <2>4 DEF PanicOK, PanicsJustified
<1>3. QED
  BY <1>1, <1>2, InvHolds, PTL DEF Spec

\* Seen through the card alone, every operation of fat32.c changes the set of
\* files at one instant, and no power failure changes it (FileStore).
THEOREM AtomicOnCardHolds == ASSUME AppendOnlyCallers PROVE Spec => AtomicOnCard
<1>1. Init => Store!Init
  <2> SUFFICES ASSUME Init PROVE CardFiles = [n \in Names |-> None]
    BY DEF Store!Init
  <2>1. \A s \in Slots : ddir[s].name = None
    BY DEF Init, NoEntry
  <2>2. QED
    BY <2>1 DEF CardFiles, Files
<1>2. WrittenOnce => CardFiles = FilesOf(dfat, ddata, ddir)
  BY CardFilesAre
<1>3. (WrittenOnce => CardFiles = FilesOf(dfat, ddata, ddir))'
  BY CardFilesAre, PTL
<1>4. ~WrittenOnce => CardFiles = [n \in Names |-> None]
  BY CardFilesAre
<1>5. (~WrittenOnce => CardFiles = [n \in Names |-> None])'
  BY CardFilesAre, PTL
<1>6. ASSUME Inv, Inv', [Next]_vars PROVE [Store!Next]_CardFiles
  <2>1. uses' = uses
    BY <1>6 DEF Next, vars
  <2>2. CASE WrittenOnce
    <3>1. IInv /\ IInv' /\ WrittenOnce' /\ "overwrite" \notin uses
      BY <1>6, <2>1, <2>2 DEF Inv, WrittenOnce
    <3>2. PICK F : F = FilesOf(dfat, ddata, ddir)
      OBVIOUS
    <3>3. PICK G : G = FilesOf(dfat', ddata', ddir')
      OBVIOUS
    <3>4. F = CardFiles /\ G = CardFiles'
      BY <1>2, <1>3, <2>2, <3>1, <3>2, <3>3
    <3>5. StoreStep(F, G)
      BY <1>6, <3>1, <3>2, <3>3, FilesStep
    <3>6. QED
      BY <3>4, <3>5, StoreStepIs
  <2>3. CASE ~WrittenOnce
    <3>1. ~WrittenOnce'
      BY <2>1, <2>3 DEF WrittenOnce
    <3>2. CardFiles' = CardFiles
      BY <1>4, <1>5, <2>3, <3>1
    <3>3. QED
      BY <3>2
  <2>4. QED
    BY <2>2, <2>3
<1>7. QED
  BY <1>1, <1>6, InvHolds, PTL DEF Spec, AtomicOnCard, Store!Spec

\* While power does not fail, an idle driver has lost no cluster, for every size
\* of card, whatever files fat32_write overwrites and names fat32_rename takes.
THEOREM NoLeakHolds == ASSUME LeakFreeCallers PROVE Spec => []NoLeak
<1>1. LeakInv /\ [Next]_vars => LeakInv'
  BY NextLeak
<1>2. QED
  BY <1>1, InitLeak, LeakInvNoLeak, PTL DEF Spec
=============================================================================
