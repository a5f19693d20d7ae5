------------------------------- MODULE Fat32 -------------------------------
(***************************************************************************)
(* final_project/fat32.c: one directory of files on a FAT32 partition.     *)
(* The driver keeps the whole FAT in memory, changes it there, and writes  *)
(* it back; every pi_sd_write is a step of its own, so that power can fail *)
(* between any two of them, and between two sectors of the FAT.            *)
(*                                                                         *)
(* Lengths are counted in clusters.  A directory is rewritten as a whole   *)
(* but only one directory entry differs from what the card holds, so its   *)
(* write is one step.  Only the first copy of the FAT is ever read or      *)
(* written.                                                                *)
(***************************************************************************)
EXTENDS Naturals, Sequences, FiniteSetsExt

CONSTANTS
  NEntries,   \* n_entries: entries of the FAT
  PerSector,  \* FAT entries per sector (128 in the code)
  NSlots,     \* directory entries of the root directory
  Names,      \* file names callers use
  Dotless,    \* those without a '.' in them
  Payloads,   \* contents callers write
  MaxLen,     \* longest file, in clusters
  Profiles,   \* the sets of uses callers keep to: see the guards of the operations
  None        \* no name, no acknowledged content

ASSUME FatAssumption ==
  /\ NEntries \in Nat /\ NEntries > 3 /\ NSlots \in Nat
  /\ PerSector \in Nat \ {0}
  /\ Dotless \subseteq Names
  /\ MaxLen \in Nat
  /\ None \notin Names
  /\ None \notin Seq((Payloads \X Nat) \cup {None})   \* no content is None

FREE     == 0               \* FREE_CLUSTER
LAST     == NEntries        \* any value whose type is LAST_CLUSTER
Root     == 2               \* root_dir_first_cluster
Clusters == 2 .. NEntries - 1
Slots    == 1 .. NSlots
Sectors  == 0 .. (NEntries - 1) \div PerSector

VARIABLES
  dfat, ddir, ddata,   \* the card: FAT, root directory, data clusters
  fat,                 \* fs->fat, the FAT in memory
  dirents,             \* the directory the running operation will write
  todo,                \* writes the running operation has left, in order
  job,                 \* its position: cluster, clusters left, FAT sector, ...
  fault,               \* the panic, failed assert or endless loop it met
  acked,               \* name -> content of the last completed write (history)
  uses                 \* what the callers of this run do

card == <<dfat, ddir, ddata>>
ram  == <<fat, dirents, todo, job, fault>>
vars == <<card, ram, acked, uses>>

NoEntry == [name |-> None, start |-> 0, size |-> 0]
NoJob   == [cur |-> 0, left |-> 0, pos |-> 0, payload |-> None,
            sec |-> 0, name |-> None, result |-> None]

-----------------------------------------------------------------------------
(* Chains. *)

\* The k-th cluster of the chain that starts at c, LAST once it has ended.
\* (read_cluster_chain tests the type of a cluster's number only after it has
\* read there, so it reads once more, at the number that ends the chain and
\* past its buffer; what it reads there nobody looks at, and it is left out.)
Nth(f, c) == LET nth[k \in 0 .. NEntries] ==
                   IF k = 0 THEN c
                   ELSE IF nth[k-1] = LAST THEN LAST ELSE f[nth[k-1]]
             IN  nth
Chain(f, c)  == {Nth(f, c)[k] : k \in 0 .. NEntries} \ {LAST}
Ends(f, c)   == Nth(f, c)[NEntries] = LAST

\* Mutants of find_free_cluster: "not in the middle of a chain" taken for
\* free; the search starts after from.
FreeFromNotUsed(f, from) ==
  {c \in Clusters : c >= 3 /\ c >= from /\ f[c] \in {FREE, LAST}}
FreeFromExclusive(f, from) == {c \in Clusters : c > 3 /\ c > from /\ f[c] = FREE}

\* The clusters find_free_cluster(fs, from) can choose; it takes the lowest.
FreeFrom(f, from) == {c \in Clusters : c >= 3 /\ c >= from /\ f[c] = FREE}

\* The loop that frees a chain (fat32.c:335, 366, 495).
FreeChain(f, c) == [x \in DOMAIN f |-> IF x \in Chain(f, c) THEN FREE ELSE f[x]]

-----------------------------------------------------------------------------
(* Directory entries. *)

\* fat32_dirent_name always shows a '.', so a name without one never matches.
Matches(d, n) == d.name = n /\ n \notin Dotless

Found(n)  == {s \in Slots : Matches(ddir[s], n)}
Slot(n)   == Min(Found(n))
FreeSlots == {s \in Slots : ddir[s].name = None}

-----------------------------------------------------------------------------
Init ==
  /\ dfat = [c \in 0 .. NEntries - 1 |-> IF c <= Root THEN LAST ELSE FREE]
  /\ ddir = [s \in Slots |-> NoEntry]
  /\ ddata = [c \in Clusters |-> None]
  /\ fat = dfat
  /\ dirents = ddir
  /\ todo = << >> /\ job = NoJob /\ fault = "none"
  /\ acked = [n \in Names |-> None]
  /\ uses \in Profiles

Idle == todo = << >> /\ fault = "none"

\* Power fails, or a panic is answered by a reset; fat32_mk reads the FAT again.
Reboot ==
  /\ "reboot" \in uses
  /\ fat' = dfat
  /\ dirents' = ddir
  /\ todo' = << >> /\ job' = NoJob /\ fault' = "none"
  /\ UNCHANGED <<card, acked>>

Fail(f) == fault' = f /\ UNCHANGED <<fat, dirents, todo, job>>

\* An operation on the names ns starts: it has a new directory to write, and
\* once the last of its writes is done, name holds the content result.
Start(ns, dir, writes, name, result) ==
  /\ dirents' = dir
  /\ todo' = writes
  /\ job' = [NoJob EXCEPT !.name = name, !.result = result]
  /\ acked' = [n \in Names |-> IF n \in ns THEN None ELSE acked[n]]
  /\ UNCHANGED fault

Create(n) ==
  /\ Idle /\ "create" \in uses
  /\ Found(n) = {}
  /\ IF FreeSlots = {}
     THEN Fail("no free dirent") /\ UNCHANGED acked
     ELSE /\ Start({n},
                   [ddir EXCEPT ![Min(FreeSlots)] = [NoEntry EXCEPT !.name = n]],
                   <<"dir", "fat">>, n, << >>)
          /\ UNCHANGED fat
  /\ UNCHANGED card

\* Mutant: the chain is not freed.
DeleteKeepsChain(n) ==
  /\ Idle /\ "delete" \in uses
  /\ Found(n) # {}
  /\ Start({n}, [ddir EXCEPT ![Slot(n)] = NoEntry], <<"dir", "fat">>, n, None)
  /\ UNCHANGED <<card, fat>>

\* The chain is freed in memory now, on the card only after the directory.
Delete(n) ==
  /\ Idle /\ "delete" \in uses
  /\ Found(n) # {}
  /\ LET start == ddir[Slot(n)].start IN
     IF start >= 2 /\ ~Ends(fat, start)
     THEN Fail("hang") /\ UNCHANGED acked
     ELSE /\ fat' = IF start >= 2 THEN FreeChain(fat, start) ELSE fat
          /\ Start({n}, [ddir EXCEPT ![Slot(n)] = NoEntry],
                   <<"dir", "fat">>, n, None)
  /\ UNCHANGED card

Rename(old, new) ==
  /\ Idle /\ "rename" \in uses
  /\ Found(old) # {} /\ old # new
  /\ Found(new) = {} \/ "rename_onto" \in uses
  /\ Start({old, new}, [ddir EXCEPT ![Slot(old)].name = new],
           <<"dir", "fat">>, new, acked[old])
  /\ UNCHANGED <<card, fat>>

\* Mutant: the directory goes to the card before the data and the FAT.
WriteDirFirst(n, len, p) ==
  /\ Idle /\ "write" \in uses
  /\ Found(n) # {}
  /\ ddir[Slot(n)].start = 0 \/ "overwrite" \in uses
  /\ LET old   == ddir[Slot(n)].start
         fresh == old = 0 /\ len > 0
         first == IF fresh THEN Min(FreeFrom(fat, 3)) ELSE old
     IN IF fresh /\ FreeFrom(fat, 3) = {}
        THEN Fail("no free cluster") /\ UNCHANGED acked
        ELSE /\ fat' = IF fresh THEN [fat EXCEPT ![first] = LAST] ELSE fat
             /\ dirents' = [ddir EXCEPT ![Slot(n)].size = len,
                                        ![Slot(n)].start = first]
             /\ todo' = <<"dir">> \o (IF len > 0 THEN <<"data", "fat">> ELSE <<"fat">>)
             /\ job' = [NoJob EXCEPT !.cur = first, !.left = len, !.payload = p,
                                     !.name = n,
                                     !.result = [k \in 1 .. len |-> <<p, k>>]]
             /\ acked' = [acked EXCEPT ![n] = None]
             /\ UNCHANGED fault
  /\ UNCHANGED card


\* fat32_write: a file without clusters gets its first one here; the data
\* and the FAT go to the card before the directory, then the FAT once more.
Write(n, len, p) ==
  /\ Idle /\ "write" \in uses
  /\ Found(n) # {}
  /\ ddir[Slot(n)].start = 0 \/ "overwrite" \in uses
  /\ LET old   == ddir[Slot(n)].start
         fresh == old = 0 /\ len > 0
         first == IF fresh THEN Min(FreeFrom(fat, 3)) ELSE old
     IN IF fresh /\ FreeFrom(fat, 3) = {}
        THEN Fail("no free cluster") /\ UNCHANGED acked
        ELSE /\ fat' = IF fresh THEN [fat EXCEPT ![first] = LAST] ELSE fat
             /\ dirents' = [ddir EXCEPT ![Slot(n)].size = len,
                                        ![Slot(n)].start = first]
             /\ todo' = (IF len > 0 THEN <<"data", "fat">> ELSE << >>)
                          \o <<"dir", "fat">>
             /\ job' = [NoJob EXCEPT !.cur = first, !.left = len, !.payload = p,
                                     !.name = n,
                                     !.result = [k \in 1 .. len |-> <<p, k>>]]
             /\ acked' = [acked EXCEPT ![n] = None]
             /\ UNCHANGED fault
  /\ UNCHANGED card

\* What truncation leaves of the content c (known only if it had that much).
Cut(c, len) == IF c = None THEN None
               ELSE IF len <= Len(c) THEN SubSeq(c, 1, len) ELSE None

\* fat32_truncate walks the chain: the cluster that holds the last byte
\* becomes the last, every later one is freed; nothing is ever added, and
\* the start cluster stays even when all clusters are freed.  A walk that
\* goes round only stops if it meets the cluster it marked as the last.
Truncate(n, len) ==
  /\ Idle /\ "truncate" \in uses
  /\ Found(n) # {}
  /\ LET start == ddir[Slot(n)].start
         nth   == Nth(fat, start)
         after(c) == CASE \E k \in len .. NEntries : nth[k] = c -> FREE
                       [] \E k \in 0 .. NEntries : nth[k] = c /\ k + 1 = len -> LAST
                       [] OTHER -> fat[c]
         marked == len > 0 /\ \E k \in len .. NEntries : nth[k] = nth[len - 1]
     IN /\ len > 0 \/ "truncate_zero" \in uses
        /\ len <= ddir[Slot(n)].size \/ "truncate_grow" \in uses
        /\ IF ~Ends(fat, start) /\ ~marked
           THEN Fail("hang") /\ UNCHANGED acked
           ELSE /\ fat' = [c \in DOMAIN fat |-> after(c)]
                /\ Start({n}, [ddir EXCEPT ![Slot(n)].size = len], <<"dir", "fat">>,
                         n, Cut(acked[n], len))
  /\ UNCHANGED card

\* fat32_read walks the chain to count its clusters, then once more to read
\* them, and cluster_to_lba asserts that each is at least 2.  A file without
\* clusters is walked from cluster 0.  A read that returns changes nothing.
Read(n) ==
  /\ Idle /\ "read" \in uses
  /\ Found(n) # {}
  /\ LET start == ddir[Slot(n)].start IN
     IF ~Ends(fat, start)
     THEN Fail("hang")
     ELSE (\E c \in Chain(fat, start) : c < 2) /\ Fail("bad cluster")
  /\ UNCHANGED <<card, acked>>

-----------------------------------------------------------------------------
(* write_cluster_chain and write_fat_to_disk, one card write at a time. *)

WriteCluster ==
  /\ fault = "none" /\ todo # << >> /\ Head(todo) = "data"
  /\ LET c     == job.cur
         entry == fat[c]
         next  == IF entry = LAST THEN Min(FreeFrom(fat, c)) ELSE entry
     IN IF c < 2 THEN Fail("bad cluster") /\ UNCHANGED ddata
        ELSE /\ ddata' = [ddata EXCEPT ![c] = <<job.payload, job.pos + 1>>]
             /\ IF job.left = 1 /\ ~Ends(fat, entry)
                THEN Fail("hang")
                ELSE IF job.left = 1
                THEN /\ fat' = [(IF entry = LAST THEN fat ELSE FreeChain(fat, entry))
                                  EXCEPT ![c] = LAST]
                     /\ todo' = Tail(todo)
                     /\ UNCHANGED <<dirents, job, fault>>
                ELSE IF entry = LAST /\ FreeFrom(fat, c) = {}
                THEN Fail("no free cluster")
                ELSE /\ fat' = IF entry = LAST
                               THEN [fat EXCEPT ![c] = next, ![next] = LAST]
                               ELSE fat
                     /\ job' = [job EXCEPT !.cur = next, !.left = @ - 1, !.pos = @ + 1]
                     /\ UNCHANGED <<dirents, todo, fault>>
  /\ UNCHANGED <<dfat, ddir, acked>>

WriteDir ==
  /\ fault = "none" /\ todo # << >> /\ Head(todo) = "dir"
  /\ ddir' = dirents
  /\ todo' = Tail(todo)
  /\ UNCHANGED <<dfat, ddata, fat, dirents, job, fault, acked>>

\* One sector of the FAT; after the last of an operation it returns.
WriteFatSector ==
  /\ fault = "none" /\ todo # << >> /\ Head(todo) = "fat"
  /\ dfat' = [c \in DOMAIN fat |->
                IF c \div PerSector = job.sec THEN fat[c] ELSE dfat[c]]
  /\ IF job.sec + 1 \in Sectors
     THEN /\ job' = [job EXCEPT !.sec = @ + 1]
          /\ UNCHANGED <<todo, acked>>
     ELSE /\ todo' = Tail(todo)
          /\ job' = IF todo' = << >> THEN NoJob ELSE [job EXCEPT !.sec = 0]
          /\ acked' = IF todo' = << >>
                      THEN [acked EXCEPT ![job.name] = job.result]
                      ELSE acked
  /\ UNCHANGED <<ddir, ddata, fat, dirents, fault>>

Step == WriteCluster \/ WriteDir \/ WriteFatSector

Call == \/ \E n \in Names : Create(n) \/ Delete(n) \/ Read(n)
        \/ \E old, new \in Names : Rename(old, new)
        \/ \E n \in Names, len \in 0 .. MaxLen, p \in Payloads : Write(n, len, p)
        \/ \E n \in Names, len \in 0 .. MaxLen : Truncate(n, len)

Next == (Call \/ Step \/ Reboot) /\ UNCHANGED uses

Spec == Init /\ [][Next]_vars
FairSpec == Spec /\ WF_vars(Step /\ UNCHANGED uses)

-----------------------------------------------------------------------------
(* Properties.  Those of the card speak of what a reboot would find. *)

\* Files are written once: an overwriting call changes the one copy it has.
WrittenOnce == "overwrite" \notin uses

Files      == {s \in Slots : ddir[s].name # None}
Linked     == {s \in Files : ddir[s].start # 0}
CardChain(s) == Chain(dfat, ddir[s].start)

\* At no instant does a directory entry on the card lead to a free, reserved
\* or missing cluster, or claims more clusters than its chain has: a power
\* failure may lose clusters, never a file.
NoDangling ==
  WrittenOnce =>
    \A s \in Files :
      IF s \in Linked THEN /\ Ends(dfat, ddir[s].start)
                          /\ CardChain(s) \subseteq Clusters \ {Root}
                          /\ ddir[s].size <= Cardinality(CardChain(s))
                     ELSE ddir[s].size = 0

\* At no instant do two files on the card share a cluster or a name ("make
\* sure there isn't already a file with the same name", fat32.c:430).
NoCrossLinks ==
  WrittenOnce =>
    /\ \A s, t \in Linked : s # t => CardChain(s) \cap CardChain(t) = {}
    /\ \A s, t \in Files : s # t => ddir[s].name # ddir[t].name

\* What the card holds of the file in slot s.
Content(s) ==
  LET nth == Nth(dfat, ddir[s].start)
  IN  [k \in 1 .. ddir[s].size |->
         IF nth[k-1] \in Clusters THEN ddata[nth[k-1]] ELSE None]

\* Once an operation has returned, its file is on the card with the content
\* it was given, and stays there, whatever operations on other files, panics
\* and power failures follow, until the next operation on that name.
Durable ==
  WrittenOnce => \A n \in Names : acked[n] # None =>
    \E s \in Files : ddir[s].name = n /\ Content(s) = acked[n]

\* "Panic if there are none left" (fat32.c:281): only then.
PanicsJustified ==
  WrittenOnce /\ fault = "no free cluster" => \A c \in Clusters : c >= 3 => fat[c] # FREE

\* While power does not fail, an idle driver has lost no cluster: every
\* cluster in use belongs to a file.
NoLeak ==
  Idle /\ "reboot" \notin uses =>
    \A c \in Clusters \ {Root} : fat[c] # FREE => \E s \in Linked : c \in CardChain(s)


\* Seen through the card's directory and first FAT, every operation takes
\* effect at the one write that stores its directory entry (as long as files
\* are written once).
CardFiles == [n \in Names |->
  IF WrittenOnce /\ \E s \in Files : ddir[s].name = n
  THEN Content(CHOOSE s \in Files : ddir[s].name = n) ELSE None]
Store == INSTANCE FileStore WITH
           Blocks <- Payloads \X (1 .. MaxLen), Absent <- None, files <- CardFiles
AtomicOnCard == Store!Spec
=============================================================================
