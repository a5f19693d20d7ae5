----------------------------- MODULE FileStore -----------------------------
(***************************************************************************)
(* What a user of the file system wants of it across power failures: a set *)
(* of named files that each operation changes at one instant.  A power     *)
(* failure changes nothing: a step of this specification either has        *)
(* happened before it or never does.                                       *)
(***************************************************************************)
EXTENDS Naturals, Sequences

CONSTANTS Names,     \* file names
          Blocks,    \* values of one cluster of data
          Absent     \* marks a name with no file

VARIABLE files       \* name -> Absent, or the sequence of its blocks

Init == files = [n \in Names |-> Absent]

Create(n) == /\ files[n] = Absent
             /\ files' = [files EXCEPT ![n] = << >>]

Write(n) == /\ files[n] = << >>
            /\ files'[n] \in Seq(Blocks) \ {<< >>}
            /\ files' = [files EXCEPT ![n] = files'[n]]

Truncate(n) == /\ files[n] # Absent
               /\ \E len \in 1 .. Len(files[n]) :
                    files' = [files EXCEPT ![n] = SubSeq(@, 1, len)]

Delete(n) == /\ files[n] # Absent
             /\ files' = [files EXCEPT ![n] = Absent]

Rename(old, new) ==
  /\ files[old] # Absent /\ files[new] = Absent
  /\ files' = [files EXCEPT ![new] = files[old], ![old] = Absent]

Next == \/ \E n \in Names : Create(n) \/ Write(n) \/ Truncate(n) \/ Delete(n)
        \/ \E old, new \in Names : Rename(old, new)

Spec == Init /\ [][Next]_files
=============================================================================
