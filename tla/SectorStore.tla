---------------------------- MODULE SectorStore ----------------------------
(***************************************************************************)
(* What the file system takes for granted of pi_sd_read and pi_sd_write:   *)
(* one call at a time, a sector changes as a whole, only the sectors of a  *)
(* write in progress change, and a call that returns has done its work.    *)
(* The promise stands while the controller keeps its deadlines.            *)
(***************************************************************************)
EXTENDS Integers

CONSTANTS Sectors, Values, MaxSectors

Calls == [op : {"read"}, lba : Sectors, nsec : 1 .. MaxSectors, data : {<< >>}]
           \cup UNION { [op : {"write"}, lba : Sectors, nsec : {n}, data : [1 .. n -> Values]]
                        : n \in 1 .. MaxSectors }
None  == [op |-> "none"]

VARIABLES
  disk,      \* what each sector holds
  call,      \* the call in progress, or None
  result,    \* what the last read returned, from its first sector on
  kept       \* the controller has kept its deadlines so far

vars == <<disk, call, result, kept>>

Covers(c, s)   == s \in c.lba .. c.lba + c.nsec - 1
Contents(c, d) == [k \in 1 .. c.nsec |-> d[c.lba + k - 1]]

Init == disk \in [Sectors -> Values] /\ call = None /\ result = << >> /\ kept = TRUE

Begin == /\ call = None
         /\ call' \in {c \in Calls : c.lba + c.nsec - 1 \in Sectors}
         /\ result' = << >>
         /\ UNCHANGED <<disk, kept>>

WriteSector ==
  /\ call.op = "write"
  /\ \E s \in Sectors : Covers(call, s) /\ disk' = [disk EXCEPT ![s] = call.data[s - call.lba + 1]]
  /\ UNCHANGED <<call, result, kept>>

ReadReturns == /\ call.op = "read"
               /\ result' = Contents(call, disk)
               /\ call' = None
               /\ UNCHANGED <<disk, kept>>

WriteReturns == /\ call.op = "write"
                /\ \A s \in Sectors : Covers(call, s) => disk[s] = call.data[s - call.lba + 1]
                /\ call' = None
                /\ UNCHANGED <<disk, result, kept>>

\* A deadline was missed: nothing is promised from here on.
Broken == kept' = FALSE

Next == Begin \/ WriteSector \/ ReadReturns \/ WriteReturns \/ Broken
Spec == Init /\ [][Next]_vars
=============================================================================
