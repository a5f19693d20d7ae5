------------------------------ MODULE MCFat32 ------------------------------
(* Instances of Fat32: three data clusters after the root directory's, a   *)
(* FAT of one or two sectors, two directory entries, two names.            *)
EXTENDS Fat32

CONSTANTS a, b, p, q

\* What the callers do.  The signature pad only deletes, creates and then
\* writes a file once; AppendOnly adds renaming and cutting files shorter.
\* Without power failures callers may also overwrite, and rename onto a used name.
AppendOnly   == {"create", "write", "delete", "rename", "truncate", "read", "reboot"}
NoPowerLoss  == (AppendOnly \cup {"overwrite", "rename_onto"}) \ {"reboot"}

CrashOrNot       == {AppendOnly, NoPowerLoss}
TruncateZeroOnly == {AppendOnly \cup {"truncate_zero"}}
=============================================================================
