---------------------------- MODULE MC_ArchRead -----------------------------
(* Instances of ArchRead for TLC.                                          *)
EXTENDS ArchRead

Newest == 1                 \* Ahead for interval archives
NewestClosed == -1          \* Ahead for month, day and hour archives
=============================================================================
