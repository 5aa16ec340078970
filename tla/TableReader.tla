---------------------------- MODULE TableReader ----------------------------
(***************************************************************************)
(* What tekon_msr and tekon_arch promise, without requests, replies and    *)
(* numbers: a table of N rows is filled from its start, Chunk rows at a    *)
(* time and all rows of a chunk at one moment of the run, and the reader   *)
(* calls the reading complete only if the table is full.                   *)
(*                                                                         *)
(* Abstract counterpart of read_data in utils/msr/main.c and               *)
(* utils/arch/main.c; MsrRead and ArchRead implement it.                   *)
(***************************************************************************)
EXTENDS Integers

CONSTANTS
  N,              \* rows to read
  Chunk,          \* rows of one reading
  Nothing,        \* what a row that was not read shows
  Content(_, _)   \* what row i of the device holds at moment t

VARIABLES
  origin,   \* the moment the run started
  now,      \* the present moment
  count,    \* rows read so far
  table,    \* what the rows show
  verdict   \* "reading", then "complete" or "incomplete"

vars == <<origin, now, count, table, verdict>>

Rows == 0 .. N-1
Upto(a, b) == IF a < b THEN a ELSE b

Init ==
  /\ origin \in Nat
  /\ now = origin
  /\ count = 0
  /\ table = [i \in Rows |-> Nothing]
  /\ verdict = "reading"

Pass ==
  /\ now' = now + 1
  /\ UNCHANGED <<origin, count, table, verdict>>

\* The next chunk, as the device held it at one moment between the start of
\* the run and now.
Read ==
  /\ verdict = "reading"
  /\ count < N
  /\ count' = Upto(count + Chunk, N)
  /\ \E t \in origin .. now :
       table' = [i \in Rows |-> IF i \in count .. count' - 1 THEN Content(i, t)
                                ELSE table[i]]
  /\ UNCHANGED <<origin, now, verdict>>

\* A reading may be broken off at any time, but not be called complete.
Conclude ==
  /\ verdict = "reading"
  /\ \/ verdict' = "complete" /\ count = N
     \/ verdict' = "incomplete"
  /\ UNCHANGED <<origin, now, count, table>>

Next == Pass \/ Read \/ Conclude

Spec == Init /\ [][Next]_vars
=============================================================================
