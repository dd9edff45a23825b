------------------------------ MODULE FileSpec ------------------------------
(***************************************************************************)
(* What the extent service promises: files by number, each a sequence of   *)
(* blocks; a file keeps what was last put, and nothing done to another     *)
(* file changes it.                                                        *)
(***************************************************************************)
EXTENDS Naturals, Sequences

CONSTANTS
  Inums,          \* file numbers
  Root,           \* the file that exists from the start
  Contents,       \* contents of a block
  MaxFile         \* the largest file, in blocks

VARIABLES
  live,           \* files that exist
  file            \* contents of each live file

vars == <<live, file>>

Texts == UNION {[1..n -> Contents] : n \in 0..MaxFile}

\* A removed file has no contents.
Init == live = {Root} /\ file = [i \in Inums |-> <<>>]

Create(i) ==
  /\ i \in Inums \ live
  /\ live' = live \cup {i}
  /\ UNCHANGED file

Put(i, text) ==
  /\ i \in live
  /\ file' = [file EXCEPT ![i] = text]
  /\ UNCHANGED live

Remove(i) ==
  /\ i \in live
  /\ live' = live \ {i}
  /\ file' = [file EXCEPT ![i] = <<>>]

Next == \E i \in Inums : Create(i) \/ Remove(i) \/ \E text \in Texts : Put(i, text)

Spec == Init /\ [][Next]_vars
=============================================================================
