------------------------------- MODULE NodeIndex -------------------------------
(***************************************************************************)
(* How a node pool picks indices: for the worker node it creates, and for  *)
(* the one it deletes.                                                     *)
(***************************************************************************)
EXTENDS Integers

\* Mutants: holes are not filled; the last index instead of the next.
CountAsIndex(used, n) == n
IndexOfLast(used, n) == n - 1

\* The index of a new node: the lowest one that none of the n = len(items)
\* listed nodes uses, or n when 0 .. n-1 are all taken.
FreeIndex(used, n) ==
  IF \A i \in 0 .. n - 1 : i \in used THEN n
  ELSE CHOOSE i \in 0 .. n - 1 :
         /\ i \notin used
         /\ \A j \in 0 .. i - 1 : j \in used

\* Mutant: the comparison the other way round.
FirstIndex(used) == CHOOSE i \in used : \A j \in used : i <= j

\* The largest index in use.
LastIndex(used) == CHOOSE i \in used : \A j \in used : j <= i
================================================================================
