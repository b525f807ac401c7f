------------------------------ MODULE AtomicTx -------------------------------
(***************************************************************************)
(* What a Store promises to those who share it: one transaction at a time  *)
(* over the whole directory, each one done completely or not at all, from  *)
(* the contents the last one left.                                         *)
(*                                                                         *)
(* What it cannot promise: a multi-file update is not atomic on a POSIX    *)
(* filesystem.  A process that dies, or a write that fails, half way       *)
(* leaves some files of the one transaction and not others (tx.go: "ORDER  *)
(* IS THE DURABILITY STRATEGY").  Interrupted says exactly which: the      *)
(* files it writes up to some place in their order, then those it deletes. *)
(***************************************************************************)
EXTENDS Integers, Sequences

CONSTANTS
  Files, InitContents, Requests, Plan(_, _), Faults

VARIABLE content

Init == content \in InitContents

\* The contents after the first n changes of a plan, in the order they are made.
After(c, p, n) ==
  LET order == p.writes \o p.deletes
  IN [f \in Files |-> IF \E i \in 1..n : order[i] = f THEN p.target[f] ELSE c[f]]

Complete(r) == \E p \in Plan(content, r) :
  content' = After(content, p, Len(p.writes \o p.deletes))

Interrupted(r) == \E p \in Plan(content, r) : \E n \in 0..Len(p.writes \o p.deletes) :
  content' = After(content, p, n)

Next == \E r \in Requests : Complete(r) \/ (Faults /\ Interrupted(r))

Spec == Init /\ [][Next]_content

=============================================================================
