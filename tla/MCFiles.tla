------------------------------ MODULE MCFiles ------------------------------
(***************************************************************************)
(* Two processes with two descriptors each, two files, a disk of three     *)
(* clusters of two bytes and a write buffer of three bytes: a file may be  *)
(* empty, fill one cluster exactly or reach into a second one, a second    *)
(* write to the buffer is cut short, and two files of two clusters do not  *)
(* fit.  A short path leads to one file from the first directory and to    *)
(* the other from the second.  The first part of a long path leads         *)
(* nowhere.                                                                *)
(***************************************************************************)
EXTENDS Files, TLC

CONSTANTS a, b, d1, d2, short, long, part

MCFileAt ==
    [d \in Cwds |-> [q \in Paths |-> CASE q = short -> IF d = d1 THEN a ELSE b
                                       [] q = long  -> IF d = d1 THEN b ELSE a
                                       [] q = part  -> NULL]]
MCCut == [q \in Paths |-> IF q = long THEN part ELSE q]
MCWrites == {<<1, 2>>}
MCOffsets == {-1, 1}

\* The processes can be exchanged, and the files if the directories are.
Exchanged == (a :> b) @@ (b :> a) @@ (d1 :> d2) @@ (d2 :> d1)
MCSymmetry == Permutations(Procs) \cup {p @@ Exchanged : p \in Permutations(Procs)}
=============================================================================
