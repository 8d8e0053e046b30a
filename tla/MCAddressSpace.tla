-------------------------- MODULE MCAddressSpace --------------------------
(***************************************************************************)
(* Two processes, five page tables and six frames, two of them identity-   *)
(* mapped: a second process may or may not fit.  A user half of eight      *)
(* pages of two bytes under two directory entries, the last page being the *)
(* stack.                                                                  *)
(***************************************************************************)
EXTENDS AddressSpace, TLC

\* A program of one page; one whose two segments share a page; one whose
\* header names no entry point.
MCImages ==
    {[segs |-> <<[vaddr |-> 0, memsz |-> 2]>>, entry |-> TRUE],
     [segs |-> <<[vaddr |-> 6, memsz |-> 1], [vaddr |-> 7, memsz |-> 2]>>, entry |-> TRUE],
     [segs |-> <<[vaddr |-> 0, memsz |-> 2], [vaddr |-> 0, memsz |-> 0]>>, entry |-> FALSE]}

\* Programs whose segments have pages of their own.
MCPlainImages == {[segs |-> <<[vaddr |-> 0, memsz |-> 2]>>, entry |-> TRUE]}

\* Part of a page, more than a page, the largest int; half a page and a page
\* back.
MCIncrements == {1, 3, 11, -1, -2}

MCSymmetry == Permutations(Tables) \cup Permutations(Procs)
=============================================================================
