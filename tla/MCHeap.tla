------------------------------ MODULE MCHeap ------------------------------
(***************************************************************************)
(* A heap of four pages of 20 bytes, the first of them never free, and a   *)
(* size_t of 0 .. 159.  A request of 1 byte takes 4, one of 9 needs two    *)
(* pages, and what a freed block of two or three pages leaves is split.    *)
(* 5 elements of 100 overflow.  The other sizes are too large: 100 needs   *)
(* six pages, which is a negative int; with 130 the number of pages wraps  *)
(* to zero, with 150 to one; and 159 is rounded to zero.                   *)
(***************************************************************************)
EXTENDS Heap
=============================================================================
