------------------------------ MODULE MCFat32 ------------------------------
(* A disk of five clusters of two directory slots: a directory is full from *)
(* the start, the root with its second slot.  "b" is a long name.           *)
EXTENDS Fat32

MCPaths == {[abs |-> FALSE, names |-> <<n>>] : n \in {"a", "b", "d", ".."}}
              \cup {[abs |-> TRUE, names |-> <<"d", "b">>]}
=============================================================================
