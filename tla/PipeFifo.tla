------------------------------ MODULE PipeFifo ------------------------------
(***************************************************************************)
(* What an anonymous pipe promises its users: a queue of bytes of bounded  *)
(* capacity.  A write appends, a read returns what it takes from the       *)
(* front, and nothing else touches the bytes between the creation of a     *)
(* pipe and the close of its last descriptor.                              *)
(***************************************************************************)
EXTENDS Integers, Sequences

CONSTANTS PipeIds, Bytes, Capacity

VARIABLES
  open,       \* the pipes that exist
  queue,      \* queue[p]: the bytes in flight in pipe p
  delivered   \* what the last step, if it was a read, returned

Init == open = {} /\ queue = [p \in PipeIds |-> <<>>] /\ delivered = <<>>

Create(p) == open' = open \cup {p} /\ delivered' = <<>> /\ UNCHANGED queue

Write(p) ==
  /\ \E n \in 1..(Capacity - Len(queue[p])) : \E data \in [1..n -> Bytes] :
       queue' = [queue EXCEPT ![p] = @ \o data]
  /\ delivered' = <<>>
  /\ UNCHANGED open

Read(p) ==
  /\ \E n \in 1..Len(queue[p]) :
       /\ queue' = [queue EXCEPT ![p] = SubSeq(@, n + 1, Len(@))]
       /\ delivered' = SubSeq(queue[p], 1, n)
  /\ UNCHANGED open

\* The last descriptors of the pipes P are closed: what was not read is gone.
Discard(P) ==
  /\ open' = open \ P
  /\ queue' = [p \in PipeIds |-> IF p \in P THEN <<>> ELSE queue[p]]
  /\ delivered' = <<>>

\* A step that has nothing to do with the bytes of a pipe.
Idle == delivered' = <<>> /\ UNCHANGED <<open, queue>>

Next == \/ \E p \in PipeIds \ open : Create(p)
        \/ \E p \in open : Write(p) \/ Read(p)
        \/ \E P \in SUBSET open : Discard(P)
        \/ Idle

Spec == Init /\ [][Next]_<<open, queue, delivered>>
=============================================================================
