----------------------------- MODULE ReadyQueue -----------------------------
(***************************************************************************)
(* The ready queue of kernel/scheduler.c: a circular singly linked list    *)
(* reached through the pointer ready_queue.  It is modelled by the         *)
(* sequence obtained by walking the ring once from ready_queue, so         *)
(* q[1] is *ready_queue and the successor of the last element is q[1].     *)
(***************************************************************************)
EXTENDS Integers, Sequences, SequencesExt

\* proc->next and ready_queue->next are rewired: proc becomes the second.
RingAdd(q, proc) == IF q = <<>> THEN <<proc>> ELSE InsertAt(q, 2, proc)

\* Unlinks proc wherever it is; a process that is not on the ring is ignored.
RingRemove(q, proc) == RemoveFirst(q, proc)

\* ready_queue->next: the task that scheduler_switch goes to.
RingNext(q) == IF Len(q) > 1 THEN q[2] ELSE q[1]

\* ready_queue = ready_queue->next: the old head is now the last.
RingAdvance_AddBack(q) == RingAdd(Tail(q), Head(q))
RingAdvance(q) == Append(Tail(q), Head(q))

\* No process is linked twice.
NoDuplicates(q) == \A i, j \in DOMAIN q : i # j => q[i] # q[j]
=============================================================================
