---------------------------- MODULE Pipes_proofs ----------------------------
(***************************************************************************)
(* Proofs about descriptors, pipes and write buffers, for any number of    *)
(* processes, descriptors, pipes and buffers of any size.                  *)
(***************************************************************************)
EXTENDS Pipes, FiniteSetTheorems, SequenceTheorems, WellFoundedInduction, TLAPS

Shared == {"PIPE_READ", "PIPE_WRITE", "WFILE"}
Living(p) == pstate[p] \notin {"unborn", "gone"}

(* What the inductive invariant needs beside the invariants of the runs. *)

\* Who is registered sleeps in a call on that end, and has reason to.
Registrations ==
  \A P \in PipeIds :
    /\ LET r == pipe[P].blocked_reader
       IN r # NULL => /\ pstate[r] = "asleep" /\ call[r].op = "read" /\ call[r].pipe = P
                      /\ Used(pipe[P]) = 0 /\ pipe[P].write_open > 0
    /\ LET w == pipe[P].blocked_writer
       IN w # NULL => /\ pstate[w] = "asleep" /\ call[w].op = "write" /\ call[w].pipe = P
                      /\ Space(pipe[P]) = 0 /\ pipe[P].read_open > 0

\* A process in the middle of a call holds the descriptor of that call, and
\* only such a process sleeps.
CallsHold ==
  \A p \in Procs :
    /\ pstate[p] = "asleep" => call[p].op # "none"
    /\ call[p].op # "none" => pstate[p] \in {"ready", "asleep"}
    /\ call[p].op = "read" => Ends(fds[p], "PIPE_READ", call[p].pipe) # {}
    /\ call[p].op = "write" => Ends(fds[p], "PIPE_WRITE", call[p].pipe) # {}

\* There is nothing in a pipe that does not exist.
FreshUnlessAllocated == \A P \in PipeIds \ allocated : pipe[P] = FreshPipe(0)

\* What lies between tail and head was written by somebody.
RingHolds(pp) == \A i \in 0..(Used(pp) - 1) : pp.buf[(pp.tail + i) % PIPE_BUF_SIZE] \in Bytes
BytesInFlight == \A P \in PipeIds : RingHolds(pipe[P])

\* A pipe exists as long as a descriptor refers to it.
AllocatedIffUsed ==
  \A P \in PipeIds : P \in allocated <=> Refs("PIPE_READ", P) \cup Refs("PIPE_WRITE", P) # {}

IInv ==
  /\ TypeOK /\ RefcountsExact /\ PipesAllocatedWhileUsed /\ Registrations
  /\ CallsHold /\ FreshUnlessAllocated /\ BytesInFlight
-----------------------------------------------------------------------------
(* The ring *)

LEMMA Modulo ==
  ASSUME NEW a \in Nat, a < 2 * PIPE_BUF_SIZE
  PROVE  a % PIPE_BUF_SIZE = IF a < PIPE_BUF_SIZE THEN a ELSE a - PIPE_BUF_SIZE
BY PipesAssumption

LEMMA UsedFacts ==
  ASSUME NEW pp, pp.head \in Ring, pp.tail \in Ring
  PROVE  /\ Used(pp) = IF pp.head >= pp.tail THEN pp.head - pp.tail
                       ELSE pp.head - pp.tail + PIPE_BUF_SIZE
         /\ Used(pp) \in 0..(PIPE_BUF_SIZE - 1)
         /\ Space(pp) \in 0..(PIPE_BUF_SIZE - 1)
<1> DEFINE a == pp.head - pp.tail + PIPE_BUF_SIZE
<1>1. a \in Nat /\ a < 2 * PIPE_BUF_SIZE
  BY PipesAssumption DEF Ring
<1>2. a % PIPE_BUF_SIZE = IF a < PIPE_BUF_SIZE THEN a ELSE a - PIPE_BUF_SIZE
  BY <1>1, Modulo
<1> QED BY <1>1, <1>2, PipesAssumption DEF Used, Space, Ring

\* Moving an index of the ring n places on.
LEMMA Advance ==
  ASSUME NEW x \in Ring, NEW n \in 0..PIPE_BUF_SIZE
  PROVE  /\ (x + n) % PIPE_BUF_SIZE \in Ring
         /\ (x + n) % PIPE_BUF_SIZE =
              IF x + n < PIPE_BUF_SIZE THEN x + n ELSE x + n - PIPE_BUF_SIZE
<1> DEFINE a == x + n
<1>1. a \in Nat /\ a < 2 * PIPE_BUF_SIZE
  BY PipesAssumption DEF Ring
<1>2. a % PIPE_BUF_SIZE = IF a < PIPE_BUF_SIZE THEN a ELSE a - PIPE_BUF_SIZE
  <2> HIDE DEF a
  <2> QED BY <1>1, Modulo
<1> QED BY <1>1, <1>2, PipesAssumption DEF Ring

\* Places of a ring of N slots with u of them used from t on, h behind them,
\* where n more go in.
LEMMA RingArithmetic ==
  ASSUME NEW N \in Nat, NEW h \in Nat, NEW t \in Nat, NEW u \in Nat, NEW n \in Nat,
         NEW h2 \in Nat, h < N, t < N, u + n < N,
         u = IF h >= t THEN h - t ELSE h - t + N,
         h2 = IF h + n < N THEN h + n ELSE h + n - N
  PROVE  /\ u + n = IF h2 >= t THEN h2 - t ELSE h2 - t + N
         /\ \A i \in Nat, k \in Nat :
              /\ k < N /\ i < N
              /\ k = IF t + i < N THEN t + i ELSE t + i - N
              => LET off == IF k >= h THEN k - h ELSE k - h + N
                 IN  IF i < u THEN off >= n ELSE i < u + n => off = i - u
OBVIOUS

\* Bytes that fit go in behind those that are there, which stay.
LEMMA StoredFacts ==
  ASSUME NEW pp \in Pipe, NEW data \in Seq(Bytes), NEW n \in Nat, n <= Space(pp), n <= Len(data),
         NEW s, s = Stored(pp, data, n)
  PROVE  /\ s \in Pipe
         /\ s.tail = pp.tail /\ s.read_open = pp.read_open /\ s.write_open = pp.write_open
         /\ s.blocked_reader = pp.blocked_reader /\ s.blocked_writer = pp.blocked_writer
         /\ Used(s) = Used(pp) + n
         /\ \A i \in 0..(Used(pp) - 1) :
              s.buf[(pp.tail + i) % PIPE_BUF_SIZE] = pp.buf[(pp.tail + i) % PIPE_BUF_SIZE]
         /\ \A i \in 0..(n - 1) :
              s.buf[(pp.tail + (Used(pp) + i)) % PIPE_BUF_SIZE] = data[i + 1]
<1> DEFINE N == PIPE_BUF_SIZE
           u == Used(pp)
           Off(i) == (i - pp.head + N) % N
<1>0. /\ pp.head \in Ring /\ pp.tail \in Ring /\ n \in Nat /\ N \in Nat /\ N >= 2
      /\ u \in Nat /\ u + n < N
      /\ u = IF pp.head >= pp.tail THEN pp.head - pp.tail ELSE pp.head - pp.tail + N
  BY UsedFacts, PipesAssumption DEF Pipe, Space
<1>1. /\ s.head = (pp.head + n) % N /\ s.tail = pp.tail
      /\ s = [pp EXCEPT !.head = s.head, !.buf = s.buf]
      /\ s.buf = [i \in Ring |-> IF Off(i) < n THEN data[Off(i) + 1] ELSE pp.buf[i]]
  BY DEF Stored, Pipe
<1>2. /\ s.head \in Ring
      /\ s.head = IF pp.head + n < N THEN pp.head + n ELSE pp.head + n - N
  BY <1>0, <1>1, Advance
<1>3. \A i \in Ring : /\ Off(i) \in Nat
                       /\ Off(i) = IF i >= pp.head THEN i - pp.head ELSE i - pp.head + N
  <2> TAKE i \in Ring
  <2> DEFINE a == i - pp.head + N
  <2>1. a \in Nat /\ a < 2 * N
    BY <1>0 DEF Ring
  <2>2. a % N = IF a < N THEN a ELSE a - N
    <3> HIDE DEF a
    <3> QED BY <2>1, Modulo
  <2>3. a % N \in Nat
    BY <1>0, <2>1, <2>2
  <2>4. (IF a < N THEN a ELSE a - N) = IF i >= pp.head THEN i - pp.head ELSE i - pp.head + N
    BY <1>0 DEF Ring
  <2> QED BY <2>2, <2>3, <2>4
<1>u. Used(s) = IF s.head >= s.tail THEN s.head - s.tail ELSE s.head - s.tail + N
  BY <1>0, <1>1, <1>2, UsedFacts
<1> HIDE DEF u, Off
<1>a. /\ pp.head \in Nat /\ pp.head < N /\ pp.tail \in Nat /\ pp.tail < N
      /\ s.head \in Nat /\ s.head < N
  BY <1>0, <1>2 DEF Ring
<1>b. /\ u + n = IF s.head >= pp.tail THEN s.head - pp.tail ELSE s.head - pp.tail + N
      /\ \A i \in Nat, k \in Nat :
           /\ k < N /\ i < N
           /\ k = IF pp.tail + i < N THEN pp.tail + i ELSE pp.tail + i - N
           => LET off == IF k >= pp.head THEN k - pp.head ELSE k - pp.head + N
              IN  IF i < u THEN off >= n ELSE i < u + n => off = i - u
  <2> DEFINE h == pp.head
             t == pp.tail
             h2 == s.head
  <2>1. /\ N \in Nat /\ h \in Nat /\ t \in Nat /\ u \in Nat /\ n \in Nat /\ h2 \in Nat
        /\ h < N /\ t < N /\ u + n < N
        /\ u = IF h >= t THEN h - t ELSE h - t + N
        /\ h2 = IF h + n < N THEN h + n ELSE h + n - N
    BY <1>0, <1>2, <1>a
  <2> HIDE DEF N, h, t, h2
  <2>2. /\ u + n = IF h2 >= t THEN h2 - t ELSE h2 - t + N
        /\ \A i \in Nat, k \in Nat :
             /\ k < N /\ i < N
             /\ k = IF t + i < N THEN t + i ELSE t + i - N
             => LET off == IF k >= h THEN k - h ELSE k - h + N
                IN  IF i < u THEN off >= n ELSE i < u + n => off = i - u
    BY <2>1, RingArithmetic
  <2> QED BY <2>2 DEF h, t, h2
<1>4. s \in Pipe
  <2>1. s.buf \in [Ring -> Chars]
    <3>1. ASSUME NEW i \in Ring, Off(i) < n
          PROVE  data[Off(i) + 1] \in Bytes
      <4>1. Off(i) \in Nat
        BY <1>3
      <4>2. Off(i) + 1 \in 1..Len(data)
        BY <4>1, <3>1
      <4> QED BY <4>2
    <3> QED BY <1>1, <3>1 DEF Pipe, Chars
  <2> QED BY <1>1, <1>2, <2>1 DEF Pipe
<1>5. Used(s) = u + n
  BY <1>1, <1>b, <1>u
<1>6. ASSUME NEW i \in 0..(u - 1)
      PROVE  s.buf[(pp.tail + i) % N] = pp.buf[(pp.tail + i) % N]
  <2> DEFINE k == (pp.tail + i) % N
  <2>0. i \in 0..N /\ i \in Nat /\ i < u /\ i < N
    BY <1>0
  <2>1. k \in Ring /\ k = IF pp.tail + i < N THEN pp.tail + i ELSE pp.tail + i - N
    BY <1>0, <2>0, Advance
  <2>2. k \in Nat /\ k < N
    BY <1>0, <2>1 DEF Ring
  <2> HIDE DEF k
  <2>3. Off(k) >= n
    BY <1>b, <1>3, <2>0, <2>1, <2>2
  <2>4. Off(k) \in Int
    BY <1>3, <2>1
  <2>5. ~(Off(k) < n)
    BY <2>3, <2>4
  <2> QED BY <1>1, <2>1, <2>5 DEF k
<1>7. ASSUME NEW i \in 0..(n - 1)
      PROVE  s.buf[(pp.tail + (u + i)) % N] = data[i + 1]
  <2> DEFINE j == u + i
             k == (pp.tail + j) % N
  <2>0. j \in 0..N /\ j \in Nat /\ j = u + i /\ i < n /\ ~(j < u) /\ j < u + n /\ j < N /\ j - u = i
    BY <1>0, SMTT(40)
  <2>1. k \in Ring /\ k = IF pp.tail + j < N THEN pp.tail + j ELSE pp.tail + j - N
    BY <1>0, <2>0, Advance
  <2>2. k \in Nat /\ k < N
    BY <1>0, <2>1 DEF Ring
  <2> HIDE DEF k, j
  <2>3. Off(k) = i
    BY <1>b, <1>3, <2>0, <2>1, <2>2
  <2> QED BY <1>0, <1>1, <2>0, <2>1, <2>3 DEF k, j
<1>8. /\ s.tail = pp.tail /\ s.read_open = pp.read_open /\ s.write_open = pp.write_open
      /\ s.blocked_reader = pp.blocked_reader /\ s.blocked_writer = pp.blocked_writer
  BY <1>1 DEF Pipe
<1> QED BY <1>4, <1>5, <1>6, <1>7, <1>8 DEF u

\* Taking bytes from the front shortens what is in flight and moves nothing.
LEMMA TakenFacts ==
  ASSUME NEW pp \in Pipe, NEW got \in Nat, got <= Used(pp), NEW qq,
         qq.head = pp.head, qq.tail = (pp.tail + got) % PIPE_BUF_SIZE
  PROVE  /\ qq.tail \in Ring
         /\ Used(qq) = Used(pp) - got
         /\ \A i \in 0..(Used(pp) - got - 1) :
              (qq.tail + i) % PIPE_BUF_SIZE = (pp.tail + (got + i)) % PIPE_BUF_SIZE
<1> DEFINE N == PIPE_BUF_SIZE
           u == Used(pp)
           h == pp.head
           t == pp.tail
           t2 == qq.tail
<1>0. N \in Nat /\ N >= 2 /\ pp.head \in Ring /\ pp.tail \in Ring
  BY PipesAssumption DEF Pipe
<1>1. /\ h \in Nat /\ h < N /\ t \in Nat /\ t < N /\ u \in Nat /\ u < N
      /\ u = IF h >= t THEN h - t ELSE h - t + N
  BY <1>0, UsedFacts DEF Ring
<1>2. /\ t2 \in Ring /\ t2 = IF t + got < N THEN t + got ELSE t + got - N
  <2>1. got \in 0..N
    BY <1>0, <1>1
  <2> QED BY <1>0, <2>1, Advance
<1>3. t2 \in Nat /\ t2 < N
  BY <1>0, <1>2 DEF Ring
<1>4. Used(qq) = IF h >= t2 THEN h - t2 ELSE h - t2 + N
  BY <1>0, <1>2, UsedFacts
<1>5. Used(qq) = u - got
  <2> HIDE DEF N, u, h, t, t2
  <2>1. got <= u
    BY DEF u
  <2>2. (IF h >= t2 THEN h - t2 ELSE h - t2 + N) = u - got
    BY <1>0, <1>1, <1>2, <1>3, <2>1
  <2> QED BY <1>4, <2>2
<1>6. ASSUME NEW i \in 0..(u - got - 1)
      PROVE  (t2 + i) % N = (t + (got + i)) % N
  <2> DEFINE j == got + i
  <2>1. i \in Nat /\ j \in Nat /\ j < N /\ i < N /\ i \in 0..N /\ j \in 0..N /\ j = got + i
    <3>1. i \in Nat /\ got + i < u
      <4> HIDE DEF u
      <4> QED BY <1>1
    <3> HIDE DEF u, N
    <3> QED BY <1>0, <1>1, <3>1
  <2> HIDE DEF j
  <2>2. (t2 + i) % N = IF t2 + i < N THEN t2 + i ELSE t2 + i - N
    BY <1>2, <2>1, Advance
  <2>3. (t + j) % N = IF t + j < N THEN t + j ELSE t + j - N
    BY <1>0, <2>1, Advance
  <2> HIDE DEF N, u, h, t, t2
  <2>4. (IF t2 + i < N THEN t2 + i ELSE t2 + i - N) = IF t + j < N THEN t + j ELSE t + j - N
    BY <1>0, <1>1, <1>2, <1>3, <2>1
  <2> QED BY <2>2, <2>3, <2>4 DEF j
<1> QED BY <1>2, <1>5, <1>6

\* The bytes in flight as a sequence: the value that stands for a ring in the
\* abstract queue.
QueueOf(pp) == Taken(pp, Used(pp))

LEMMA QueueType ==
  ASSUME NEW pp \in Pipe, RingHolds(pp), NEW n \in Nat, n <= Used(pp)
  PROVE  /\ Taken(pp, n) \in Seq(Bytes) /\ Len(Taken(pp, n)) = n
         /\ \A i \in 1..n : Taken(pp, n)[i] = pp.buf[(pp.tail + (i - 1)) % PIPE_BUF_SIZE]
<1>1. Used(pp) \in Nat /\ pp.tail \in Nat
  BY UsedFacts DEF Pipe, Ring
<1>2. ASSUME NEW i \in 1..n
      PROVE  /\ pp.buf[(pp.tail + (i - 1)) % PIPE_BUF_SIZE] \in Bytes
             /\ Taken(pp, n)[i] = pp.buf[(pp.tail + (i - 1)) % PIPE_BUF_SIZE]
  <2>1. i - 1 \in 0..(Used(pp) - 1)
    <3> DEFINE u == Used(pp)
    <3>1. u \in Nat /\ n <= u
      BY <1>1
    <3> HIDE DEF u
    <3>2. i - 1 \in 0..(u - 1)
      BY <3>1
    <3> QED BY <3>2 DEF u
  <2>2. pp.buf[(pp.tail + (i - 1)) % PIPE_BUF_SIZE] \in Bytes
    BY <2>1 DEF RingHolds
  <2>3. pp.tail + (i - 1) = pp.tail + i - 1
    BY <1>1
  <2>4. Taken(pp, n)[i] = pp.buf[(pp.tail + i - 1) % PIPE_BUF_SIZE]
    BY DEF Taken
  <2> QED BY <2>2, <2>3, <2>4
<1>3. Taken(pp, n) \in [1..n -> Bytes]
  <2>1. Taken(pp, n) = [i \in 1..n |-> Taken(pp, n)[i]]
    BY DEF Taken
  <2> QED BY <1>2, <2>1
<1>4. Taken(pp, n) \in Seq(Bytes)
  BY <1>3, SeqDef
<1>5. Len(Taken(pp, n)) = n
  <2>1. DOMAIN Taken(pp, n) = 1..n
    BY <1>3
  <2> QED BY <1>4, <2>1, LenProperties
<1> QED BY <1>2, <1>4, <1>5

-----------------------------------------------------------------------------
(* Counting descriptors *)

\* Sets of slots are finite, so their sizes are natural numbers.
LEMMA SlotsFinite ==
  ASSUME NEW F \in SUBSET Fds
  PROVE  /\ IsFiniteSet(F) /\ Cardinality(F) \in Nat
         /\ Cardinality(F) = 0 <=> F = {}
<1>1. IsFiniteSet(Fds)
  BY FS_Interval, PipesAssumption DEF Fds
<1>2. IsFiniteSet(F)
  BY <1>1, FS_Subset
<1> QED BY <1>2, FS_CardinalityType, FS_EmptySet

LEMMA RefsFinite ==
  ASSUME NEW S \in SUBSET (Procs \X Fds)
  PROVE  /\ IsFiniteSet(S) /\ Cardinality(S) \in Nat
         /\ Cardinality(S) = 0 <=> S = {}
<1>1. IsFiniteSet(Fds) /\ IsFiniteSet(Procs)
  BY FS_Interval, PipesAssumption DEF Fds
<1>2. IsFiniteSet(Procs \X Fds)
  BY <1>1, FS_Product
<1>3. IsFiniteSet(S)
  BY <1>2, FS_Subset
<1> QED BY <1>3, FS_CardinalityType, FS_EmptySet

LEMMA SlotsOf ==
  ASSUME NEW p \in Procs, NEW F \in SUBSET Fds
  PROVE  /\ {p} \X F \in SUBSET (Procs \X Fds)
         /\ Cardinality({p} \X F) = Cardinality(F)
<1>1. IsFiniteSet(F) /\ Cardinality(F) \in Nat
  BY SlotsFinite
<1>2. IsFiniteSet({p}) /\ Cardinality({p}) = 1
  BY FS_Singleton
<1>3. Cardinality({p} \X F) = Cardinality({p}) * Cardinality(F)
  BY <1>1, <1>2, FS_Product
<1> QED BY <1>1, <1>2, <1>3

\* Closing slots of one process takes that many references away.
LEMMA RefsRemoved ==
  ASSUME NEW S \in SUBSET (Procs \X Fds), NEW p \in Procs, NEW F \in SUBSET Fds,
         {p} \X F \subseteq S
  PROVE  /\ Cardinality(F) <= Cardinality(S)
         /\ Cardinality(S \ ({p} \X F)) = Cardinality(S) - Cardinality(F)
         /\ Cardinality(F) = Cardinality(S) <=> S \ ({p} \X F) = {}
<1>1. IsFiniteSet(S) /\ Cardinality(S) \in Nat /\ Cardinality(F) \in Nat
  BY RefsFinite, SlotsFinite
<1>2. Cardinality(S \ ({p} \X F)) = Cardinality(S) - Cardinality(S \cap ({p} \X F))
  BY <1>1, FS_Difference
<1>3. S \cap ({p} \X F) = {p} \X F
  OBVIOUS
<1>4. Cardinality({p} \X F) = Cardinality(F)
  BY SlotsOf
<1>5. S \ ({p} \X F) \in SUBSET (Procs \X Fds)
  OBVIOUS
<1>6. /\ Cardinality(S \ ({p} \X F)) \in Nat
      /\ Cardinality(S \ ({p} \X F)) = 0 <=> S \ ({p} \X F) = {}
  BY <1>5, RefsFinite
<1> DEFINE a == Cardinality(S)
           b == Cardinality(F)
           c == Cardinality(S \ ({p} \X F))
<1>7. a \in Nat /\ b \in Nat /\ c \in Nat /\ c = a - b
  BY <1>1, <1>2, <1>3, <1>4, <1>6
<1>8. c = 0 <=> S \ ({p} \X F) = {}
  BY <1>6
<1> HIDE DEF a, b, c
<1>9. b <= a /\ (b = a <=> c = 0)
  BY <1>7
<1> QED BY <1>7, <1>8, <1>9 DEF a, b, c

\* Opening slots of one process adds that many.
LEMMA RefsAdded ==
  ASSUME NEW S \in SUBSET (Procs \X Fds), NEW p \in Procs, NEW F \in SUBSET Fds,
         ({p} \X F) \cap S = {}
  PROVE  Cardinality(S \cup ({p} \X F)) = Cardinality(S) + Cardinality(F)
<1>1. IsFiniteSet(S) /\ Cardinality(S) \in Nat /\ Cardinality(F) \in Nat
  BY RefsFinite, SlotsFinite
<1>2. Cardinality({p} \X F) = Cardinality(F) /\ {p} \X F \in SUBSET (Procs \X Fds)
  BY SlotsOf
<1>3. IsFiniteSet({p} \X F)
  BY <1>2, RefsFinite
<1>4. Cardinality(S \cup ({p} \X F)) =
        Cardinality(S) + Cardinality({p} \X F) - Cardinality(S \cap ({p} \X F))
  BY <1>1, <1>3, FS_Union
<1>5. S \cap ({p} \X F) = {}
  OBVIOUS
<1> QED BY <1>1, <1>2, <1>4, <1>5, FS_EmptySet

\* The number of ends that the slots F of table t hold.
EndCount(t, kind, o, F) == Cardinality(Ends(t, kind, o) \cap F)

LEMMA EndCountFacts ==
  ASSUME NEW t, NEW kind, NEW o, NEW F \in SUBSET Fds
  PROVE  /\ Ends(t, kind, o) \cap F \in SUBSET Fds
         /\ EndCount(t, kind, o, F) \in Nat
         /\ EndCount(t, kind, o, F) = 0 <=> Ends(t, kind, o) \cap F = {}
         /\ o \in PipeIds => (o \in Holding(t, F, kind) <=> EndCount(t, kind, o, F) > 0)
<1>1. Ends(t, kind, o) \cap F \in SUBSET Fds
  BY DEF Ends
<1>2. /\ EndCount(t, kind, o, F) \in Nat
      /\ EndCount(t, kind, o, F) = 0 <=> Ends(t, kind, o) \cap F = {}
  BY <1>1, SlotsFinite DEF EndCount
<1> QED BY <1>1, <1>2 DEF Holding

\* What closing slots does to a pipe whose counts cover them.
LEMMA ClosedPipe ==
  ASSUME NEW pp \in [PipeIds -> Pipe], NEW t, NEW F \in SUBSET Fds, NEW P \in PipeIds,
         NEW cr, cr = EndCount(t, "PIPE_READ", P, F), cr <= pp[P].read_open,
         NEW cw, cw = EndCount(t, "PIPE_WRITE", P, F), cw <= pp[P].write_open
  PROVE  /\ P \in Orphaned(pp, t, F) <=>
              (cr > 0 \/ cw > 0) /\ cr = pp[P].read_open /\ cw = pp[P].write_open
         /\ PipesClosed(pp, t, F)[P] \in Pipe
         /\ PipesClosed(pp, t, F)[P].read_open = pp[P].read_open - cr
         /\ PipesClosed(pp, t, F)[P].write_open = pp[P].write_open - cw
         /\ P \in Orphaned(pp, t, F) => PipesClosed(pp, t, F)[P] = FreshPipe(0)
         /\ P \notin Orphaned(pp, t, F) =>
              /\ PipesClosed(pp, t, F)[P].buf = pp[P].buf
              /\ PipesClosed(pp, t, F)[P].head = pp[P].head
              /\ PipesClosed(pp, t, F)[P].tail = pp[P].tail
              /\ PipesClosed(pp, t, F)[P].blocked_reader =
                   IF cw > 0 THEN NULL ELSE pp[P].blocked_reader
              /\ PipesClosed(pp, t, F)[P].blocked_writer =
                   IF cr > 0 THEN NULL ELSE pp[P].blocked_writer
<1> DEFINE e == EndsClosed(pp, t, F)[P]
<1>0. /\ cr \in Nat /\ (P \in Holding(t, F, "PIPE_READ") <=> cr > 0)
      /\ cw \in Nat /\ (P \in Holding(t, F, "PIPE_WRITE") <=> cw > 0)
  BY EndCountFacts
<1>1. pp[P] \in Pipe
  OBVIOUS
<1>2. e = [pp[P] EXCEPT !.read_open = @ - cr, !.write_open = @ - cw,
                        !.blocked_writer = IF cr > 0 THEN NULL ELSE @,
                        !.blocked_reader = IF cw > 0 THEN NULL ELSE @]
  <2> DEFINE hr == P \in Holding(t, F, "PIPE_READ")
             hw == P \in Holding(t, F, "PIPE_WRITE")
  <2>1. e = [pp[P] EXCEPT !.read_open = @ - cr, !.write_open = @ - cw,
                          !.blocked_writer = IF hr THEN NULL ELSE @,
                          !.blocked_reader = IF hw THEN NULL ELSE @]
    BY DEF EndsClosed, EndCount
  <2>2. (hr <=> cr > 0) /\ (hw <=> cw > 0)
    BY <1>0
  <2> HIDE DEF hr, hw, e
  <2> QED BY <2>1, <2>2
<1>3. /\ e.read_open = pp[P].read_open - cr /\ e.write_open = pp[P].write_open - cw
      /\ e.buf = pp[P].buf /\ e.head = pp[P].head /\ e.tail = pp[P].tail
      /\ e.blocked_reader = IF cw > 0 THEN NULL ELSE pp[P].blocked_reader
      /\ e.blocked_writer = IF cr > 0 THEN NULL ELSE pp[P].blocked_writer
  BY <1>1, <1>2 DEF Pipe
<1>4. e \in Pipe
  <2>1. pp[P].read_open - cr \in Nat /\ pp[P].write_open - cw \in Nat
    BY <1>0, <1>1 DEF Pipe
  <2> HIDE DEF e
  <2> QED BY <1>1, <1>2, <2>1 DEF Pipe
<1>5. P \in Orphaned(pp, t, F) <=>
        (cr > 0 \/ cw > 0) /\ cr = pp[P].read_open /\ cw = pp[P].write_open
  <2>1. P \in Orphaned(pp, t, F) <=>
          (cr > 0 \/ cw > 0) /\ e.read_open <= 0 /\ e.write_open <= 0
    BY <1>0 DEF Orphaned
  <2>2. pp[P].read_open \in Nat /\ pp[P].write_open \in Nat
    BY <1>1 DEF Pipe
  <2> HIDE DEF e
  <2> QED BY <1>0, <1>3, <2>1, <2>2
<1>6. PipesClosed(pp, t, F)[P] = IF P \in Orphaned(pp, t, F) THEN FreshPipe(0) ELSE e
  BY DEF PipesClosed
<1>7. FreshPipe(0) \in Pipe /\ FreshPipe(0).read_open = 0 /\ FreshPipe(0).write_open = 0
  BY PipesAssumption DEF FreshPipe, Pipe, Chars, Ring
<1> HIDE DEF e
<1>8. pp[P].read_open \in Nat /\ pp[P].write_open \in Nat
  BY <1>1 DEF Pipe
<1>9. CASE P \in Orphaned(pp, t, F)
  BY <1>0, <1>5, <1>6, <1>7, <1>8, <1>9
<1>10. CASE P \notin Orphaned(pp, t, F)
  BY <1>3, <1>4, <1>5, <1>6, <1>10
<1> QED BY <1>9, <1>10

\* What new references do to a pipe.
LEMMA SharedPipe ==
  ASSUME NEW pp \in [PipeIds -> Pipe], NEW t, NEW F \in SUBSET Fds, NEW P \in PipeIds
  PROVE  LET s == PipesShared(pp, t, F)[P]
         IN  /\ s \in Pipe
             /\ s.read_open = pp[P].read_open + EndCount(t, "PIPE_READ", P, F)
             /\ s.write_open = pp[P].write_open + EndCount(t, "PIPE_WRITE", P, F)
             /\ s.buf = pp[P].buf /\ s.head = pp[P].head /\ s.tail = pp[P].tail
             /\ s.blocked_reader = pp[P].blocked_reader
             /\ s.blocked_writer = pp[P].blocked_writer
<1> DEFINE cr == EndCount(t, "PIPE_READ", P, F)
           cw == EndCount(t, "PIPE_WRITE", P, F)
<1>1. cr \in Nat /\ cw \in Nat
  BY EndCountFacts
<1>2. PipesShared(pp, t, F)[P] = [pp[P] EXCEPT !.read_open = @ + cr, !.write_open = @ + cw]
  BY DEF PipesShared, EndCount
<1> HIDE DEF cr, cw
<1> DEFINE s == PipesShared(pp, t, F)[P]
<1>3. s \in Pipe
  <2>1. /\ s = [pp[P] EXCEPT !.read_open = @ + cr, !.write_open = @ + cw] /\ pp[P] \in Pipe
        /\ pp[P].read_open + cr \in Nat /\ pp[P].write_open + cw \in Nat
    BY <1>1, <1>2 DEF Pipe
  <2> HIDE DEF s
  <2> QED BY <2>1 DEF Pipe
<1>4. /\ s.read_open = pp[P].read_open + cr /\ s.write_open = pp[P].write_open + cw
      /\ s.buf = pp[P].buf /\ s.head = pp[P].head /\ s.tail = pp[P].tail
      /\ s.blocked_reader = pp[P].blocked_reader /\ s.blocked_writer = pp[P].blocked_writer
  <2>1. s = [pp[P] EXCEPT !.read_open = @ + cr, !.write_open = @ + cw] /\ pp[P] \in Pipe
    BY <1>2
  <2> HIDE DEF s
  <2> QED BY <2>1 DEF Pipe
<1> QED BY <1>3, <1>4 DEF cr, cw

\* Which slots refer to an object, before and after a step.
LEMMA RefsMember ==
  ASSUME NEW k, NEW o
  PROVE  /\ Refs(k, o) \in SUBSET (Procs \X Fds) /\ Refs(k, o)' \in SUBSET (Procs \X Fds)
         /\ \A q \in Procs, f \in Fds :
              /\ <<q, f>> \in Refs(k, o) <=> Living(q) /\ f \in Ends(fds[q], k, o)
              /\ <<q, f>> \in Refs(k, o)' <=> Living(q)' /\ f \in Ends(fds'[q], k, o)
BY DEF Refs, Ends, Living

LEMMA SameRefs ==
  ASSUME NEW S \in SUBSET (Procs \X Fds), NEW T \in SUBSET (Procs \X Fds),
         \A q \in Procs, f \in Fds : <<q, f>> \in S <=> <<q, f>> \in T
  PROVE  S = T
OBVIOUS

\* A living process closes some slots, or all of them when it goes.
LEMMA RefsClose ==
  ASSUME NEW p \in Procs, NEW F \in SUBSET Fds, Living(p), Living(p)' \/ F = Fds,
         \A q \in Procs : q # p => (Living(q)' <=> Living(q)),
         \A q \in Procs : q # p => fds'[q] = fds[q],
         \A f \in Fds : fds'[p][f] = IF f \in F THEN Closed ELSE fds[p][f],
         NEW k \in Shared, NEW o
  PROVE  /\ {p} \X (Ends(fds[p], k, o) \cap F) \subseteq Refs(k, o)
         /\ Refs(k, o)' = Refs(k, o) \ ({p} \X (Ends(fds[p], k, o) \cap F))
<1> DEFINE C == {p} \X (Ends(fds[p], k, o) \cap F)
<1>0. C \in SUBSET (Procs \X Fds)
  BY DEF Ends
<1>1. \A q \in Procs, f \in Fds : <<q, f>> \in C <=> q = p /\ f \in Ends(fds[p], k, o) /\ f \in F
  OBVIOUS
<1>2. C \subseteq Refs(k, o)
  <2>1. \A q \in Procs, f \in Fds : <<q, f>> \in C => <<q, f>> \in Refs(k, o)
    BY <1>1, RefsMember
  <2> QED BY <1>0, <2>1
<1>4. \A f \in Fds : f \in Ends(fds'[p], k, o) <=> f \in Ends(fds[p], k, o) /\ f \notin F
  BY DEF Ends, Closed, Shared
<1> HIDE DEF C
<1>5. \A q \in Procs, f \in Fds : <<q, f>> \in Refs(k, o)' <=> <<q, f>> \in Refs(k, o) \ C
  <2> TAKE q \in Procs, f \in Fds
  <2>1. CASE q = p
    BY <1>1, <1>4, <2>1, RefsMember
  <2>2. CASE q # p
    BY <1>1, <2>2, RefsMember
  <2> QED BY <2>1, <2>2
<1>6. Refs(k, o) \ C \in SUBSET (Procs \X Fds) /\ Refs(k, o)' \in SUBSET (Procs \X Fds)
  BY RefsMember
<1> QED BY <1>2, <1>5, <1>6, SameRefs DEF C

\* The slots F of p, free before or of a process not yet born, become references.
LEMMA RefsOpen ==
  ASSUME NEW p \in Procs, NEW F \in SUBSET Fds, Living(p)',
         \A q \in Procs : q # p => (Living(q)' <=> Living(q)) /\ fds'[q] = fds[q],
         Living(p) => \A f \in F : fds[p][f].kind \notin Shared,
         Living(p) => \A f \in Fds \ F : fds[p][f] = fds'[p][f],
         ~Living(p) => F = Fds,
         NEW k \in Shared, NEW o
  PROVE  /\ Cardinality(Refs(k, o)') = Cardinality(Refs(k, o)) + EndCount(fds'[p], k, o, F)
         /\ Refs(k, o)' # {} <=> Refs(k, o) # {} \/ EndCount(fds'[p], k, o, F) # 0
<1> DEFINE E == Ends(fds'[p], k, o) \cap F
           C == {p} \X E
<1>0. C \in SUBSET (Procs \X Fds) /\ E \in SUBSET Fds
  BY DEF Ends
<1>1. \A q \in Procs, f \in Fds : <<q, f>> \in C <=> q = p /\ f \in Ends(fds'[p], k, o) /\ f \in F
  OBVIOUS
<1>2. \A f \in F : Living(p) => f \notin Ends(fds[p], k, o)
  BY DEF Ends
<1>6. \A f \in Fds \ F : Living(p) /\ (f \in Ends(fds'[p], k, o) <=> f \in Ends(fds[p], k, o))
  BY DEF Ends
<1> HIDE DEF C, E
<1>3. C \cap Refs(k, o) = {}
  <2>1. \A q \in Procs, f \in Fds : ~(<<q, f>> \in C /\ <<q, f>> \in Refs(k, o))
    BY <1>1, <1>2, RefsMember
  <2> QED BY <1>0, <2>1
<1>7. \A q \in Procs, f \in Fds : <<q, f>> \in Refs(k, o)' <=> <<q, f>> \in Refs(k, o) \cup C
  <2> TAKE q \in Procs, f \in Fds
  <2>1. CASE q = p /\ f \in F
    BY <1>1, <1>2, <2>1, RefsMember
  <2>2. CASE q = p /\ f \notin F
    BY <1>1, <1>6, <2>2, RefsMember
  <2>3. CASE q # p
    BY <1>1, <2>3, RefsMember
  <2> QED BY <2>1, <2>2, <2>3
<1>8. Refs(k, o) \in SUBSET (Procs \X Fds) /\ Refs(k, o)' \in SUBSET (Procs \X Fds)
  BY RefsMember
<1>9. Refs(k, o)' = Refs(k, o) \cup C
  BY <1>0, <1>7, <1>8, SameRefs
<1>10. Cardinality(Refs(k, o) \cup C) = Cardinality(Refs(k, o)) + Cardinality(E)
  BY <1>0, <1>3, <1>8, RefsAdded DEF C
<1>11. C # {} <=> Cardinality(E) # 0
  <2>1. \A e \in E : <<p, e>> \in C
    BY DEF C
  <2>2. C # {} <=> E # {}
    BY <2>1 DEF C
  <2> QED BY <1>0, <2>2, SlotsFinite
<1> QED BY <1>9, <1>10, <1>11 DEF EndCount, E

\* Nothing happens to the references when no table and no life changes.
LEMMA RefsUnchanged ==
  ASSUME UNCHANGED fds, \A q \in Procs : Living(q)' <=> Living(q), NEW k, NEW o
  PROVE  Refs(k, o)' = Refs(k, o)
<1>1. \A q \in Procs, f \in Fds : <<q, f>> \in Refs(k, o)' <=> <<q, f>> \in Refs(k, o)
  BY RefsMember
<1> QED BY <1>1, SameRefs, RefsMember
-----------------------------------------------------------------------------
(* Every step preserves the invariant *)

\* The states a process can be in the middle of a call or registered in.
LEMMA CallsAllocated ==
  ASSUME TypeOK', CallsHold', AllocatedIffUsed'
  PROVE  PipesAllocatedWhileUsed'
<1>1. ASSUME NEW p \in Procs, call'[p].op # "none"
      PROVE  call'[p].pipe \in allocated'
  <2>1. /\ call'[p].op \in {"read", "write"} /\ call'[p].pipe \in PipeIds
        /\ Living(p)'
    BY <1>1 DEF TypeOK, Call, CallsHold, Living
  <2>o. PICK P \in PipeIds : P = call'[p].pipe
    BY <2>1
  <2>2. PICK k \in {"PIPE_READ", "PIPE_WRITE"} : Ends(fds'[p], k, P) # {}
    BY <2>1, <2>o, <1>1 DEF CallsHold
  <2>3. PICK f \in Fds : f \in Ends(fds'[p], k, P)
    BY <2>2 DEF Ends
  <2>4. <<p, f>> \in Refs(k, P)'
    BY <2>1, <2>3, RefsMember
  <2>5. Refs("PIPE_READ", P)' \cup Refs("PIPE_WRITE", P)' # {}
    BY <2>2, <2>4
  <2> QED BY <2>o, <2>5 DEF AllocatedIffUsed
<1> QED BY <1>1 DEF PipesAllocatedWhileUsed, AllocatedIffUsed

SameRing(pp, qq) == qq.buf = pp.buf /\ qq.head = pp.head /\ qq.tail = pp.tail

\* A pipe whose ring does not change keeps its bytes.
LEMMA RingKept ==
  ASSUME NEW pp, NEW qq, qq.buf = pp.buf, qq.head = pp.head, qq.tail = pp.tail
  PROVE  /\ Used(qq) = Used(pp) /\ Space(qq) = Space(pp) /\ QueueOf(qq) = QueueOf(pp)
         /\ RingHolds(pp) => RingHolds(qq)
BY DEF Used, Space, RingHolds, QueueOf, Taken

LEMMA FreshFacts ==
  ASSUME NEW e \in {0, 1}
  PROVE  /\ FreshPipe(e) \in Pipe /\ RingHolds(FreshPipe(e)) /\ Used(FreshPipe(e)) = 0
         /\ FreshPipe(e).head = 0 /\ FreshPipe(e).tail = 0
         /\ FreshPipe(e).read_open = e /\ FreshPipe(e).write_open = e
         /\ FreshPipe(e).blocked_reader = NULL /\ FreshPipe(e).blocked_writer = NULL
<1>1. FreshPipe(e) \in Pipe
  BY PipesAssumption DEF FreshPipe, Pipe, Chars, Ring
<1>2. /\ FreshPipe(e).head = 0 /\ FreshPipe(e).tail = 0
      /\ FreshPipe(e).read_open = e /\ FreshPipe(e).write_open = e
      /\ FreshPipe(e).blocked_reader = NULL /\ FreshPipe(e).blocked_writer = NULL
  BY DEF FreshPipe
<1>3. Used(FreshPipe(e)) = 0
  BY <1>1, <1>2, UsedFacts DEF Pipe
<1> QED BY <1>1, <1>2, <1>3 DEF RingHolds

LEMMA QueueFresh ==
  ASSUME NEW e \in {0, 1}
  PROVE  QueueOf(FreshPipe(e)) = <<>>
<1> DEFINE pp == FreshPipe(e)
<1>1. pp \in Pipe /\ RingHolds(pp) /\ Used(pp) = 0
  BY FreshFacts
<1> HIDE DEF pp
<1>2. Taken(pp, 0) \in Seq(Bytes) /\ Len(Taken(pp, 0)) = 0
  BY <1>1, QueueType
<1>3. Taken(pp, 0) = <<>>
  BY <1>2, EmptySeq
<1> QED BY <1>1, <1>3 DEF QueueOf, pp

\* What goes into the ring is appended to the queue.
LEMMA QueueWrite ==
  ASSUME NEW pp \in Pipe, RingHolds(pp), NEW data \in Seq(Bytes),
         NEW n \in Nat, n <= Space(pp), n <= Len(data),
         NEW s, s = Stored(pp, data, n), RingHolds(s)
  PROVE  /\ n <= PIPE_BUF_SIZE - 1 - Len(QueueOf(pp))
         /\ SubSeq(data, 1, n) \in [1..n -> Bytes]
         /\ QueueOf(s) = QueueOf(pp) \o SubSeq(data, 1, n)
<1> DEFINE u == Used(pp)
           d == SubSeq(data, 1, n)
           a == QueueOf(pp)
           b == QueueOf(s)
<1>0. u \in Nat /\ n <= PIPE_BUF_SIZE - 1 - u
  BY UsedFacts DEF Pipe, Space
<1>1. /\ s \in Pipe /\ s.tail = pp.tail
      /\ Used(s) = u + n
      /\ \A i \in 0..(u - 1) :
           s.buf[(pp.tail + i) % PIPE_BUF_SIZE] = pp.buf[(pp.tail + i) % PIPE_BUF_SIZE]
      /\ \A i \in 0..(n - 1) :
           s.buf[(pp.tail + (u + i)) % PIPE_BUF_SIZE] = data[i + 1]
  BY StoredFacts
<1>2. /\ a \in Seq(Bytes) /\ Len(a) = u
      /\ \A i \in 1..u : a[i] = pp.buf[(pp.tail + (i - 1)) % PIPE_BUF_SIZE]
  <2>1. Used(pp) \in Nat /\ Used(pp) <= Used(pp)
    BY <1>0
  <2> QED BY <2>1, QueueType DEF QueueOf
<1>3. /\ b \in Seq(Bytes) /\ Len(b) = u + n
      /\ \A i \in 1..(u + n) : b[i] = s.buf[(pp.tail + (i - 1)) % PIPE_BUF_SIZE]
  <2> DEFINE v == Used(s)
  <2>1. v = u + n /\ v \in Nat /\ v <= v
    BY <1>0, <1>1
  <2> HIDE DEF v
  <2>2. /\ Taken(s, v) \in Seq(Bytes) /\ Len(Taken(s, v)) = v
        /\ \A i \in 1..v : Taken(s, v)[i] = s.buf[(s.tail + (i - 1)) % PIPE_BUF_SIZE]
    BY <1>1, <2>1, QueueType DEF v
  <2>3. b = Taken(s, v)
    BY DEF QueueOf, v
  <2> HIDE DEF b
  <2> QED BY <1>1, <2>1, <2>2, <2>3
<1>4. /\ d \in Seq(Bytes) /\ Len(d) = n /\ \A i \in 1..n : d[i] = data[i]
  <2>1. \A i \in 1..n : data[i] \in Bytes
    OBVIOUS
  <2>2. /\ d \in Seq(Bytes) /\ Len(d) = (IF 1 <= n THEN n - 1 + 1 ELSE 0)
        /\ \A i \in 1..(n - 1 + 1) : d[i] = data[1 + i - 1]
    BY <2>1, SubSeqProperties
  <2> HIDE DEF d
  <2>3. Len(d) = n /\ n - 1 + 1 = n
    BY <2>2
  <2>4. \A i \in 1..n : 1 + i - 1 = i
    OBVIOUS
  <2> QED BY <2>2, <2>3, <2>4
<1> HIDE DEF u, d, a, b
<1>5. /\ a \o d \in Seq(Bytes) /\ Len(a \o d) = u + n
      /\ \A i \in 1..(u + n) : (a \o d)[i] = IF i <= u THEN a[i] ELSE d[i - u]
  <2>1. /\ a \o d \in Seq(Bytes) /\ Len(a \o d) = Len(a) + Len(d)
        /\ \A i \in 1..Len(a) + Len(d) : (a \o d)[i] = IF i <= Len(a) THEN a[i] ELSE d[i - Len(a)]
    BY <1>2, <1>4, ConcatProperties
  <2> QED BY <1>2, <1>4, <2>1
<1>6. ASSUME NEW i \in 1..(u + n)
      PROVE  b[i] = (a \o d)[i]
  <2>1. b[i] = s.buf[(pp.tail + (i - 1)) % PIPE_BUF_SIZE]
    BY <1>3
  <2>2. CASE i <= u
    <3>1. i \in 1..u /\ i - 1 \in 0..(u - 1)
      BY <1>0, <2>2
    <3> QED BY <1>1, <1>2, <1>5, <2>1, <2>2, <3>1
  <2>3. CASE i > u
    <3> DEFINE j == i - u - 1
    <3>1. j \in 0..(n - 1) /\ i - 1 = u + j /\ j + 1 = i - u /\ i - u \in 1..n /\ ~(i <= u)
      BY <1>0, <2>3
    <3> HIDE DEF j
    <3>2. s.buf[(pp.tail + (u + j)) % PIPE_BUF_SIZE] = data[j + 1]
      BY <1>1, <3>1
    <3>3. (a \o d)[i] = d[i - u] /\ d[i - u] = data[i - u]
      BY <1>4, <1>5, <3>1
    <3> QED BY <2>1, <3>1, <3>2, <3>3
  <2>4. i \in Int /\ u \in Int
    BY <1>0
  <2>5. i <= u \/ i > u
    BY <2>4
  <2> QED BY <2>2, <2>3, <2>5
<1>7. b = a \o d
  <2>1. Len(b) = Len(a \o d) /\ \A i \in 1..Len(b) : b[i] = (a \o d)[i]
    BY <1>3, <1>5, <1>6
  <2> QED BY <1>3, <1>5, <2>1, SeqEqual
<1>8. d \in [1..n -> Bytes]
  BY <1>4, LenProperties
<1> QED BY <1>0, <1>2, <1>7, <1>8 DEF a, b, d

\* What a read takes is the front of the queue; the rest stays.
LEMMA QueueRead ==
  ASSUME NEW pp \in Pipe, RingHolds(pp), NEW got \in Nat, got <= Used(pp), NEW qq \in Pipe,
         qq.head = pp.head, qq.buf = pp.buf, qq.tail = (pp.tail + got) % PIPE_BUF_SIZE, RingHolds(qq)
  PROVE  /\ Len(QueueOf(pp)) = Used(pp)
         /\ Taken(pp, got) = SubSeq(QueueOf(pp), 1, got)
         /\ QueueOf(qq) = SubSeq(QueueOf(pp), got + 1, Len(QueueOf(pp)))
<1> DEFINE u == Used(pp)
           a == QueueOf(pp)
           b == QueueOf(qq)
           c == Taken(pp, got)
<1>0. u \in Nat /\ got <= u
  BY UsedFacts DEF Pipe
<1>1. /\ Used(qq) = u - got
      /\ \A i \in 0..(u - got - 1) :
           (qq.tail + i) % PIPE_BUF_SIZE = (pp.tail + (got + i)) % PIPE_BUF_SIZE
  BY TakenFacts
<1>2. /\ a \in Seq(Bytes) /\ Len(a) = u
      /\ \A i \in 1..u : a[i] = pp.buf[(pp.tail + (i - 1)) % PIPE_BUF_SIZE]
  <2>1. Used(pp) \in Nat /\ Used(pp) <= Used(pp)
    BY <1>0
  <2> QED BY <2>1, QueueType DEF QueueOf
<1>3. /\ b \in Seq(Bytes) /\ Len(b) = u - got
      /\ \A i \in 1..(u - got) : b[i] = pp.buf[(qq.tail + (i - 1)) % PIPE_BUF_SIZE]
  <2> DEFINE v == Used(qq)
  <2>1. v = u - got /\ v \in Nat /\ v <= v
    <3>1. v = u - got
      BY <1>1
    <3> HIDE DEF u, v
    <3> QED BY <1>0, <3>1
  <2> HIDE DEF v
  <2>2. /\ Taken(qq, v) \in Seq(Bytes) /\ Len(Taken(qq, v)) = v
        /\ \A i \in 1..v : Taken(qq, v)[i] = qq.buf[(qq.tail + (i - 1)) % PIPE_BUF_SIZE]
    BY <2>1, QueueType DEF v
  <2>3. b = Taken(qq, v)
    BY DEF QueueOf, v
  <2> HIDE DEF b
  <2> QED BY <2>1, <2>2, <2>3
<1>4. /\ c \in Seq(Bytes) /\ Len(c) = got
      /\ \A i \in 1..got : c[i] = pp.buf[(pp.tail + (i - 1)) % PIPE_BUF_SIZE]
  BY <1>0, QueueType
<1> HIDE DEF u, a, b, c
<1>5. c = SubSeq(a, 1, got)
  <2> DEFINE d == SubSeq(a, 1, got)
  <2>1. \A i \in 1..got : i \in 1..u
    BY <1>0
  <2>2. \A i \in 1..got : a[i] \in Bytes
    BY <1>2, <2>1
  <2>3. /\ d \in Seq(Bytes) /\ Len(d) = (IF 1 <= got THEN got - 1 + 1 ELSE 0)
        /\ \A i \in 1..(got - 1 + 1) : d[i] = a[1 + i - 1]
    BY <2>2, SubSeqProperties
  <2> HIDE DEF d
  <2>4. Len(d) = got /\ got - 1 + 1 = got /\ \A i \in 1..got : 1 + i - 1 = i
    BY <2>3
  <2>5. Len(d) = Len(c) /\ \A i \in 1..Len(d) : d[i] = c[i]
    BY <1>2, <1>4, <2>1, <2>3, <2>4
  <2>6. d = c
    BY <1>4, <2>3, <2>5, SeqEqual
  <2> QED BY <2>6 DEF d
<1>6. b = SubSeq(a, got + 1, u)
  <2> DEFINE d == SubSeq(a, got + 1, u)
             m == u - got
  <2>0. m \in Nat /\ m = u - got
    BY <1>0
  <2>1. \A i \in (got + 1)..u : a[i] \in Bytes
    BY <1>0, <1>2
  <2>2. /\ d \in Seq(Bytes) /\ Len(d) = (IF got + 1 <= u THEN u - (got + 1) + 1 ELSE 0)
        /\ \A i \in 1..(u - (got + 1) + 1) : d[i] = a[got + 1 + i - 1]
    BY <1>0, <2>1, SubSeqProperties
  <2> HIDE DEF d, m
  <2>3. /\ Len(d) = m /\ u - (got + 1) + 1 = m
        /\ \A i \in 1..m : got + 1 + i - 1 = got + i /\ got + i \in 1..u
    BY <1>0, <2>0, <2>2
  <2>4. ASSUME NEW i \in 1..m
        PROVE  d[i] = b[i]
    <3>1. d[i] = a[got + i] /\ got + i \in 1..u
      BY <2>2, <2>3
    <3>2. a[got + i] = pp.buf[(pp.tail + (got + i - 1)) % PIPE_BUF_SIZE]
      BY <1>2, <3>1
    <3>3. i - 1 \in 0..(u - got - 1) /\ got + (i - 1) = got + i - 1
      BY <1>0, <2>0
    <3>4. b[i] = pp.buf[(qq.tail + (i - 1)) % PIPE_BUF_SIZE]
      BY <1>3, <2>0
    <3>5. (qq.tail + (i - 1)) % PIPE_BUF_SIZE = (pp.tail + (got + (i - 1))) % PIPE_BUF_SIZE
      BY <1>1, <3>3
    <3> QED BY <3>1, <3>2, <3>3, <3>4, <3>5
  <2>5. Len(d) = Len(b) /\ \A i \in 1..Len(d) : d[i] = b[i]
    BY <1>3, <2>0, <2>3, <2>4
  <2>6. d = b
    BY <1>3, <2>2, <2>5, SeqEqual
  <2> QED BY <2>6 DEF d
<1> QED BY <1>2, <1>5, <1>6 DEF u, a, b, c

\* Closing wakes nobody who is registered elsewhere.
LEMMA NotAPeer ==
  ASSUME TypeOK, Registrations, NEW t, NEW F, NEW P \in PipeIds
  PROVE  /\ pipe[P].blocked_reader # NULL /\ P \notin Holding(t, F, "PIPE_WRITE")
              => pipe[P].blocked_reader \in Procs /\ pipe[P].blocked_reader \notin Peers(t, F)
         /\ pipe[P].blocked_writer # NULL /\ P \notin Holding(t, F, "PIPE_READ")
              => pipe[P].blocked_writer \in Procs /\ pipe[P].blocked_writer \notin Peers(t, F)
<1>0. \A Q \in PipeIds : /\ pipe[Q].blocked_reader \in Procs \cup {NULL}
                         /\ pipe[Q].blocked_writer \in Procs \cup {NULL}
  BY DEF TypeOK, Pipe
<1>1. \A k : Holding(t, F, k) \subseteq PipeIds
  BY DEF Holding
<1>2. ASSUME pipe[P].blocked_reader # NULL, P \notin Holding(t, F, "PIPE_WRITE"),
             pipe[P].blocked_reader \in Peers(t, F)
      PROVE  FALSE
  <2> DEFINE r == pipe[P].blocked_reader
  <2>1. call[r].op = "read" /\ call[r].pipe = P
    BY <1>2 DEF Registrations
  <2>2. CASE \E Q \in Holding(t, F, "PIPE_READ") : r = pipe[Q].blocked_writer
    BY <1>1, <1>2, <2>1, <2>2 DEF Registrations
  <2>3. CASE \E Q \in Holding(t, F, "PIPE_WRITE") : r = pipe[Q].blocked_reader
    BY <1>1, <1>2, <2>1, <2>3 DEF Registrations
  <2> QED BY <1>2, <2>2, <2>3 DEF Peers
<1>3. ASSUME pipe[P].blocked_writer # NULL, P \notin Holding(t, F, "PIPE_READ"),
             pipe[P].blocked_writer \in Peers(t, F)
      PROVE  FALSE
  <2> DEFINE r == pipe[P].blocked_writer
  <2>1. call[r].op = "write" /\ call[r].pipe = P
    BY <1>3 DEF Registrations
  <2>2. CASE \E Q \in Holding(t, F, "PIPE_READ") : r = pipe[Q].blocked_writer
    BY <1>1, <1>3, <2>1, <2>2 DEF Registrations
  <2>3. CASE \E Q \in Holding(t, F, "PIPE_WRITE") : r = pipe[Q].blocked_reader
    BY <1>1, <1>3, <2>1, <2>3 DEF Registrations
  <2> QED BY <1>3, <2>2, <2>3 DEF Peers
<1> QED BY <1>0, <1>2, <1>3

\* Closing slots of a living process that is in no call: the references that
\* go, and what becomes of each pipe.
LEMMA CloseFacts ==
  ASSUME TypeOK, RefcountsExact, NEW p \in Procs, Living(p), NEW F \in SUBSET Fds, NEW P \in PipeIds
  PROVE  LET cr == EndCount(fds[p], "PIPE_READ", P, F)
             cw == EndCount(fds[p], "PIPE_WRITE", P, F)
             Rr == Refs("PIPE_READ", P)
             Rw == Refs("PIPE_WRITE", P)
             Rr2 == Rr \ ({p} \X (Ends(fds[p], "PIPE_READ", P) \cap F))
             Rw2 == Rw \ ({p} \X (Ends(fds[p], "PIPE_WRITE", P) \cap F))
         IN  /\ cr <= pipe[P].read_open /\ cw <= pipe[P].write_open
             /\ pipe[P].read_open - cr = Cardinality(Rr2)
             /\ pipe[P].write_open - cw = Cardinality(Rw2)
             /\ P \in Orphaned(pipe, fds[p], F) <=> Rr \cup Rw # {} /\ Rr2 \cup Rw2 = {}
<1> DEFINE cr == EndCount(fds[p], "PIPE_READ", P, F)
           cw == EndCount(fds[p], "PIPE_WRITE", P, F)
           Cr == {p} \X (Ends(fds[p], "PIPE_READ", P) \cap F)
           Cw == {p} \X (Ends(fds[p], "PIPE_WRITE", P) \cap F)
           Rr == Refs("PIPE_READ", P)
           Rw == Refs("PIPE_WRITE", P)
<1>1. Cr \subseteq Rr /\ Cw \subseteq Rw
  <2>1. \A k : \A f \in Fds : f \in Ends(fds[p], k, P) => <<p, f>> \in Refs(k, P)
    BY RefsMember
  <2> QED BY <2>1
<1>2. Rr \in SUBSET (Procs \X Fds) /\ Rw \in SUBSET (Procs \X Fds)
  BY RefsMember
<1>3. Ends(fds[p], "PIPE_READ", P) \cap F \in SUBSET Fds /\ Ends(fds[p], "PIPE_WRITE", P) \cap F \in SUBSET Fds
  OBVIOUS
<1>4. /\ cr <= Cardinality(Rr) /\ Cardinality(Rr \ Cr) = Cardinality(Rr) - cr
      /\ cr = Cardinality(Rr) <=> Rr \ Cr = {}
  BY <1>1, <1>2, <1>3, RefsRemoved DEF EndCount
<1>5. /\ cw <= Cardinality(Rw) /\ Cardinality(Rw \ Cw) = Cardinality(Rw) - cw
      /\ cw = Cardinality(Rw) <=> Rw \ Cw = {}
  BY <1>1, <1>2, <1>3, RefsRemoved DEF EndCount
<1>6. pipe[P].read_open = Cardinality(Rr) /\ pipe[P].write_open = Cardinality(Rw)
  BY DEF RefcountsExact
<1>7. pipe \in [PipeIds -> Pipe]
  BY DEF TypeOK
<1>8. P \in Orphaned(pipe, fds[p], F) <=>
        (cr > 0 \/ cw > 0) /\ cr = pipe[P].read_open /\ cw = pipe[P].write_open
  BY <1>4, <1>5, <1>6, <1>7, ClosedPipe
<1>9. cr \in Nat /\ (cr = 0 <=> Cr = {}) /\ cw \in Nat /\ (cw = 0 <=> Cw = {})
  <2>1. cr \in Nat /\ (cr = 0 <=> Ends(fds[p], "PIPE_READ", P) \cap F = {})
    BY EndCountFacts
  <2>2. cw \in Nat /\ (cw = 0 <=> Ends(fds[p], "PIPE_WRITE", P) \cap F = {})
    BY EndCountFacts
  <2> HIDE DEF cr, cw
  <2>3. \A E : {p} \X E = {} <=> E = {}
    <3> TAKE E
    <3>1. \A e \in E : <<p, e>> \in {p} \X E
      OBVIOUS
    <3> QED BY <3>1
  <2> QED BY <2>1, <2>2, <2>3
<1> HIDE DEF cr, cw, Cr, Cw, Rr, Rw
<1>10. P \in Orphaned(pipe, fds[p], F) <=> Rr \cup Rw # {} /\ (Rr \ Cr) \cup (Rw \ Cw) = {}
  <2>1. P \in Orphaned(pipe, fds[p], F) <=> (cr > 0 \/ cw > 0) /\ Rr \ Cr = {} /\ Rw \ Cw = {}
    BY <1>4, <1>5, <1>6, <1>8
  <2>2. (cr > 0 <=> Cr # {}) /\ (cw > 0 <=> Cw # {})
    BY <1>9
  <2> QED BY <1>1, <2>1, <2>2
<1> QED BY <1>4, <1>5, <1>6, <1>10 DEF cr, cw, Cr, Cw, Rr, Rw

\* The counts of write buffers go down by the slots that are closed.
LEMMA WbufCloseFacts ==
  ASSUME TypeOK, RefcountsExact, NEW p \in Procs, Living(p), NEW F \in SUBSET Fds, NEW w \in WbufIds
  PROVE  /\ WbufsClosed(refcount, fds[p], F)[w] \in Nat
         /\ WbufsClosed(refcount, fds[p], F)[w] =
              Cardinality(Refs("WFILE", w) \ ({p} \X (Ends(fds[p], "WFILE", w) \cap F)))
<1> DEFINE E == Ends(fds[p], "WFILE", w) \cap F
           R == Refs("WFILE", w)
<1>1. E \in SUBSET Fds
  OBVIOUS
<1>2. R \in SUBSET (Procs \X Fds)
  BY RefsMember
<1>3. {p} \X E \subseteq R
  <2>1. \A f \in Fds : f \in Ends(fds[p], "WFILE", w) => <<p, f>> \in R
    BY RefsMember
  <2> QED BY <2>1
<1>4. refcount[w] = Cardinality(R) /\ WbufsClosed(refcount, fds[p], F)[w] = refcount[w] - Cardinality(E)
  BY DEF RefcountsExact, WbufsClosed
<1> HIDE DEF E, R
<1>a. Cardinality(E) \in Nat /\ Cardinality(R) \in Nat
  BY <1>1, <1>2, RefsFinite, SlotsFinite
<1>5. /\ Cardinality(E) <= Cardinality(R) /\ Cardinality(E) \in Nat /\ Cardinality(R) \in Nat
      /\ Cardinality(R \ ({p} \X E)) = Cardinality(R) - Cardinality(E)
  BY <1>1, <1>2, <1>3, <1>a, RefsRemoved, SMTT(40)
<1>6. Cardinality(R) - Cardinality(E) \in Nat
  BY <1>5
<1> QED BY <1>4, <1>5, <1>6 DEF E, R

\* Waking only makes sleepers ready.
LEMMA WokenFacts ==
  ASSUME TypeOK, NEW W, NEW q \in Procs
  PROVE  /\ Woken(W) \in [Procs -> {"unborn", "ready", "asleep", "dead", "gone"}]
         /\ Woken(W)[q] = "asleep" <=> pstate[q] = "asleep" /\ q \notin W
         /\ Woken(W)[q] # pstate[q] => pstate[q] = "asleep" /\ Woken(W)[q] = "ready"
BY DEF TypeOK, Woken

\* What a step that closes the slots F of table t, and destroys the pipes O,
\* does to pipe P: no byte moves, and who is registered on an end whose other
\* end is closed is struck out.
QuietForPipe(P, t, F, O) ==
  IF P \in O THEN pipe'[P] = FreshPipe(0)
  ELSE LET cr == EndCount(t, "PIPE_READ", P, F)
           cw == EndCount(t, "PIPE_WRITE", P, F)
       IN  /\ pipe'[P].buf = pipe[P].buf /\ pipe'[P].head = pipe[P].head
           /\ pipe'[P].tail = pipe[P].tail
           /\ pipe'[P].blocked_reader = IF cw > 0 THEN NULL ELSE pipe[P].blocked_reader
           /\ pipe'[P].blocked_writer = IF cr > 0 THEN NULL ELSE pipe[P].blocked_writer
           /\ cw = 0 => pipe'[P].write_open >= pipe[P].write_open
           /\ cr = 0 => pipe'[P].read_open >= pipe[P].read_open
           /\ P \notin allocated' => pipe'[P] = pipe[P]

\* What such a step does to process q: it enters no call and does not go to
\* sleep, and if it sleeps it is woken only by the close.
QuietForProcess(q, t, F) ==
  /\ call'[q].op # "none" => /\ call'[q] = call[q] /\ fds'[q] = fds[q]
                             /\ pstate'[q] \in {"ready", "asleep"}
  /\ pstate'[q] = "asleep" => pstate[q] = "asleep"
  /\ pstate[q] = "asleep" => call'[q] = call[q]
  /\ pstate[q] = "asleep" /\ q \notin Peers(t, F) => pstate'[q] = "asleep"

\* Such a step leaves every sleeper that is still registered a reason to sleep.
LEMMA QuietStep ==
  ASSUME TypeOK, Registrations, CallsHold, FreshUnlessAllocated, BytesInFlight,
         TypeOK', NEW t, NEW F \in SUBSET Fds, NEW O, allocated \ O \subseteq allocated',
         \A q \in Procs : QuietForProcess(q, t, F),
         \A P \in PipeIds : QuietForPipe(P, t, F, O)
  PROVE  Registrations' /\ CallsHold' /\ FreshUnlessAllocated' /\ BytesInFlight'
<1>1. Registrations'
  <2> SUFFICES ASSUME NEW P \in PipeIds
               PROVE  /\ LET r == pipe'[P].blocked_reader
                         IN r # NULL => /\ pstate'[r] = "asleep" /\ call'[r].op = "read" /\ call'[r].pipe = P
                                        /\ Used(pipe'[P]) = 0 /\ pipe'[P].write_open > 0
                      /\ LET w == pipe'[P].blocked_writer
                         IN w # NULL => /\ pstate'[w] = "asleep" /\ call'[w].op = "write" /\ call'[w].pipe = P
                                        /\ Space(pipe'[P]) = 0 /\ pipe'[P].read_open > 0
    BY DEF Registrations, Used, Space
  <2>1. CASE P \in O
    BY <2>1, FreshFacts DEF QuietForPipe
  <2>2. CASE P \notin O
    <3> DEFINE cr == EndCount(t, "PIPE_READ", P, F)
               cw == EndCount(t, "PIPE_WRITE", P, F)
    <3>1. /\ cr \in Nat /\ (P \in Holding(t, F, "PIPE_READ") <=> cr > 0)
          /\ cw \in Nat /\ (P \in Holding(t, F, "PIPE_WRITE") <=> cw > 0)
      BY EndCountFacts
    <3>2. /\ pipe'[P].blocked_reader = IF cw > 0 THEN NULL ELSE pipe[P].blocked_reader
          /\ pipe'[P].blocked_writer = IF cr > 0 THEN NULL ELSE pipe[P].blocked_writer
          /\ cw = 0 => pipe'[P].write_open >= pipe[P].write_open
          /\ cr = 0 => pipe'[P].read_open >= pipe[P].read_open
      BY <2>2 DEF QuietForPipe
    <3>3. Used(pipe'[P]) = Used(pipe[P]) /\ Space(pipe'[P]) = Space(pipe[P])
      BY <2>2, RingKept DEF QuietForPipe
    <3>4. pipe[P].read_open \in Nat /\ pipe[P].write_open \in Nat
      BY DEF TypeOK, Pipe
    <3>t. pipe'[P].read_open \in Nat /\ pipe'[P].write_open \in Nat
      BY DEF TypeOK, Pipe
    <3> HIDE DEF cr, cw
    <3>5. ASSUME pipe'[P].blocked_reader # NULL
          PROVE  LET r == pipe'[P].blocked_reader
                 IN /\ pstate'[r] = "asleep" /\ call'[r].op = "read" /\ call'[r].pipe = P
                    /\ Used(pipe'[P]) = 0 /\ pipe'[P].write_open > 0
      <4> DEFINE r == pipe[P].blocked_reader
      <4>1. pipe'[P].blocked_reader = r /\ cw = 0 /\ r # NULL /\ P \notin Holding(t, F, "PIPE_WRITE")
        BY <3>1, <3>2, <3>5
      <4>2. r \in Procs /\ r \notin Peers(t, F)
        BY <4>1, NotAPeer
      <4>3. pstate[r] = "asleep" /\ call[r].op = "read" /\ call[r].pipe = P /\ Used(pipe[P]) = 0 /\ pipe[P].write_open > 0
        BY <4>1 DEF Registrations
      <4>4. pstate'[r] = "asleep" /\ call'[r] = call[r]
        BY <4>2, <4>3 DEF QuietForProcess
      <4>5. pipe'[P].write_open > 0
        BY <3>2, <3>4, <3>t, <4>1, <4>3
      <4> QED BY <3>3, <4>1, <4>3, <4>4, <4>5
    <3>6. ASSUME pipe'[P].blocked_writer # NULL
          PROVE  LET w == pipe'[P].blocked_writer
                 IN /\ pstate'[w] = "asleep" /\ call'[w].op = "write" /\ call'[w].pipe = P
                    /\ Space(pipe'[P]) = 0 /\ pipe'[P].read_open > 0
      <4> DEFINE w == pipe[P].blocked_writer
      <4>1. pipe'[P].blocked_writer = w /\ cr = 0 /\ w # NULL /\ P \notin Holding(t, F, "PIPE_READ")
        BY <3>1, <3>2, <3>6
      <4>2. w \in Procs /\ w \notin Peers(t, F)
        BY <4>1, NotAPeer
      <4>3. pstate[w] = "asleep" /\ call[w].op = "write" /\ call[w].pipe = P /\ Space(pipe[P]) = 0 /\ pipe[P].read_open > 0
        BY <4>1 DEF Registrations
      <4>4. pstate'[w] = "asleep" /\ call'[w] = call[w]
        BY <4>2, <4>3 DEF QuietForProcess
      <4>5. pipe'[P].read_open > 0
        BY <3>2, <3>4, <3>t, <4>1, <4>3
      <4> QED BY <3>3, <4>1, <4>3, <4>4, <4>5
    <3> QED BY <3>5, <3>6
  <2> QED BY <2>1, <2>2
<1>2. CallsHold'
  <2> SUFFICES ASSUME NEW q \in Procs
               PROVE  /\ pstate'[q] = "asleep" => call'[q].op # "none"
                      /\ call'[q].op # "none" => pstate'[q] \in {"ready", "asleep"}
                      /\ call'[q].op = "read" => Ends(fds'[q], "PIPE_READ", call'[q].pipe) # {}
                      /\ call'[q].op = "write" => Ends(fds'[q], "PIPE_WRITE", call'[q].pipe) # {}
    BY DEF CallsHold, Ends
  <2> QED BY DEF CallsHold, QuietForProcess
<1>3. FreshUnlessAllocated'
  <2> SUFFICES ASSUME NEW P \in PipeIds, P \notin allocated'
               PROVE  pipe'[P] = FreshPipe(0)
    BY DEF FreshUnlessAllocated, FreshPipe, Ring
  <2> QED BY DEF QuietForPipe, FreshUnlessAllocated
<1>4. BytesInFlight'
  <2> SUFFICES ASSUME NEW P \in PipeIds
               PROVE  RingHolds(pipe'[P])
    BY DEF BytesInFlight, RingHolds, Used
  <2>1. CASE P \in O
    BY <2>1, FreshFacts DEF QuietForPipe
  <2>2. CASE P \notin O
    BY <2>2, RingKept DEF BytesInFlight, QuietForPipe
  <2> QED BY <2>1, <2>2
<1> QED BY <1>1, <1>2, <1>3, <1>4

\* Closing descriptors, by sys_close, process_exit or the reaper.
LEMMA CloseInv ==
  ASSUME IInv, NEW p \in Procs, NEW F \in SUBSET Fds,
         pstate[p] \in {"ready", "dead"}, call[p].op = "none", CloseSlots(p, F),
         \/ pstate' = Woken(Peers(fds[p], F))
         \/ F = Fds /\ pstate' = [Woken(Peers(fds[p], F)) EXCEPT ![p] = "gone"]
  PROVE  IInv'
<1> DEFINE t == fds[p]
           K == Peers(t, F)
<1>0. /\ TypeOK /\ RefcountsExact /\ AllocatedIffUsed /\ Registrations /\ CallsHold
      /\ FreshUnlessAllocated /\ BytesInFlight /\ Living(p)
  BY DEF IInv, PipesAllocatedWhileUsed, AllocatedIffUsed, Living
<1>1. /\ pipe' = PipesClosed(pipe, t, F) /\ allocated' = allocated \ Orphaned(pipe, t, F)
      /\ refcount' = WbufsClosed(refcount, t, F)
      /\ len' = [w \in WbufIds |-> IF refcount'[w] = 0 THEN 0 ELSE len[w]]
      /\ fds' = [fds EXCEPT ![p] = [f \in Fds |-> IF f \in F THEN Closed ELSE @[f]]]
      /\ delivered' = <<>> /\ call' = call
  BY DEF CloseSlots, NothingRead
<1> HIDE DEF K
<1>2. /\ pstate' \in [Procs -> {"unborn", "ready", "asleep", "dead", "gone"}]
      /\ \A q \in Procs : q # p => /\ pstate'[q] = "asleep" <=> pstate[q] = "asleep" /\ q \notin K
                                   /\ pstate'[q] # pstate[q] => pstate[q] = "asleep" /\ pstate'[q] = "ready"
      /\ pstate'[p] = pstate[p] \/ (F = Fds /\ pstate'[p] = "gone")
  <2>1. /\ Woken(K) \in [Procs -> {"unborn", "ready", "asleep", "dead", "gone"}]
        /\ \A q \in Procs : /\ Woken(K)[q] = "asleep" <=> pstate[q] = "asleep" /\ q \notin K
                            /\ Woken(K)[q] # pstate[q] => pstate[q] = "asleep" /\ Woken(K)[q] = "ready"
    BY <1>0, WokenFacts
  <2> QED BY <2>1 DEF K
<1>3. /\ \A q \in Procs : q # p => (Living(q)' <=> Living(q))
      /\ Living(p)' \/ F = Fds
  BY <1>0, <1>2 DEF Living
<1>4. ASSUME NEW k \in Shared, NEW o
      PROVE  Refs(k, o)' = Refs(k, o) \ ({p} \X (Ends(t, k, o) \cap F))
  <2>1. /\ \A q \in Procs : q # p => fds'[q] = fds[q]
        /\ \A f \in Fds : fds'[p][f] = IF f \in F THEN Closed ELSE fds[p][f]
    BY <1>0, <1>1 DEF TypeOK
  <2> QED BY <1>0, <1>3, <2>1, RefsClose
<1>5. ASSUME NEW P \in PipeIds
      PROVE  LET cr == EndCount(t, "PIPE_READ", P, F)
                 cw == EndCount(t, "PIPE_WRITE", P, F)
             IN  /\ pipe'[P] \in Pipe
                 /\ pipe'[P].read_open = Cardinality(Refs("PIPE_READ", P)')
                 /\ pipe'[P].write_open = Cardinality(Refs("PIPE_WRITE", P)')
                 /\ pipe'[P].read_open = pipe[P].read_open - cr
                 /\ pipe'[P].write_open = pipe[P].write_open - cw
                 /\ P \in Orphaned(pipe, t, F) <=>
                      /\ Refs("PIPE_READ", P) \cup Refs("PIPE_WRITE", P) # {}
                      /\ Refs("PIPE_READ", P)' \cup Refs("PIPE_WRITE", P)' = {}
                 /\ P \in Orphaned(pipe, t, F) => pipe'[P] = FreshPipe(0)
                 /\ P \notin Orphaned(pipe, t, F) =>
                      /\ pipe'[P].buf = pipe[P].buf /\ pipe'[P].head = pipe[P].head
                      /\ pipe'[P].tail = pipe[P].tail
                      /\ pipe'[P].blocked_reader = IF cw > 0 THEN NULL ELSE pipe[P].blocked_reader
                      /\ pipe'[P].blocked_writer = IF cr > 0 THEN NULL ELSE pipe[P].blocked_writer
  <2> DEFINE cr == EndCount(t, "PIPE_READ", P, F)
             cw == EndCount(t, "PIPE_WRITE", P, F)
  <2>1. "PIPE_READ" \in Shared /\ "PIPE_WRITE" \in Shared
    BY DEF Shared
  <2>a. /\ Refs("PIPE_READ", P)' = Refs("PIPE_READ", P) \ ({p} \X (Ends(t, "PIPE_READ", P) \cap F))
        /\ Refs("PIPE_WRITE", P)' = Refs("PIPE_WRITE", P) \ ({p} \X (Ends(t, "PIPE_WRITE", P) \cap F))
    BY <1>4, <2>1
  <2>2. /\ cr <= pipe[P].read_open /\ cw <= pipe[P].write_open
        /\ pipe[P].read_open - cr = Cardinality(Refs("PIPE_READ", P)')
        /\ pipe[P].write_open - cw = Cardinality(Refs("PIPE_WRITE", P)')
        /\ P \in Orphaned(pipe, t, F) <=>
             /\ Refs("PIPE_READ", P) \cup Refs("PIPE_WRITE", P) # {}
             /\ Refs("PIPE_READ", P)' \cup Refs("PIPE_WRITE", P)' = {}
    BY <1>0, <2>a, CloseFacts
  <2>3. pipe \in [PipeIds -> Pipe]
    BY <1>0 DEF TypeOK
  <2> HIDE DEF cr, cw
  <2>4. /\ pipe'[P] \in Pipe
        /\ pipe'[P].read_open = pipe[P].read_open - cr
        /\ pipe'[P].write_open = pipe[P].write_open - cw
        /\ P \in Orphaned(pipe, t, F) => pipe'[P] = FreshPipe(0)
        /\ P \notin Orphaned(pipe, t, F) =>
             /\ pipe'[P].buf = pipe[P].buf /\ pipe'[P].head = pipe[P].head
             /\ pipe'[P].tail = pipe[P].tail
             /\ pipe'[P].blocked_reader = IF cw > 0 THEN NULL ELSE pipe[P].blocked_reader
             /\ pipe'[P].blocked_writer = IF cr > 0 THEN NULL ELSE pipe[P].blocked_writer
    BY <1>1, <2>2, <2>3, ClosedPipe DEF cr, cw
  <2> QED BY <2>2, <2>4 DEF cr, cw
<1>6. \A w \in WbufIds : refcount'[w] \in Nat /\ refcount'[w] = Cardinality(Refs("WFILE", w)')
  <2>1. "WFILE" \in Shared
    BY DEF Shared
  <2> TAKE w \in WbufIds
  <2>2. Refs("WFILE", w)' = Refs("WFILE", w) \ ({p} \X (Ends(t, "WFILE", w) \cap F))
    BY <1>4, <2>1
  <2>3. /\ WbufsClosed(refcount, t, F)[w] \in Nat
        /\ WbufsClosed(refcount, t, F)[w] =
             Cardinality(Refs("WFILE", w) \ ({p} \X (Ends(t, "WFILE", w) \cap F)))
    BY <1>0, WbufCloseFacts
  <2> QED BY <1>1, <2>2, <2>3
<1>7. fds' \in [Procs -> [Fds -> Desc]]
  <2>1. Closed \in Desc
    BY DEF Closed, Desc
  <2>2. [f \in Fds |-> IF f \in F THEN Closed ELSE fds[p][f]] \in [Fds -> Desc]
    BY <1>0, <2>1 DEF TypeOK
  <2> QED BY <1>0, <1>1, <2>2 DEF TypeOK
<1>8. TypeOK'
  <2>1. pipe' \in [PipeIds -> Pipe]
    BY <1>1, <1>5 DEF PipesClosed
  <2>2. refcount' \in [WbufIds -> Nat]
    BY <1>1, <1>6 DEF WbufsClosed
  <2>3. len' \in [WbufIds -> 0..WBUF_CAP]
    BY <1>0, <1>1, PipesAssumption DEF TypeOK
  <2>4. allocated' \subseteq PipeIds /\ call' \in [Procs -> Call] /\ delivered' \in Seq(Bytes)
    BY <1>0, <1>1 DEF TypeOK
  <2> QED BY <1>2, <1>7, <2>1, <2>2, <2>3, <2>4 DEF TypeOK
<1>9. RefcountsExact'
  BY <1>5, <1>6 DEF RefcountsExact
<1>10. AllocatedIffUsed'
  <2> SUFFICES ASSUME NEW P \in PipeIds
               PROVE  P \in allocated' <=> Refs("PIPE_READ", P)' \cup Refs("PIPE_WRITE", P)' # {}
    BY DEF AllocatedIffUsed
  <2>1. P \in allocated <=> Refs("PIPE_READ", P) \cup Refs("PIPE_WRITE", P) # {}
    BY <1>0 DEF AllocatedIffUsed
  <2>2. Refs("PIPE_READ", P)' \cup Refs("PIPE_WRITE", P)' \subseteq Refs("PIPE_READ", P) \cup Refs("PIPE_WRITE", P)
    BY <1>4 DEF Shared
  <2> QED BY <1>1, <1>5, <2>1, <2>2
<1>11. ASSUME NEW P \in PipeIds
       PROVE  QuietForPipe(P, t, F, Orphaned(pipe, t, F))
  <2> DEFINE cr == EndCount(t, "PIPE_READ", P, F)
             cw == EndCount(t, "PIPE_WRITE", P, F)
  <2>1. CASE P \in Orphaned(pipe, t, F)
    BY <1>5, <2>1 DEF QuietForPipe
  <2>2. CASE P \notin Orphaned(pipe, t, F)
    <3>1. pipe[P].read_open \in Nat /\ pipe[P].write_open \in Nat /\ cr \in Nat /\ cw \in Nat
      BY <1>0, EndCountFacts DEF TypeOK, Pipe
    <3>2. /\ pipe'[P].read_open = pipe[P].read_open - cr
          /\ pipe'[P].write_open = pipe[P].write_open - cw
      BY <1>5
    <3>3. /\ cw = 0 => pipe'[P].write_open >= pipe[P].write_open
          /\ cr = 0 => pipe'[P].read_open >= pipe[P].read_open
      BY <3>1, <3>2
    <3>4. P \notin allocated' => pipe'[P] = pipe[P]
      <4> SUFFICES ASSUME P \notin allocated' PROVE pipe'[P] = pipe[P]
        OBVIOUS
      <4>1. pipe[P].read_open = 0 /\ pipe[P].write_open = 0
        BY <1>0, <1>1, <2>2, FreshFacts DEF FreshUnlessAllocated
      <4>2. cr <= pipe[P].read_open /\ cw <= pipe[P].write_open
        BY <1>0, CloseFacts
      <4>3. cr = 0 /\ cw = 0
        BY <3>1, <4>1, <4>2
      <4>4. /\ pipe'[P] \in Pipe /\ pipe[P] \in Pipe
            /\ pipe'[P].buf = pipe[P].buf /\ pipe'[P].head = pipe[P].head /\ pipe'[P].tail = pipe[P].tail
            /\ pipe'[P].blocked_reader = pipe[P].blocked_reader
            /\ pipe'[P].blocked_writer = pipe[P].blocked_writer
            /\ pipe'[P].read_open = pipe[P].read_open - 0 /\ pipe'[P].write_open = pipe[P].write_open - 0
        BY <1>0, <1>5, <2>2, <4>3 DEF TypeOK
      <4> QED BY <4>4 DEF Pipe
    <3> QED BY <1>5, <2>2, <3>3, <3>4 DEF QuietForPipe
  <2> QED BY <2>1, <2>2
<1>12. Registrations' /\ CallsHold' /\ FreshUnlessAllocated' /\ BytesInFlight'
  <2>1. ASSUME NEW q \in Procs
        PROVE  QuietForProcess(q, t, F)
    <3>1. q # p => fds'[q] = fds[q]
      BY <1>0, <1>1 DEF TypeOK
    <3> QED BY <1>0, <1>1, <1>2, <3>1 DEF QuietForProcess, CallsHold, K
  <2> QED BY <1>0, <1>1, <1>8, <1>11, <2>1, QuietStep
<1>15. PipesAllocatedWhileUsed'
  BY <1>8, <1>10, <1>12, CallsAllocated
<1> QED BY <1>8, <1>9, <1>12, <1>15 DEF IInv

\* sys_dup2 turns the slot newfd into a second reference to what oldfd holds;
\* what it refers to is therefore not what closing newfd destroys.
LEMMA RefsDup ==
  ASSUME NEW p \in Procs, Living(p), \A q \in Procs : Living(q)' <=> Living(q),
         NEW oldfd \in Fds, NEW newfd \in Fds, oldfd # newfd,
         fds'[p][newfd] = fds[p][oldfd],
         \A f \in Fds \ {newfd} : fds'[p][f] = fds[p][f],
         \A q \in Procs : q # p => fds'[q] = fds[q],
         NEW k, NEW o
  PROVE  LET M == Refs(k, o) \ ({p} \X (Ends(fds[p], k, o) \cap {newfd}))
         IN  /\ M \in SUBSET (Procs \X Fds)
             /\ Cardinality(Refs(k, o)') = Cardinality(M) + EndCount(fds'[p], k, o, {newfd})
             /\ EndCount(fds'[p], k, o, {newfd}) # 0 => M # {}
             /\ Refs(k, o)' # {} <=> M # {}
<1> DEFINE B == {p} \X (Ends(fds[p], k, o) \cap {newfd})
           E == Ends(fds'[p], k, o) \cap {newfd}
           C == {p} \X E
           M == Refs(k, o) \ B
<1>0. B \in SUBSET (Procs \X Fds) /\ C \in SUBSET (Procs \X Fds) /\ E \in SUBSET Fds
  BY DEF Ends
<1>1. \A q \in Procs, f \in Fds :
        /\ <<q, f>> \in B <=> q = p /\ f \in Ends(fds[p], k, o) /\ f = newfd
        /\ <<q, f>> \in C <=> q = p /\ f \in Ends(fds'[p], k, o) /\ f = newfd
  OBVIOUS
<1>2. /\ \A f \in Fds \ {newfd} : f \in Ends(fds'[p], k, o) <=> f \in Ends(fds[p], k, o)
      /\ newfd \in Ends(fds'[p], k, o) <=> oldfd \in Ends(fds[p], k, o)
  BY DEF Ends
<1> HIDE DEF B, C, E
<1>3. \A q \in Procs, f \in Fds : <<q, f>> \in M <=> <<q, f>> \in Refs(k, o) /\ ~(q = p /\ f = newfd)
  BY <1>1, RefsMember
<1>4. M \in SUBSET (Procs \X Fds)
  BY RefsMember
<1> HIDE DEF M
<1>5. \A q \in Procs, f \in Fds : <<q, f>> \in Refs(k, o)' <=> <<q, f>> \in M \cup C
  <2> TAKE q \in Procs, f \in Fds
  <2>1. CASE q = p
    BY <1>1, <1>2, <1>3, <2>1, RefsMember
  <2>2. CASE q # p
    BY <1>1, <1>3, <2>2, RefsMember
  <2> QED BY <2>1, <2>2
<1>6. Refs(k, o)' = M \cup C
  BY <1>0, <1>4, <1>5, RefsMember, SameRefs
<1>7. C \cap M = {}
  <2>1. \A q \in Procs, f \in Fds : ~(<<q, f>> \in C /\ <<q, f>> \in M)
    BY <1>1, <1>3
  <2> QED BY <1>0, <2>1
<1>8. Cardinality(M \cup C) = Cardinality(M) + Cardinality(E)
  BY <1>0, <1>4, <1>7, RefsAdded DEF C
<1>9. Cardinality(E) # 0 => M # {}
  <2>1. Cardinality(E) # 0 => newfd \in Ends(fds'[p], k, o)
    BY <1>0, SlotsFinite DEF E
  <2>2. newfd \in Ends(fds'[p], k, o) => <<p, oldfd>> \in M
    BY <1>2, <1>3, RefsMember
  <2> QED BY <2>1, <2>2
<1>10. C # {} => M # {}
  <2>1. C # {} => E # {}
    BY DEF C
  <2> QED BY <1>0, <1>9, <2>1, SlotsFinite
<1> QED BY <1>4, <1>6, <1>8, <1>9, <1>10 DEF EndCount, B, C, E, M

LEMMA Dup2Inv ==
  ASSUME IInv, NEW p \in Procs, NEW oldfd \in Fds, NEW newfd \in Fds, sys_dup2(p, oldfd, newfd)
  PROVE  /\ IInv'
         /\ \A P \in PipeIds :
              IF P \in Orphaned(pipe, fds[p], {newfd}) THEN SameRing(FreshPipe(0), pipe'[P])
                                                     ELSE SameRing(pipe[P], pipe'[P])
<1> DEFINE s == fds[p]
           F == {newfd}
           t == [fds[p] EXCEPT ![newfd] = fds[p][oldfd]]
           O == Orphaned(pipe, s, F)
           Q == PipesClosed(pipe, s, F)
           rc == WbufsClosed(refcount, s, F)
           M(k, o) == Refs(k, o) \ ({p} \X (Ends(s, k, o) \cap F))
<1>0. /\ TypeOK /\ RefcountsExact /\ AllocatedIffUsed /\ Registrations /\ CallsHold
      /\ FreshUnlessAllocated /\ BytesInFlight /\ Living(p)
  BY DEF IInv, PipesAllocatedWhileUsed, AllocatedIffUsed, Living, sys_dup2, InUserMode
<1>1. /\ oldfd # newfd /\ pstate[p] = "ready" /\ call[p] = NoCall
      /\ pipe' = PipesShared(Q, t, F) /\ allocated' = allocated \ O
      /\ refcount' = WbufsShared(rc, t, F)
      /\ len' = [w \in WbufIds |-> IF rc[w] = 0 THEN 0 ELSE len[w]]
      /\ fds' = [fds EXCEPT ![p] = t]
      /\ delivered' = <<>> /\ call' = call /\ pstate' = Woken(Peers(s, F))
  BY DEF sys_dup2, NothingRead, InUserMode
<1>2. F \in SUBSET Fds
  OBVIOUS
<1>3. /\ t \in [Fds -> Desc] /\ t[newfd] = fds[p][oldfd] /\ \A f \in Fds \ {newfd} : t[f] = fds[p][f]
      /\ fds'[p] = t /\ fds' \in [Procs -> [Fds -> Desc]]
      /\ \A q \in Procs : q # p => fds'[q] = fds[q]
  BY <1>0, <1>1 DEF TypeOK
<1> HIDE DEF t, Q, rc, M
<1>4. /\ pstate' \in [Procs -> {"unborn", "ready", "asleep", "dead", "gone"}]
      /\ \A q \in Procs : /\ pstate'[q] = "asleep" <=> pstate[q] = "asleep" /\ q \notin Peers(s, F)
                          /\ pstate'[q] # pstate[q] => pstate[q] = "asleep" /\ pstate'[q] = "ready"
  <2> DEFINE K == Peers(s, F)
  <2>1. pstate' = Woken(K)
    BY <1>1
  <2> HIDE DEF K
  <2>2. /\ Woken(K) \in [Procs -> {"unborn", "ready", "asleep", "dead", "gone"}]
        /\ \A q \in Procs : /\ Woken(K)[q] = "asleep" <=> pstate[q] = "asleep" /\ q \notin K
                            /\ Woken(K)[q] # pstate[q] => pstate[q] = "asleep" /\ Woken(K)[q] = "ready"
    BY <1>0, WokenFacts
  <2> QED BY <2>1, <2>2 DEF K
<1>5. \A q \in Procs : Living(q)' <=> Living(q)
  BY <1>4 DEF Living
<1>6. ASSUME NEW k, NEW o
      PROVE  /\ Cardinality(Refs(k, o)') = Cardinality(M(k, o)) + EndCount(t, k, o, F)
             /\ EndCount(t, k, o, F) # 0 => M(k, o) # {}
             /\ Refs(k, o)' # {} <=> M(k, o) # {}
             /\ M(k, o) \in SUBSET (Procs \X Fds)
  <2> DEFINE N == Refs(k, o) \ ({p} \X (Ends(fds[p], k, o) \cap {newfd}))
  <2>1. /\ Cardinality(Refs(k, o)') = Cardinality(N) + EndCount(t, k, o, {newfd})
        /\ EndCount(t, k, o, {newfd}) # 0 => N # {}
        /\ Refs(k, o)' # {} <=> N # {}
        /\ N \in SUBSET (Procs \X Fds)
    <3>1. /\ Living(p) /\ oldfd # newfd /\ fds'[p][newfd] = fds[p][oldfd] /\ fds'[p] = t
          /\ \A q \in Procs : Living(q)' <=> Living(q)
          /\ \A f \in Fds \ {newfd} : fds'[p][f] = fds[p][f]
          /\ \A q \in Procs : q # p => fds'[q] = fds[q]
      BY <1>0, <1>1, <1>3, <1>5
    <3>2. /\ N \in SUBSET (Procs \X Fds)
          /\ Cardinality(Refs(k, o)') = Cardinality(N) + EndCount(fds'[p], k, o, {newfd})
          /\ EndCount(fds'[p], k, o, {newfd}) # 0 => N # {}
          /\ Refs(k, o)' # {} <=> N # {}
      BY <3>1, RefsDup
    <3> QED BY <3>1, <3>2
  <2> QED BY <2>1 DEF M
<1>7. pipe \in [PipeIds -> Pipe]
  BY <1>0 DEF TypeOK
<1>8. ASSUME NEW P \in PipeIds
      PROVE  LET cr == EndCount(s, "PIPE_READ", P, F)
                 cw == EndCount(s, "PIPE_WRITE", P, F)
             IN  /\ cr <= pipe[P].read_open /\ cw <= pipe[P].write_open
                 /\ Q[P] \in Pipe
                 /\ Q[P].read_open = Cardinality(M("PIPE_READ", P))
                 /\ Q[P].write_open = Cardinality(M("PIPE_WRITE", P))
                 /\ Q[P].read_open = pipe[P].read_open - cr
                 /\ Q[P].write_open = pipe[P].write_open - cw
                 /\ P \in O <=>
                      /\ Refs("PIPE_READ", P) \cup Refs("PIPE_WRITE", P) # {}
                      /\ M("PIPE_READ", P) \cup M("PIPE_WRITE", P) = {}
                 /\ P \in O => Q[P] = FreshPipe(0)
                 /\ P \notin O =>
                      /\ Q[P].buf = pipe[P].buf /\ Q[P].head = pipe[P].head
                      /\ Q[P].tail = pipe[P].tail
                      /\ Q[P].blocked_reader = IF cw > 0 THEN NULL ELSE pipe[P].blocked_reader
                      /\ Q[P].blocked_writer = IF cr > 0 THEN NULL ELSE pipe[P].blocked_writer
  <2> DEFINE cr == EndCount(s, "PIPE_READ", P, F)
             cw == EndCount(s, "PIPE_WRITE", P, F)
  <2>1. /\ cr <= pipe[P].read_open /\ cw <= pipe[P].write_open
        /\ pipe[P].read_open - cr = Cardinality(M("PIPE_READ", P))
        /\ pipe[P].write_open - cw = Cardinality(M("PIPE_WRITE", P))
        /\ P \in O <=>
             /\ Refs("PIPE_READ", P) \cup Refs("PIPE_WRITE", P) # {}
             /\ M("PIPE_READ", P) \cup M("PIPE_WRITE", P) = {}
    BY <1>0, <1>2, CloseFacts DEF M
  <2> HIDE DEF cr, cw
  <2>2. /\ Q[P] \in Pipe
        /\ Q[P].read_open = pipe[P].read_open - cr
        /\ Q[P].write_open = pipe[P].write_open - cw
        /\ P \in O => Q[P] = FreshPipe(0)
        /\ P \notin O =>
             /\ Q[P].buf = pipe[P].buf /\ Q[P].head = pipe[P].head
             /\ Q[P].tail = pipe[P].tail
             /\ Q[P].blocked_reader = IF cw > 0 THEN NULL ELSE pipe[P].blocked_reader
             /\ Q[P].blocked_writer = IF cr > 0 THEN NULL ELSE pipe[P].blocked_writer
    BY <1>2, <1>7, <2>1, ClosedPipe DEF cr, cw, Q
  <2> QED BY <2>1, <2>2 DEF cr, cw
<1>9. Q \in [PipeIds -> Pipe]
  BY <1>8 DEF Q, PipesClosed
<1>10. ASSUME NEW P \in PipeIds
       PROVE  /\ pipe'[P] \in Pipe
              /\ pipe'[P].read_open = Q[P].read_open + EndCount(t, "PIPE_READ", P, F)
              /\ pipe'[P].write_open = Q[P].write_open + EndCount(t, "PIPE_WRITE", P, F)
              /\ pipe'[P].buf = Q[P].buf /\ pipe'[P].head = Q[P].head /\ pipe'[P].tail = Q[P].tail
              /\ pipe'[P].blocked_reader = Q[P].blocked_reader
              /\ pipe'[P].blocked_writer = Q[P].blocked_writer
              /\ EndCount(t, "PIPE_READ", P, F) \in Nat /\ EndCount(t, "PIPE_WRITE", P, F) \in Nat
  BY <1>1, <1>2, <1>9, SharedPipe, EndCountFacts
<1>11. ASSUME NEW P \in PipeIds,
              EndCount(t, "PIPE_READ", P, F) = 0, EndCount(t, "PIPE_WRITE", P, F) = 0
       PROVE  pipe'[P] = Q[P]
  <2>1. Q[P].read_open \in Nat /\ Q[P].write_open \in Nat /\ Q[P] \in Pipe
    BY <1>8 DEF Pipe
  <2>2. pipe'[P].read_open = Q[P].read_open /\ pipe'[P].write_open = Q[P].write_open
    BY <1>10, <1>11, <2>1
  <2> QED BY <1>10, <2>1, <2>2 DEF Pipe
<1>12. ASSUME NEW w \in WbufIds
       PROVE  refcount'[w] \in Nat /\ refcount'[w] = Cardinality(Refs("WFILE", w)')
  <2>1. rc[w] \in Nat /\ rc[w] = Cardinality(M("WFILE", w))
    BY <1>0, <1>2, WbufCloseFacts DEF M, rc
  <2>2. refcount'[w] = rc[w] + EndCount(t, "WFILE", w, F)
    BY <1>1 DEF WbufsShared, EndCount
  <2>3. EndCount(t, "WFILE", w, F) \in Nat
    BY <1>2, EndCountFacts
  <2>4. Cardinality(Refs("WFILE", w)') = Cardinality(M("WFILE", w)) + EndCount(t, "WFILE", w, F)
    BY <1>6
  <2> HIDE DEF F
  <2> QED BY <2>1, <2>2, <2>3, <2>4
<1>13. TypeOK'
  <2>1. pipe' \in [PipeIds -> Pipe]
    BY <1>1, <1>10 DEF PipesShared
  <2>2. refcount' \in [WbufIds -> Nat]
    BY <1>1, <1>12 DEF WbufsShared
  <2>3. len' \in [WbufIds -> 0..WBUF_CAP]
    BY <1>0, <1>1, PipesAssumption DEF TypeOK
  <2>4. allocated' \subseteq PipeIds /\ call' \in [Procs -> Call] /\ delivered' \in Seq(Bytes)
    BY <1>0, <1>1 DEF TypeOK
  <2> QED BY <1>3, <1>4, <2>1, <2>2, <2>3, <2>4 DEF TypeOK
<1>14. RefcountsExact'
  <2>1. ASSUME NEW P \in PipeIds
        PROVE  /\ pipe'[P].read_open = Cardinality(Refs("PIPE_READ", P)')
               /\ pipe'[P].write_open = Cardinality(Refs("PIPE_WRITE", P)')
    <3>1. /\ Q[P].read_open = Cardinality(M("PIPE_READ", P))
          /\ Q[P].write_open = Cardinality(M("PIPE_WRITE", P))
      BY <1>8
    <3>2. /\ pipe'[P].read_open = Q[P].read_open + EndCount(t, "PIPE_READ", P, F)
          /\ pipe'[P].write_open = Q[P].write_open + EndCount(t, "PIPE_WRITE", P, F)
      BY <1>10
    <3>3. \A k : Cardinality(Refs(k, P)') = Cardinality(M(k, P)) + EndCount(t, k, P, F)
      BY <1>6
    <3> QED BY <3>1, <3>2, <3>3
  <2> QED BY <1>12, <2>1 DEF RefcountsExact
<1>15. AllocatedIffUsed'
  <2> SUFFICES ASSUME NEW P \in PipeIds
               PROVE  P \in allocated' <=> Refs("PIPE_READ", P)' \cup Refs("PIPE_WRITE", P)' # {}
    BY DEF AllocatedIffUsed
  <2>1. P \in allocated <=> Refs("PIPE_READ", P) \cup Refs("PIPE_WRITE", P) # {}
    BY <1>0 DEF AllocatedIffUsed
  <2>2. M("PIPE_READ", P) \cup M("PIPE_WRITE", P) \subseteq Refs("PIPE_READ", P) \cup Refs("PIPE_WRITE", P)
    BY DEF M
  <2>3. P \in allocated' <=> M("PIPE_READ", P) \cup M("PIPE_WRITE", P) # {}
    BY <1>1, <1>8, <2>1, <2>2
  <2> QED BY <1>6, <2>3
<1>16. ASSUME NEW P \in PipeIds
       PROVE  QuietForPipe(P, s, F, O)
  <2> DEFINE cr == EndCount(s, "PIPE_READ", P, F)
             cw == EndCount(s, "PIPE_WRITE", P, F)
             dr == EndCount(t, "PIPE_READ", P, F)
             dw == EndCount(t, "PIPE_WRITE", P, F)
  <2>1. CASE P \in O
    <3>0. M("PIPE_READ", P) \cup M("PIPE_WRITE", P) = {}
      BY <1>8, <2>1
    <3>1. dr = 0 /\ dw = 0
      BY <1>6, <3>0
    <3> QED BY <1>8, <1>11, <2>1, <3>1 DEF QuietForPipe
  <2>2. CASE P \notin O
    <3>1. /\ pipe[P].read_open \in Nat /\ pipe[P].write_open \in Nat
          /\ cr \in Nat /\ cw \in Nat /\ dr \in Nat /\ dw \in Nat
      BY <1>2, <1>7, EndCountFacts DEF Pipe
    <3>2. /\ pipe'[P].read_open = pipe[P].read_open - cr + dr
          /\ pipe'[P].write_open = pipe[P].write_open - cw + dw
      BY <1>8, <1>10
    <3>3. /\ cw = 0 => pipe'[P].write_open >= pipe[P].write_open
          /\ cr = 0 => pipe'[P].read_open >= pipe[P].read_open
      BY <3>1, <3>2
    <3>4. P \notin allocated' => pipe'[P] = pipe[P]
      <4> SUFFICES ASSUME P \notin allocated' PROVE pipe'[P] = pipe[P]
        OBVIOUS
      <4>1. pipe[P].read_open = 0 /\ pipe[P].write_open = 0
        BY <1>0, <1>1, <2>2, FreshFacts DEF FreshUnlessAllocated
      <4>2. cr = 0 /\ cw = 0
        <5>1. cr <= pipe[P].read_open /\ cw <= pipe[P].write_open
          BY <1>8
        <5> HIDE DEF cr, cw
        <5> QED BY <3>1, <4>1, <5>1
      <4>3. Refs("PIPE_READ", P)' = {} /\ Refs("PIPE_WRITE", P)' = {}
        BY <1>15 DEF AllocatedIffUsed
      <4>4. dr = 0 /\ dw = 0
        BY <1>6, <4>3
      <4>5. /\ Q[P] \in Pipe /\ pipe[P] \in Pipe
            /\ Q[P].buf = pipe[P].buf /\ Q[P].head = pipe[P].head /\ Q[P].tail = pipe[P].tail
            /\ Q[P].blocked_reader = pipe[P].blocked_reader
            /\ Q[P].blocked_writer = pipe[P].blocked_writer
            /\ Q[P].read_open = pipe[P].read_open - 0 /\ Q[P].write_open = pipe[P].write_open - 0
        BY <1>7, <1>8, <2>2, <4>2
      <4>6. Q[P] = pipe[P]
        BY <4>5 DEF Pipe
      <4> QED BY <1>11, <4>4, <4>6
    <3> QED BY <1>8, <1>10, <2>2, <3>3, <3>4 DEF QuietForPipe
  <2> QED BY <2>1, <2>2
<1>17. Registrations' /\ CallsHold' /\ FreshUnlessAllocated' /\ BytesInFlight'
  <2>1. ASSUME NEW q \in Procs
        PROVE  QuietForProcess(q, s, F)
    <3>1. call[p].op = "none"
      BY <1>1 DEF NoCall
    <3> QED BY <1>0, <1>1, <1>3, <1>4, <3>1 DEF QuietForProcess, CallsHold
  <2> QED BY <1>0, <1>1, <1>2, <1>13, <1>16, <2>1, QuietStep
<1>18. PipesAllocatedWhileUsed'
  BY <1>13, <1>15, <1>17, CallsAllocated
<1>19. ASSUME NEW P \in PipeIds
       PROVE  IF P \in O THEN SameRing(FreshPipe(0), pipe'[P]) ELSE SameRing(pipe[P], pipe'[P])
  <2>1. SameRing(Q[P], pipe'[P])
    BY <1>10 DEF SameRing
  <2>2. CASE P \in O
    <3>1. Q[P] = FreshPipe(0)
      BY <1>8, <2>2
    <3> QED BY <2>1, <2>2, <3>1
  <2>3. CASE P \notin O
    <3>1. Q[P].buf = pipe[P].buf /\ Q[P].head = pipe[P].head /\ Q[P].tail = pipe[P].tail
      BY <1>8, <2>3
    <3> QED BY <2>1, <2>3, <3>1 DEF SameRing
  <2> QED BY <2>2, <2>3
<1> QED BY <1>13, <1>14, <1>17, <1>18, <1>19 DEF IInv

\* A step that closes nothing: a special case.
LEMMA KeepStep ==
  ASSUME TypeOK, Registrations, CallsHold, FreshUnlessAllocated, BytesInFlight,
         TypeOK', allocated \subseteq allocated',
         \A q \in Procs :
           /\ call'[q].op # "none" => /\ call'[q] = call[q] /\ fds'[q] = fds[q]
                                      /\ pstate'[q] \in {"ready", "asleep"}
           /\ pstate'[q] = "asleep" <=> pstate[q] = "asleep"
           /\ pstate[q] = "asleep" => call'[q] = call[q],
         \A P \in PipeIds :
           /\ pipe'[P].buf = pipe[P].buf /\ pipe'[P].head = pipe[P].head
           /\ pipe'[P].tail = pipe[P].tail
           /\ pipe'[P].blocked_reader = pipe[P].blocked_reader
           /\ pipe'[P].blocked_writer = pipe[P].blocked_writer
           /\ pipe'[P].write_open >= pipe[P].write_open
           /\ pipe'[P].read_open >= pipe[P].read_open
           /\ P \notin allocated' => pipe'[P] = pipe[P]
  PROVE  Registrations' /\ CallsHold' /\ FreshUnlessAllocated' /\ BytesInFlight'
<1> DEFINE t == StdFds
<1>1. {} \in SUBSET Fds
  OBVIOUS
<1>2. \A k, o : EndCount(t, k, o, {}) = 0
  BY <1>1, EndCountFacts
<1> HIDE DEF t
<1>3. \A q \in Procs : QuietForProcess(q, t, {})
  BY DEF QuietForProcess
<1>4. \A P \in PipeIds : QuietForPipe(P, t, {}, {})
  BY <1>2 DEF QuietForPipe
<1>5. allocated \ {} \subseteq allocated'
  OBVIOUS
<1> QED BY <1>1, <1>3, <1>4, <1>5, QuietStep

LEMMA ForkInv ==
  ASSUME IInv, NEW p \in Procs, NEW child \in Procs, sys_fork(p, child)
  PROVE  IInv'
<1> DEFINE t == fds[p]
<1>0. /\ TypeOK /\ RefcountsExact /\ AllocatedIffUsed /\ Registrations /\ CallsHold
      /\ FreshUnlessAllocated /\ BytesInFlight /\ Living(p) /\ p # child /\ call[child].op = "none"
  BY DEF IInv, PipesAllocatedWhileUsed, AllocatedIffUsed, Living, sys_fork, InUserMode, CallsHold
<1>1. /\ pstate[child] = "unborn" /\ pstate' = [pstate EXCEPT ![child] = "ready"]
      /\ fds' = [fds EXCEPT ![child] = t]
      /\ pipe' = PipesShared(pipe, t, Fds) /\ refcount' = WbufsShared(refcount, t, Fds)
      /\ delivered' = <<>> /\ call' = call /\ allocated' = allocated /\ len' = len
  BY DEF sys_fork, NothingRead
<1>2. /\ fds'[child] = t /\ fds' \in [Procs -> [Fds -> Desc]]
      /\ \A q \in Procs : q # child => fds'[q] = fds[q] /\ (Living(q)' <=> Living(q))
      /\ Living(child)' /\ ~Living(child)
      /\ pstate' \in [Procs -> {"unborn", "ready", "asleep", "dead", "gone"}]
  BY <1>0, <1>1 DEF TypeOK, Living
<1>3. ASSUME NEW k \in Shared, NEW o
      PROVE  /\ Cardinality(Refs(k, o)') = Cardinality(Refs(k, o)) + EndCount(t, k, o, Fds)
             /\ Refs(k, o)' # {} <=> Refs(k, o) # {}
  <2>1. Fds \in SUBSET Fds
    OBVIOUS
  <2>2. /\ Cardinality(Refs(k, o)') = Cardinality(Refs(k, o)) + EndCount(fds'[child], k, o, Fds)
        /\ Refs(k, o)' # {} <=> Refs(k, o) # {} \/ EndCount(fds'[child], k, o, Fds) # 0
    BY <1>2, <2>1, RefsOpen
  <2>3. EndCount(t, k, o, Fds) # 0 => Refs(k, o) # {}
    <3>1. EndCount(t, k, o, Fds) # 0 => \E f \in Fds : f \in Ends(t, k, o)
      BY <2>1, EndCountFacts
    <3> QED BY <1>0, <3>1, RefsMember
  <2> QED BY <1>2, <2>2, <2>3
<1>4. ASSUME NEW P \in PipeIds
      PROVE  /\ pipe'[P] \in Pipe
             /\ pipe'[P].read_open = pipe[P].read_open + EndCount(t, "PIPE_READ", P, Fds)
             /\ pipe'[P].write_open = pipe[P].write_open + EndCount(t, "PIPE_WRITE", P, Fds)
             /\ pipe'[P].buf = pipe[P].buf /\ pipe'[P].head = pipe[P].head /\ pipe'[P].tail = pipe[P].tail
             /\ pipe'[P].blocked_reader = pipe[P].blocked_reader
             /\ pipe'[P].blocked_writer = pipe[P].blocked_writer
  BY <1>0, <1>1, SharedPipe DEF TypeOK
<1>5. \A k, o : EndCount(t, k, o, Fds) \in Nat
  BY EndCountFacts
<1>6. ASSUME NEW w \in WbufIds
      PROVE  refcount'[w] \in Nat /\ refcount'[w] = Cardinality(Refs("WFILE", w)')
  <2>1. refcount'[w] = refcount[w] + EndCount(t, "WFILE", w, Fds)
    BY <1>1 DEF WbufsShared, EndCount
  <2>2. refcount[w] \in Nat /\ refcount[w] = Cardinality(Refs("WFILE", w))
    BY <1>0 DEF TypeOK, RefcountsExact
  <2>3. Cardinality(Refs("WFILE", w)') = Cardinality(Refs("WFILE", w)) + EndCount(t, "WFILE", w, Fds)
    BY <1>3 DEF Shared
  <2> HIDE DEF t
  <2> QED BY <1>5, <2>1, <2>2, <2>3
<1>7. TypeOK'
  <2>1. pipe' \in [PipeIds -> Pipe]
    BY <1>1, <1>4 DEF PipesShared
  <2>2. refcount' \in [WbufIds -> Nat]
    BY <1>1, <1>6 DEF WbufsShared
  <2>3. allocated' \subseteq PipeIds /\ call' \in [Procs -> Call] /\ delivered' \in Seq(Bytes)
        /\ len' \in [WbufIds -> 0..WBUF_CAP]
    BY <1>0, <1>1 DEF TypeOK
  <2> QED BY <1>2, <2>1, <2>2, <2>3 DEF TypeOK
<1>8. RefcountsExact'
  <2>1. ASSUME NEW P \in PipeIds
        PROVE  /\ pipe'[P].read_open = Cardinality(Refs("PIPE_READ", P)')
               /\ pipe'[P].write_open = Cardinality(Refs("PIPE_WRITE", P)')
    <3>1. /\ Cardinality(Refs("PIPE_READ", P)') = Cardinality(Refs("PIPE_READ", P)) + EndCount(t, "PIPE_READ", P, Fds)
          /\ Cardinality(Refs("PIPE_WRITE", P)') = Cardinality(Refs("PIPE_WRITE", P)) + EndCount(t, "PIPE_WRITE", P, Fds)
      BY <1>3 DEF Shared
    <3>2. /\ pipe[P].read_open = Cardinality(Refs("PIPE_READ", P))
          /\ pipe[P].write_open = Cardinality(Refs("PIPE_WRITE", P))
      BY <1>0 DEF RefcountsExact
    <3> QED BY <1>4, <3>1, <3>2
  <2> QED BY <1>6, <2>1 DEF RefcountsExact
<1>9. AllocatedIffUsed'
  <2>1. \A P \in PipeIds : /\ Refs("PIPE_READ", P)' # {} <=> Refs("PIPE_READ", P) # {}
                           /\ Refs("PIPE_WRITE", P)' # {} <=> Refs("PIPE_WRITE", P) # {}
    BY <1>3 DEF Shared
  <2> QED BY <1>0, <1>1, <2>1 DEF AllocatedIffUsed
<1>10. ASSUME NEW P \in PipeIds
       PROVE  /\ pipe'[P].write_open >= pipe[P].write_open
              /\ pipe'[P].read_open >= pipe[P].read_open
              /\ P \notin allocated' => pipe'[P] = pipe[P]
  <2>1. pipe[P] \in Pipe /\ pipe[P].read_open \in Nat /\ pipe[P].write_open \in Nat
    BY <1>0 DEF TypeOK, Pipe
  <2>2. pipe'[P].write_open >= pipe[P].write_open /\ pipe'[P].read_open >= pipe[P].read_open
    <3> HIDE DEF t
    <3> QED BY <1>4, <1>5, <2>1
  <2>3. ASSUME P \notin allocated'
        PROVE  pipe'[P] = pipe[P]
    <3>1. Refs("PIPE_READ", P)' = {} /\ Refs("PIPE_WRITE", P)' = {}
      BY <1>9, <2>3 DEF AllocatedIffUsed
    <3>2. Refs("PIPE_READ", P) = {} /\ Refs("PIPE_WRITE", P) = {}
      BY <1>0, <1>1, <2>3 DEF AllocatedIffUsed
    <3>3. /\ pipe'[P].read_open = 0 /\ pipe'[P].write_open = 0
          /\ pipe[P].read_open = 0 /\ pipe[P].write_open = 0
      BY <1>0, <1>8, <3>1, <3>2, FS_EmptySet DEF RefcountsExact
    <3> QED BY <1>4, <2>1, <3>3 DEF Pipe
  <2> QED BY <2>2, <2>3
<1>11. Registrations' /\ CallsHold' /\ FreshUnlessAllocated' /\ BytesInFlight'
  <2>1. \A q \in Procs : /\ call'[q].op # "none" => fds'[q] = fds[q] /\ pstate'[q] \in {"ready", "asleep"}
                         /\ pstate'[q] = "asleep" <=> pstate[q] = "asleep"
    BY <1>0, <1>1, <1>2 DEF CallsHold, TypeOK
  <2> QED BY <1>0, <1>1, <1>4, <1>7, <1>10, <2>1, KeepStep
<1>12. PipesAllocatedWhileUsed'
  BY <1>7, <1>9, <1>11, CallsAllocated
<1> QED BY <1>7, <1>8, <1>11, <1>12 DEF IInv

\* A failed fork takes back every reference that it had given; no pipe is
\* destroyed by that, as the parent still refers to it.
LEMMA ForkFailsInv ==
  ASSUME IInv, NEW p \in Procs, ForkFails(p)
  PROVE  IInv' /\ \A P \in PipeIds : SameRing(pipe[P], pipe'[P])
<1> DEFINE t == fds[p]
           S == PipesShared(pipe, t, Fds)
<1>0. /\ TypeOK /\ RefcountsExact /\ AllocatedIffUsed /\ Registrations /\ CallsHold
      /\ FreshUnlessAllocated /\ BytesInFlight /\ Living(p)
  BY DEF IInv, PipesAllocatedWhileUsed, AllocatedIffUsed, Living, ForkFails, InUserMode
<1>1. /\ pipe' = PipesClosed(S, t, Fds) /\ pstate' = Woken(Peers(t, Fds))
      /\ fds' = fds /\ refcount' = refcount /\ len' = len
      /\ delivered' = <<>> /\ call' = call /\ allocated' = allocated
  BY DEF ForkFails, NothingRead
<1>2. /\ pstate' \in [Procs -> {"unborn", "ready", "asleep", "dead", "gone"}]
      /\ \A q \in Procs : /\ pstate'[q] = "asleep" <=> pstate[q] = "asleep" /\ q \notin Peers(t, Fds)
                          /\ pstate'[q] # pstate[q] => pstate[q] = "asleep" /\ pstate'[q] = "ready"
  <2> DEFINE K == Peers(t, Fds)
  <2>1. pstate' = Woken(K)
    BY <1>1
  <2> HIDE DEF K
  <2>2. /\ Woken(K) \in [Procs -> {"unborn", "ready", "asleep", "dead", "gone"}]
        /\ \A q \in Procs : /\ Woken(K)[q] = "asleep" <=> pstate[q] = "asleep" /\ q \notin K
                            /\ Woken(K)[q] # pstate[q] => pstate[q] = "asleep" /\ Woken(K)[q] = "ready"
    BY <1>0, WokenFacts
  <2> QED BY <2>1, <2>2 DEF K
<1>3. \A k, o : Refs(k, o)' = Refs(k, o)
  <2>1. \A q \in Procs : Living(q)' <=> Living(q)
    BY <1>2 DEF Living
  <2> QED BY <1>1, <2>1, RefsUnchanged
<1>4. pipe \in [PipeIds -> Pipe] /\ Fds \in SUBSET Fds
  BY <1>0 DEF TypeOK
<1> HIDE DEF S
<1>5. ASSUME NEW P \in PipeIds
      PROVE  /\ S[P] \in Pipe
             /\ S[P].read_open = pipe[P].read_open + EndCount(t, "PIPE_READ", P, Fds)
             /\ S[P].write_open = pipe[P].write_open + EndCount(t, "PIPE_WRITE", P, Fds)
             /\ S[P].buf = pipe[P].buf /\ S[P].head = pipe[P].head /\ S[P].tail = pipe[P].tail
             /\ S[P].blocked_reader = pipe[P].blocked_reader
             /\ S[P].blocked_writer = pipe[P].blocked_writer
  BY <1>4, SharedPipe DEF S
<1>6. S \in [PipeIds -> Pipe]
  BY <1>5 DEF S, PipesShared
<1>7. ASSUME NEW P \in PipeIds
      PROVE  LET cr == EndCount(t, "PIPE_READ", P, Fds)
                 cw == EndCount(t, "PIPE_WRITE", P, Fds)
             IN  /\ pipe'[P] \in Pipe /\ pipe[P] \in Pipe /\ cr \in Nat /\ cw \in Nat
                 /\ pipe'[P].read_open = pipe[P].read_open /\ pipe'[P].write_open = pipe[P].write_open
                 /\ pipe'[P].buf = pipe[P].buf /\ pipe'[P].head = pipe[P].head
                 /\ pipe'[P].tail = pipe[P].tail
                 /\ pipe'[P].blocked_reader = IF cw > 0 THEN NULL ELSE pipe[P].blocked_reader
                 /\ pipe'[P].blocked_writer = IF cr > 0 THEN NULL ELSE pipe[P].blocked_writer
                 /\ P \notin allocated => cr = 0 /\ cw = 0
  <2> DEFINE cr == EndCount(t, "PIPE_READ", P, Fds)
             cw == EndCount(t, "PIPE_WRITE", P, Fds)
             ro == pipe[P].read_open
             wo == pipe[P].write_open
  <2>1. cr \in Nat /\ cw \in Nat /\ ro \in Nat /\ wo \in Nat /\ pipe[P] \in Pipe
    BY <1>4, EndCountFacts DEF Pipe
  <2>2. cr <= ro /\ cw <= wo
    BY <1>0, <1>4, CloseFacts
  <2>3. S[P].read_open = ro + cr /\ S[P].write_open = wo + cw
    BY <1>5
  <2>4. P \notin allocated => ro = 0 /\ wo = 0
    BY <1>0, FreshFacts DEF FreshUnlessAllocated
  <2> HIDE DEF cr, cw, ro, wo
  <2>5. /\ cr <= S[P].read_open /\ cw <= S[P].write_open
        /\ S[P].read_open - cr = ro /\ S[P].write_open - cw = wo
        /\ ~((cr > 0 \/ cw > 0) /\ cr = S[P].read_open /\ cw = S[P].write_open)
        /\ P \notin allocated => cr = 0 /\ cw = 0
    BY <2>1, <2>2, <2>3, <2>4
  <2>6. /\ pipe'[P] \in Pipe
        /\ pipe'[P].read_open = S[P].read_open - cr /\ pipe'[P].write_open = S[P].write_open - cw
        /\ pipe'[P].buf = S[P].buf /\ pipe'[P].head = S[P].head
        /\ pipe'[P].tail = S[P].tail
        /\ pipe'[P].blocked_reader = IF cw > 0 THEN NULL ELSE S[P].blocked_reader
        /\ pipe'[P].blocked_writer = IF cr > 0 THEN NULL ELSE S[P].blocked_writer
    BY <1>1, <1>4, <1>6, <2>5, ClosedPipe DEF cr, cw
  <2> QED BY <1>5, <2>1, <2>5, <2>6 DEF cr, cw, ro, wo
<1>8. TypeOK'
  <2>1. pipe' \in [PipeIds -> Pipe]
    BY <1>1, <1>7 DEF PipesClosed
  <2>2. /\ allocated' \subseteq PipeIds /\ call' \in [Procs -> Call] /\ delivered' \in Seq(Bytes)
        /\ fds' \in [Procs -> [Fds -> Desc]] /\ refcount' \in [WbufIds -> Nat]
        /\ len' \in [WbufIds -> 0..WBUF_CAP]
    BY <1>0, <1>1 DEF TypeOK
  <2> QED BY <1>2, <2>1, <2>2 DEF TypeOK
<1>9. RefcountsExact'
  BY <1>0, <1>1, <1>3, <1>7 DEF RefcountsExact
<1>10. AllocatedIffUsed'
  BY <1>0, <1>1, <1>3 DEF AllocatedIffUsed
<1>11. ASSUME NEW P \in PipeIds
       PROVE  QuietForPipe(P, t, Fds, {})
  <2>1. P \notin allocated' => pipe'[P] = pipe[P]
    <3> SUFFICES ASSUME P \notin allocated' PROVE pipe'[P] = pipe[P]
      OBVIOUS
    <3>1. /\ pipe'[P] \in Pipe /\ pipe[P] \in Pipe
          /\ pipe'[P].read_open = pipe[P].read_open /\ pipe'[P].write_open = pipe[P].write_open
          /\ pipe'[P].buf = pipe[P].buf /\ pipe'[P].head = pipe[P].head
          /\ pipe'[P].tail = pipe[P].tail
          /\ pipe'[P].blocked_reader = pipe[P].blocked_reader
          /\ pipe'[P].blocked_writer = pipe[P].blocked_writer
      BY <1>1, <1>7
    <3> QED BY <3>1 DEF Pipe
  <2>2. /\ pipe'[P].write_open >= pipe[P].write_open /\ pipe'[P].read_open >= pipe[P].read_open
    BY <1>7 DEF Pipe
  <2> QED BY <1>7, <2>1, <2>2 DEF QuietForPipe
<1>12. Registrations' /\ CallsHold' /\ FreshUnlessAllocated' /\ BytesInFlight'
  <2>1. \A q \in Procs : QuietForProcess(q, t, Fds)
    BY <1>0, <1>1, <1>2 DEF QuietForProcess, CallsHold
  <2>2. allocated \ {} \subseteq allocated'
    BY <1>1
  <2> QED BY <1>0, <1>4, <1>8, <1>11, <2>1, <2>2, QuietStep
<1>13. PipesAllocatedWhileUsed'
  BY <1>8, <1>10, <1>12, CallsAllocated
<1>14. \A P \in PipeIds : SameRing(pipe[P], pipe'[P])
  BY <1>7 DEF SameRing
<1> QED BY <1>8, <1>9, <1>12, <1>13, <1>14 DEF IInv

LEMMA KillInv ==
  ASSUME IInv, NEW p \in Procs, Kill(p)
  PROVE  IInv'
<1>0. /\ TypeOK /\ RefcountsExact /\ AllocatedIffUsed /\ Registrations /\ CallsHold
      /\ FreshUnlessAllocated /\ BytesInFlight /\ Living(p)
  BY DEF IInv, PipesAllocatedWhileUsed, AllocatedIffUsed, Living, Kill
<1>1. /\ pstate[p] = "ready" /\ pstate' = [pstate EXCEPT ![p] = "dead"]
      /\ call' = [call EXCEPT ![p] = NoCall]
      /\ fds' = fds /\ refcount' = refcount /\ len' = len
      /\ delivered' = <<>> /\ pipe' = pipe /\ allocated' = allocated
  BY DEF Kill, NothingRead
<1>2. TypeOK'
  <2>1. NoCall \in Call
    BY DEF NoCall, Call
  <2> QED BY <1>0, <1>1, <2>1 DEF TypeOK
<1>3. \A k, o : Refs(k, o)' = Refs(k, o)
  <2>1. \A q \in Procs : Living(q)' <=> Living(q)
    BY <1>0, <1>1 DEF Living, TypeOK
  <2> QED BY <1>1, <2>1, RefsUnchanged
<1>4. RefcountsExact' /\ AllocatedIffUsed'
  BY <1>0, <1>1, <1>3 DEF RefcountsExact, AllocatedIffUsed
<1>5. \A P \in PipeIds : pipe'[P].write_open >= pipe[P].write_open /\ pipe'[P].read_open >= pipe[P].read_open
  BY <1>0, <1>1 DEF TypeOK, Pipe
<1>6. Registrations' /\ CallsHold' /\ FreshUnlessAllocated' /\ BytesInFlight'
  <2>1. \A q \in Procs :
          /\ call'[q].op # "none" => call'[q] = call[q] /\ pstate'[q] \in {"ready", "asleep"}
          /\ pstate'[q] = "asleep" <=> pstate[q] = "asleep"
          /\ pstate[q] = "asleep" => call'[q] = call[q]
    BY <1>0, <1>1 DEF CallsHold, TypeOK, NoCall
  <2> QED BY <1>0, <1>1, <1>2, <1>5, <2>1, KeepStep
<1>7. PipesAllocatedWhileUsed'
  BY <1>2, <1>4, <1>6, CallsAllocated
<1> QED BY <1>2, <1>4, <1>6, <1>7 DEF IInv

\* do_fd_write into a write buffer.
LEMMA WbufWriteInv ==
  ASSUME IInv, NEW p \in Procs, NEW f \in Fds, fds[p][f].kind = "WFILE", NEW n \in Nat,
         len' = [len EXCEPT ![fds[p][f].obj] = wbuf_write(@, n)],
         NothingRead, UNCHANGED <<pstate, call, fds, allocated, pipe, refcount>>
  PROVE  IInv'
<1>0. /\ TypeOK /\ RefcountsExact /\ PipesAllocatedWhileUsed /\ Registrations /\ CallsHold
      /\ FreshUnlessAllocated /\ BytesInFlight
  BY DEF IInv
<1>1. \A l \in 0..WBUF_CAP : wbuf_write(l, n) \in 0..WBUF_CAP
  BY PipesAssumption DEF wbuf_write, Min2
<1>2. TypeOK'
  <2>1. len \in [WbufIds -> 0..WBUF_CAP]
    BY <1>0 DEF TypeOK
  <2> DEFINE w == fds[p][f].obj
  <2>2. len' = [len EXCEPT ![w] = wbuf_write(len[w], n)]
    OBVIOUS
  <2> HIDE DEF w
  <2>3. len' \in [WbufIds -> 0..WBUF_CAP]
    <3>1. ASSUME NEW v \in WbufIds
          PROVE  len'[v] \in 0..WBUF_CAP
      BY <1>1, <2>1, <2>2
    <3> QED BY <2>1, <2>2, <3>1
  <2> QED BY <1>0, <2>3 DEF TypeOK, NothingRead
<1>3. \A k, o : Refs(k, o)' = Refs(k, o)
  BY RefsUnchanged DEF Living
<1>4. RefcountsExact' /\ PipesAllocatedWhileUsed'
  BY <1>0, <1>3 DEF RefcountsExact, PipesAllocatedWhileUsed
<1>5. Registrations' /\ CallsHold' /\ FreshUnlessAllocated' /\ BytesInFlight'
  <2>1. Registrations'
    BY <1>0 DEF Registrations, Used, Space
  <2>2. CallsHold'
    BY <1>0 DEF CallsHold, Ends
  <2>3. FreshUnlessAllocated' /\ BytesInFlight'
    BY <1>0 DEF FreshUnlessAllocated, BytesInFlight, RingHolds, Used, FreshPipe, Ring
  <2> QED BY <2>1, <2>2, <2>3
<1> QED BY <1>2, <1>4, <1>5 DEF IInv

\* The scan for a free slot finds the lowest one.
LEMMA LowestIsElement ==
  ASSUME NEW S \in SUBSET Fds, S # {}
  PROVE  Lowest(S) \in S
<1> DEFINE R == OpToRel(<, Nat)
<1>0. S \subseteq Nat
  BY DEF Fds
<1>1. IsWellFoundedOn(R, Nat)
  BY NatLessThanWellFounded
<1>2. PICK x \in S : \A y \in S : <<y, x>> \notin R
  <2> HIDE DEF R
  <2> QED BY <1>0, <1>1, WFMin
<1>3. \A y \in S : x <= y
  <2> SUFFICES ASSUME NEW y \in S, y < x PROVE FALSE
    BY <1>0
  <2>1. <<y, x>> \in R
    BY <1>0 DEF OpToRel
  <2> QED BY <1>2, <2>1
<1> QED BY <1>3 DEF Lowest

LEMMA PipeInv ==
  ASSUME IInv, NEW p \in Procs, sys_pipe(p)
  PROVE  IInv'
<1> DEFINE rfd == Lowest(FreeSlots(p))
           wfd == Lowest(FreeSlots(p) \ {rfd})
           F == {rfd, wfd}
<1>0. /\ TypeOK /\ RefcountsExact /\ AllocatedIffUsed /\ Registrations /\ CallsHold
      /\ FreshUnlessAllocated /\ BytesInFlight /\ Living(p)
  BY DEF IInv, PipesAllocatedWhileUsed, AllocatedIffUsed, Living, sys_pipe, InUserMode
<1>1. PICK P \in PipeIds \ allocated :
          /\ allocated' = allocated \cup {P}
          /\ pipe' = [pipe EXCEPT ![P] = FreshPipe(1)]
          /\ fds' = [fds EXCEPT ![p][rfd] = [kind |-> "PIPE_READ", obj |-> P],
                                ![p][wfd] = [kind |-> "PIPE_WRITE", obj |-> P]]
  BY DEF sys_pipe
<1>2. /\ pstate[p] = "ready" /\ call[p] = NoCall /\ Cardinality(FreeSlots(p)) >= 2
      /\ pstate' = pstate /\ call' = call /\ refcount' = refcount /\ len' = len /\ delivered' = <<>>
  BY DEF sys_pipe, InUserMode, NothingRead
<1>3. rfd \in FreeSlots(p) /\ wfd \in FreeSlots(p) /\ rfd # wfd /\ FreeSlots(p) \in SUBSET Fds
  <2>1. FreeSlots(p) \in SUBSET Fds
    BY DEF FreeSlots
  <2>2. FreeSlots(p) # {}
    BY <1>2, FS_EmptySet
  <2>3. rfd \in FreeSlots(p)
    BY <2>1, <2>2, LowestIsElement
  <2> HIDE DEF rfd
  <2>4. FreeSlots(p) \ {rfd} # {}
    <3>1. IsFiniteSet(FreeSlots(p)) /\ Cardinality(FreeSlots(p)) \in Nat
      BY <2>1, SlotsFinite
    <3>2. Cardinality(FreeSlots(p) \ {rfd}) = Cardinality(FreeSlots(p)) - 1
      BY <2>3, <3>1, FS_RemoveElement
    <3>3. FreeSlots(p) \ {rfd} = {} => Cardinality(FreeSlots(p) \ {rfd}) = 0
      BY FS_EmptySet
    <3> DEFINE c == Cardinality(FreeSlots(p))
    <3>4. c - 1 # 0
      BY <1>2, <3>1
    <3> QED BY <3>2, <3>3, <3>4
  <2>5. FreeSlots(p) \ {rfd} \in SUBSET Fds
    BY <2>1
  <2>6. wfd \in FreeSlots(p) \ {rfd}
    BY <2>4, <2>5, LowestIsElement
  <2> QED BY <2>1, <2>3, <2>6
<1> HIDE DEF rfd, wfd
<1>4. /\ fds' \in [Procs -> [Fds -> Desc]] /\ F \in SUBSET Fds
      /\ \A q \in Procs : q # p => fds'[q] = fds[q]
      /\ fds'[p][rfd] = [kind |-> "PIPE_READ", obj |-> P]
      /\ fds'[p][wfd] = [kind |-> "PIPE_WRITE", obj |-> P]
      /\ \A f \in Fds \ F : fds[p][f] = fds'[p][f]
      /\ \A f \in F : fds[p][f].kind \notin Shared
  <2>1. [kind |-> "PIPE_READ", obj |-> P] \in Desc /\ [kind |-> "PIPE_WRITE", obj |-> P] \in Desc
    BY DEF Desc
  <2>2. \A f \in F : fds[p][f].kind \notin Shared
    BY <1>3 DEF FreeSlots, Shared
  <2>3. fds \in [Procs -> [Fds -> Desc]] /\ rfd \in Fds /\ wfd \in Fds /\ rfd # wfd
    BY <1>0, <1>3 DEF TypeOK
  <2> QED BY <1>1, <2>1, <2>2, <2>3
<1>5. /\ Ends(fds'[p], "PIPE_READ", P) \cap F = {rfd}
      /\ Ends(fds'[p], "PIPE_WRITE", P) \cap F = {wfd}
      /\ \A k, o : (o # P \/ k \notin {"PIPE_READ", "PIPE_WRITE"}) => Ends(fds'[p], k, o) \cap F = {}
  BY <1>3, <1>4 DEF Ends
<1>6. /\ EndCount(fds'[p], "PIPE_READ", P, F) = 1 /\ EndCount(fds'[p], "PIPE_WRITE", P, F) = 1
      /\ \A k, o : (o # P \/ k \notin {"PIPE_READ", "PIPE_WRITE"}) => EndCount(fds'[p], k, o, F) = 0
  BY <1>5, FS_Singleton, FS_EmptySet DEF EndCount
<1>7. ASSUME NEW k \in Shared, NEW o
      PROVE  /\ Cardinality(Refs(k, o)') = Cardinality(Refs(k, o)) + EndCount(fds'[p], k, o, F)
             /\ Refs(k, o)' # {} <=> Refs(k, o) # {} \/ EndCount(fds'[p], k, o, F) # 0
  <2>1. \A q \in Procs : Living(q)' <=> Living(q)
    BY <1>2 DEF Living
  <2> QED BY <1>0, <1>4, <2>1, RefsOpen
<1>8. Refs("PIPE_READ", P) = {} /\ Refs("PIPE_WRITE", P) = {}
  BY <1>0, <1>1 DEF AllocatedIffUsed
<1>9. \A o : \A k \in Shared : (o # P \/ k = "WFILE") =>
         Cardinality(Refs(k, o)') = Cardinality(Refs(k, o)) /\ (Refs(k, o)' # {} <=> Refs(k, o) # {})
  <2> TAKE o
  <2> TAKE k \in Shared
  <2> HAVE o # P \/ k = "WFILE"
  <2>1. EndCount(fds'[p], k, o, F) = 0
    BY <1>6
  <2>2. Refs(k, o) \in SUBSET (Procs \X Fds)
    BY RefsMember
  <2>3. Cardinality(Refs(k, o)) \in Nat
    BY <2>2, RefsFinite
  <2> QED BY <1>7, <2>1, <2>3
<1>10. /\ Cardinality(Refs("PIPE_READ", P)') = 1 /\ Cardinality(Refs("PIPE_WRITE", P)') = 1
       /\ Refs("PIPE_READ", P)' # {}
  <2>1. "PIPE_READ" \in Shared /\ "PIPE_WRITE" \in Shared
    BY DEF Shared
  <2>2. Cardinality(Refs("PIPE_READ", P)) = 0 /\ Cardinality(Refs("PIPE_WRITE", P)) = 0
    BY <1>8, FS_EmptySet
  <2>3. /\ Cardinality(Refs("PIPE_READ", P)') = 0 + 1 /\ Cardinality(Refs("PIPE_WRITE", P)') = 0 + 1
        /\ Refs("PIPE_READ", P)' # {} <=> Refs("PIPE_READ", P) # {} \/ 1 # 0
    BY <1>6, <1>7, <2>1, <2>2
  <2> QED BY <2>3
<1>11. /\ pipe'[P] = FreshPipe(1) /\ pipe[P] = FreshPipe(0)
       /\ \A Q \in PipeIds : Q # P => pipe'[Q] = pipe[Q]
  BY <1>0, <1>1 DEF TypeOK, FreshUnlessAllocated
<1>12. TypeOK'
  <2>1. pipe' \in [PipeIds -> Pipe]
    BY <1>0, <1>1, FreshFacts DEF TypeOK
  <2> QED BY <1>0, <1>1, <1>2, <1>4, <2>1 DEF TypeOK
<1>13. RefcountsExact'
  <2>1. ASSUME NEW Q \in PipeIds
        PROVE  /\ pipe'[Q].read_open = Cardinality(Refs("PIPE_READ", Q)')
               /\ pipe'[Q].write_open = Cardinality(Refs("PIPE_WRITE", Q)')
    <3>1. CASE Q = P
      BY <1>10, <1>11, <3>1, FreshFacts
    <3>2. CASE Q # P
      BY <1>0, <1>9, <1>11, <3>2 DEF RefcountsExact, Shared
    <3> QED BY <3>1, <3>2
  <2>2. ASSUME NEW w \in WbufIds
        PROVE  refcount'[w] = Cardinality(Refs("WFILE", w)')
    BY <1>0, <1>2, <1>9 DEF RefcountsExact, Shared
  <2> QED BY <2>1, <2>2 DEF RefcountsExact
<1>14. AllocatedIffUsed'
  <2> SUFFICES ASSUME NEW Q \in PipeIds
               PROVE  Q \in allocated' <=> Refs("PIPE_READ", Q)' \cup Refs("PIPE_WRITE", Q)' # {}
    BY DEF AllocatedIffUsed
  <2>1. CASE Q = P
    BY <1>1, <1>10, <2>1
  <2>2. CASE Q # P
    BY <1>0, <1>1, <1>9, <2>2 DEF AllocatedIffUsed, Shared
  <2> QED BY <2>1, <2>2
<1>15. Registrations' /\ CallsHold' /\ FreshUnlessAllocated' /\ BytesInFlight'
  <2>1. \A q \in Procs : call'[q].op # "none" => fds'[q] = fds[q] /\ pstate'[q] \in {"ready", "asleep"}
    BY <1>0, <1>2, <1>4 DEF CallsHold, NoCall
  <2>2. ASSUME NEW Q \in PipeIds
        PROVE  /\ pipe'[Q].buf = pipe[Q].buf /\ pipe'[Q].head = pipe[Q].head
               /\ pipe'[Q].tail = pipe[Q].tail
               /\ pipe'[Q].blocked_reader = pipe[Q].blocked_reader
               /\ pipe'[Q].blocked_writer = pipe[Q].blocked_writer
               /\ pipe'[Q].write_open >= pipe[Q].write_open
               /\ pipe'[Q].read_open >= pipe[Q].read_open
               /\ Q \notin allocated' => pipe'[Q] = pipe[Q]
    <3>1. CASE Q = P
      <4>1. Q \in allocated'
        BY <1>1, <3>1
      <4> QED BY <1>11, <3>1, <4>1 DEF FreshPipe
    <3>2. CASE Q # P
      <4>1. pipe[Q].read_open \in Nat /\ pipe[Q].write_open \in Nat
        BY <1>0 DEF TypeOK, Pipe
      <4> QED BY <1>11, <3>2, <4>1
    <3> QED BY <3>1, <3>2
  <2>3. allocated \subseteq allocated'
    BY <1>1
  <2> QED BY <1>0, <1>2, <1>12, <2>1, <2>2, <2>3, KeepStep
<1>16. PipesAllocatedWhileUsed'
  BY <1>12, <1>14, <1>15, CallsAllocated
<1> QED BY <1>12, <1>13, <1>15, <1>16 DEF IInv

LEMMA OpenInv ==
  ASSUME IInv, NEW p \in Procs, sys_open(p)
  PROVE  IInv'
<1> DEFINE fd == Lowest(FreeSlots(p))
           F == {fd}
           d == fds'[p][fd]
<1>0. /\ TypeOK /\ RefcountsExact /\ AllocatedIffUsed /\ Registrations /\ CallsHold
      /\ FreshUnlessAllocated /\ BytesInFlight /\ Living(p)
  BY DEF IInv, PipesAllocatedWhileUsed, AllocatedIffUsed, Living, sys_open, InUserMode
<1>1. /\ pstate[p] = "ready" /\ call[p] = NoCall /\ FreeSlots(p) # {}
      /\ pstate' = pstate /\ call' = call /\ allocated' = allocated /\ pipe' = pipe /\ delivered' = <<>>
  BY DEF sys_open, InUserMode, NothingRead
<1>2. fd \in FreeSlots(p) /\ fd \in Fds
  <2>1. FreeSlots(p) \in SUBSET Fds
    BY DEF FreeSlots
  <2> QED BY <1>1, <2>1, LowestIsElement
<1>3. \E e \in Desc :
        /\ fds' = [fds EXCEPT ![p][fd] = e]
        /\ \/ /\ e = Plain /\ refcount' = refcount /\ len' = len
           \/ /\ e.kind = "WFILE" /\ e.obj \in WbufIds /\ refcount[e.obj] = 0
              /\ refcount' = [refcount EXCEPT ![e.obj] = 1]
              /\ len' = [len EXCEPT ![e.obj] = 0]
  <2>1. CASE \E w \in {w \in WbufIds : refcount[w] = 0} :
               /\ refcount' = [refcount EXCEPT ![w] = 1]
               /\ len' = [len EXCEPT ![w] = 0]
               /\ fds' = [fds EXCEPT ![p][fd] = [kind |-> "WFILE", obj |-> w]]
    <3>1. PICK w \in WbufIds :
               /\ refcount[w] = 0
               /\ refcount' = [refcount EXCEPT ![w] = 1]
               /\ len' = [len EXCEPT ![w] = 0]
               /\ fds' = [fds EXCEPT ![p][fd] = [kind |-> "WFILE", obj |-> w]]
      BY <2>1
    <3> DEFINE e == [kind |-> "WFILE", obj |-> w]
    <3>2. e \in Desc /\ e.kind = "WFILE" /\ e.obj = w
      BY DEF Desc
    <3>3. fds' = [fds EXCEPT ![p][fd] = e]
      BY <3>1
    <3> HIDE DEF e
    <3> QED BY <3>1, <3>2, <3>3
  <2>2. CASE fds' = [fds EXCEPT ![p][fd] = Plain] /\ UNCHANGED <<refcount, len>>
    <3>1. Plain \in Desc
      BY DEF Plain, Desc
    <3> QED BY <2>2, <3>1
  <2> QED BY <2>1, <2>2 DEF sys_open
<1> HIDE DEF fd
<1>4. PICK e \in Desc :
        /\ fds' = [fds EXCEPT ![p][fd] = e]
        /\ \/ /\ e = Plain /\ refcount' = refcount /\ len' = len
           \/ /\ e.kind = "WFILE" /\ e.obj \in WbufIds /\ refcount[e.obj] = 0
              /\ refcount' = [refcount EXCEPT ![e.obj] = 1]
              /\ len' = [len EXCEPT ![e.obj] = 0]
  BY <1>3
<1>5. /\ fds' \in [Procs -> [Fds -> Desc]] /\ F \in SUBSET Fds
      /\ \A q \in Procs : q # p => fds'[q] = fds[q]
      /\ fds'[p][fd] = e
      /\ \A f \in Fds \ F : fds[p][f] = fds'[p][f]
      /\ \A f \in F : fds[p][f].kind \notin Shared
  <2>2. \A f \in F : fds[p][f].kind \notin Shared
    BY <1>2 DEF FreeSlots, Shared
  <2>3. fds \in [Procs -> [Fds -> Desc]]
    BY <1>0 DEF TypeOK
  <2> QED BY <1>2, <1>4, <2>2, <2>3
<1>6. ASSUME NEW k \in Shared, NEW o
      PROVE  /\ EndCount(fds'[p], k, o, F) = IF e.kind = k /\ e.obj = o THEN 1 ELSE 0
             /\ Cardinality(Refs(k, o)') = Cardinality(Refs(k, o)) + EndCount(fds'[p], k, o, F)
             /\ Refs(k, o)' # {} <=> Refs(k, o) # {} \/ EndCount(fds'[p], k, o, F) # 0
             /\ Cardinality(Refs(k, o)) \in Nat
  <2>1. \A q \in Procs : Living(q)' <=> Living(q)
    BY <1>1 DEF Living
  <2>2. /\ Cardinality(Refs(k, o)') = Cardinality(Refs(k, o)) + EndCount(fds'[p], k, o, F)
        /\ Refs(k, o)' # {} <=> Refs(k, o) # {} \/ EndCount(fds'[p], k, o, F) # 0
    BY <1>0, <1>5, <2>1, RefsOpen
  <2>3. Ends(fds'[p], k, o) \cap F = IF e.kind = k /\ e.obj = o THEN {fd} ELSE {}
    BY <1>2, <1>5 DEF Ends
  <2>4. EndCount(fds'[p], k, o, F) = IF e.kind = k /\ e.obj = o THEN 1 ELSE 0
    BY <2>3, FS_Singleton, FS_EmptySet DEF EndCount
  <2>5. Refs(k, o) \in SUBSET (Procs \X Fds)
    BY RefsMember
  <2> QED BY <2>2, <2>4, <2>5, RefsFinite
<1>7. ASSUME NEW k \in {"PIPE_READ", "PIPE_WRITE"}, NEW P \in PipeIds
      PROVE  Cardinality(Refs(k, P)') = Cardinality(Refs(k, P)) /\ (Refs(k, P)' # {} <=> Refs(k, P) # {})
  <2>1. EndCount(fds'[p], k, P, F) = 0 /\ k \in Shared
    <3>1. e.kind # k /\ k \in Shared
      BY <1>4 DEF Plain, Shared
    <3> QED BY <1>6, <3>1
  <2> QED BY <1>6, <2>1
<1>8. TypeOK'
  <2>a. /\ 0 \in 0..WBUF_CAP /\ 1 \in Nat
        /\ refcount \in [WbufIds -> Nat] /\ len \in [WbufIds -> 0..WBUF_CAP]
    BY <1>0, PipesAssumption DEF TypeOK
  <2>1. refcount' \in [WbufIds -> Nat] /\ len' \in [WbufIds -> 0..WBUF_CAP]
    BY <1>4, <2>a
  <2> QED BY <1>0, <1>1, <1>5, <2>1 DEF TypeOK
<1>9. RefcountsExact'
  <2>1. ASSUME NEW w \in WbufIds
        PROVE  refcount'[w] = Cardinality(Refs("WFILE", w)')
    <3>1. refcount[w] = Cardinality(Refs("WFILE", w)) /\ refcount[w] \in Nat
      BY <1>0 DEF RefcountsExact, TypeOK
    <3>2. refcount'[w] = IF e.kind = "WFILE" /\ e.obj = w THEN 1 ELSE refcount[w]
      BY <1>0, <1>4 DEF TypeOK, Plain
    <3>3. e.kind = "WFILE" /\ e.obj = w => refcount[w] = 0
      BY <1>4 DEF Plain
    <3>4. Cardinality(Refs("WFILE", w)') = Cardinality(Refs("WFILE", w)) + (IF e.kind = "WFILE" /\ e.obj = w THEN 1 ELSE 0)
      BY <1>6 DEF Shared
    <3> QED BY <3>1, <3>2, <3>3, <3>4
  <2> QED BY <1>0, <1>1, <1>7, <2>1 DEF RefcountsExact
<1>10. AllocatedIffUsed'
  BY <1>0, <1>1, <1>7 DEF AllocatedIffUsed
<1>11. Registrations' /\ CallsHold' /\ FreshUnlessAllocated' /\ BytesInFlight'
  <2>1. \A q \in Procs : call'[q].op # "none" => fds'[q] = fds[q] /\ pstate'[q] \in {"ready", "asleep"}
    BY <1>0, <1>1, <1>5 DEF CallsHold, NoCall
  <2>2. \A P \in PipeIds : pipe'[P].write_open >= pipe[P].write_open /\ pipe'[P].read_open >= pipe[P].read_open
    BY <1>0, <1>1 DEF TypeOK, Pipe
  <2> QED BY <1>0, <1>1, <1>8, <2>1, <2>2, KeepStep
<1>12. PipesAllocatedWhileUsed'
  BY <1>8, <1>10, <1>11, CallsAllocated
<1> QED BY <1>8, <1>9, <1>11, <1>12 DEF IInv

\* A turn of a read or write loop of p on pipe P, which leaves every other pipe
\* and every descriptor alone and wakes the processes W: it ends the call, or
\* puts p to sleep for a reason.
Turn(p, P, kind, W) ==
  /\ pstate[p] = "ready" /\ Ends(fds[p], kind, P) # {}
  /\ fds' = fds /\ allocated' = allocated /\ refcount' = refcount
  /\ \A Q \in PipeIds : Q # P => pipe'[Q] = pipe[Q]
  /\ \A q \in Procs : q # p => call'[q] = call[q] /\ pstate'[q] = Woken(W)[q]
  /\ \A q \in W : q = pipe[P].blocked_reader \/ q = pipe[P].blocked_writer
  /\ pipe'[P].read_open = pipe[P].read_open /\ pipe'[P].write_open = pipe[P].write_open
  /\ RingHolds(pipe'[P])
  /\ \/ pstate'[p] = "ready" /\ call'[p] = NoCall
     \/ /\ pstate'[p] = "asleep" /\ call'[p].pipe = P
        /\ \/ kind = "PIPE_READ" /\ call'[p].op = "read"
           \/ kind = "PIPE_WRITE" /\ call'[p].op = "write"
  /\ pipe'[P].blocked_reader # NULL =>
       \/ /\ pipe'[P].blocked_reader = p /\ pstate'[p] = "asleep" /\ kind = "PIPE_READ"
          /\ Used(pipe'[P]) = 0 /\ pipe'[P].write_open > 0
       \/ /\ pipe'[P].blocked_reader = pipe[P].blocked_reader /\ W = {}
          /\ Used(pipe'[P]) = Used(pipe[P])
  /\ pipe'[P].blocked_writer # NULL =>
       \/ /\ pipe'[P].blocked_writer = p /\ pstate'[p] = "asleep" /\ kind = "PIPE_WRITE"
          /\ Space(pipe'[P]) = 0 /\ pipe'[P].read_open > 0
       \/ /\ pipe'[P].blocked_writer = pipe[P].blocked_writer /\ W = {}
          /\ Used(pipe'[P]) = Used(pipe[P])

LEMMA TurnStep ==
  ASSUME IInv, TypeOK', NEW p \in Procs, NEW P \in PipeIds,
         NEW kind \in {"PIPE_READ", "PIPE_WRITE"}, NEW W, Turn(p, P, kind, W)
  PROVE  IInv'
<1> USE DEF Turn
<1>0. /\ TypeOK /\ RefcountsExact /\ AllocatedIffUsed /\ Registrations /\ CallsHold
      /\ FreshUnlessAllocated /\ BytesInFlight /\ Living(p)
  BY DEF IInv, PipesAllocatedWhileUsed, AllocatedIffUsed, Living
<1>1. ASSUME NEW q \in Procs, q # p
      PROVE  /\ pstate'[q] = "asleep" <=> pstate[q] = "asleep" /\ q \notin W
             /\ pstate'[q] # pstate[q] => pstate[q] = "asleep" /\ pstate'[q] = "ready"
             /\ call'[q] = call[q]
  <2>1. /\ Woken(W)[q] = "asleep" <=> pstate[q] = "asleep" /\ q \notin W
        /\ Woken(W)[q] # pstate[q] => pstate[q] = "asleep" /\ Woken(W)[q] = "ready"
    BY <1>0, WokenFacts
  <2> QED BY <1>1, <2>1
<1>2. \A q \in Procs : Living(q)' <=> Living(q)
  BY <1>1 DEF Living
<1>3. \A k, o : Refs(k, o)' = Refs(k, o)
  BY <1>2, RefsUnchanged
<1>4. P \in allocated
  <2>1. PICK f \in Fds : f \in Ends(fds[p], kind, P)
    BY DEF Ends
  <2>2. <<p, f>> \in Refs(kind, P)
    BY <1>0, <2>1, RefsMember
  <2>3. Refs("PIPE_READ", P) \cup Refs("PIPE_WRITE", P) # {}
    BY <2>2
  <2> QED BY <1>0, <2>3 DEF AllocatedIffUsed
<1>5. RefcountsExact'
  <2>1. \A Q \in PipeIds : /\ pipe'[Q].read_open = pipe[Q].read_open
                           /\ pipe'[Q].write_open = pipe[Q].write_open
    OBVIOUS
  <2> QED BY <1>0, <1>3, <2>1 DEF RefcountsExact
<1>6. AllocatedIffUsed'
  BY <1>0, <1>3 DEF AllocatedIffUsed
<1>7. CallsHold'
  <2> SUFFICES ASSUME NEW q \in Procs
               PROVE  /\ pstate'[q] = "asleep" => call'[q].op # "none"
                      /\ call'[q].op # "none" => pstate'[q] \in {"ready", "asleep"}
                      /\ call'[q].op = "read" => Ends(fds[q], "PIPE_READ", call'[q].pipe) # {}
                      /\ call'[q].op = "write" => Ends(fds[q], "PIPE_WRITE", call'[q].pipe) # {}
    BY DEF CallsHold, Ends
  <2>1. CASE q = p
    BY <2>1 DEF NoCall
  <2>2. CASE q # p
    BY <1>0, <1>1, <2>2 DEF CallsHold
  <2> QED BY <2>1, <2>2
<1>8. FreshUnlessAllocated'
  BY <1>0, <1>4 DEF FreshUnlessAllocated, FreshPipe, Ring
<1>9. BytesInFlight'
  <2> SUFFICES ASSUME NEW Q \in PipeIds
               PROVE  RingHolds(pipe'[Q])
    BY DEF BytesInFlight, RingHolds, Used
  <2> QED BY <1>0 DEF BytesInFlight
<1>10. ASSUME NEW Q \in PipeIds, NEW r \in {pipe[Q].blocked_reader, pipe[Q].blocked_writer},
              r # NULL, r \in W => Q # P
       PROVE  r \in Procs /\ pstate'[r] = "asleep" /\ call'[r] = call[r]
  <2>1. r \in Procs
    BY <1>0, <1>10 DEF TypeOK, Pipe
  <2>2. pstate[r] = "asleep" /\ call[r].pipe = Q
    BY <1>0, <1>10 DEF Registrations
  <2>3. r # p
    BY <2>2
  <2>4. r \notin W
    <3> SUFFICES ASSUME r \in W PROVE FALSE
      OBVIOUS
    <3>1. r = pipe[P].blocked_reader \/ r = pipe[P].blocked_writer
      OBVIOUS
    <3>2. call[r].pipe = P
      BY <1>0, <1>10, <3>1 DEF Registrations
    <3> QED BY <1>10, <2>2, <3>2
  <2> QED BY <1>1, <2>1, <2>2, <2>3, <2>4
<1>11. Registrations'
  <2> SUFFICES ASSUME NEW Q \in PipeIds
               PROVE  /\ LET r == pipe'[Q].blocked_reader
                         IN r # NULL => /\ pstate'[r] = "asleep" /\ call'[r].op = "read" /\ call'[r].pipe = Q
                                        /\ Used(pipe'[Q]) = 0 /\ pipe'[Q].write_open > 0
                      /\ LET w == pipe'[Q].blocked_writer
                         IN w # NULL => /\ pstate'[w] = "asleep" /\ call'[w].op = "write" /\ call'[w].pipe = Q
                                        /\ Space(pipe'[Q]) = 0 /\ pipe'[Q].read_open > 0
    BY DEF Registrations, Used, Space
  <2>1. CASE Q # P
    <3>1. pipe'[Q] = pipe[Q]
      BY <2>1
    <3>2. LET r == pipe[Q].blocked_reader
          IN r # NULL => /\ pstate'[r] = "asleep" /\ call'[r].op = "read" /\ call'[r].pipe = Q
                         /\ Used(pipe[Q]) = 0 /\ pipe[Q].write_open > 0
      BY <1>0, <1>10, <2>1 DEF Registrations
    <3>3. LET w == pipe[Q].blocked_writer
          IN w # NULL => /\ pstate'[w] = "asleep" /\ call'[w].op = "write" /\ call'[w].pipe = Q
                         /\ Space(pipe[Q]) = 0 /\ pipe[Q].read_open > 0
      BY <1>0, <1>10, <2>1 DEF Registrations
    <3> QED BY <3>1, <3>2, <3>3
  <2>2. CASE Q = P
    <3>1. ASSUME pipe'[P].blocked_reader # NULL
          PROVE  LET r == pipe'[P].blocked_reader
                 IN /\ pstate'[r] = "asleep" /\ call'[r].op = "read" /\ call'[r].pipe = P
                    /\ Used(pipe'[P]) = 0 /\ pipe'[P].write_open > 0
      <4> DEFINE r == pipe'[P].blocked_reader
      <4>1. CASE /\ r = p /\ pstate'[p] = "asleep" /\ kind = "PIPE_READ"
                 /\ Used(pipe'[P]) = 0 /\ pipe'[P].write_open > 0
        BY <4>1
      <4>2. CASE /\ r = pipe[P].blocked_reader /\ W = {} /\ Used(pipe'[P]) = Used(pipe[P])
        <5>1. pstate'[r] = "asleep" /\ call'[r] = call[r]
          BY <1>10, <3>1, <4>2
        <5>2. call[r].op = "read" /\ call[r].pipe = P /\ Used(pipe[P]) = 0 /\ pipe[P].write_open > 0
          BY <1>0, <3>1, <4>2 DEF Registrations
        <5> QED BY <4>2, <5>1, <5>2
      <4> QED BY <3>1, <4>1, <4>2
    <3>2. ASSUME pipe'[P].blocked_writer # NULL
          PROVE  LET w == pipe'[P].blocked_writer
                 IN /\ pstate'[w] = "asleep" /\ call'[w].op = "write" /\ call'[w].pipe = P
                    /\ Space(pipe'[P]) = 0 /\ pipe'[P].read_open > 0
      <4> DEFINE w == pipe'[P].blocked_writer
      <4>1. CASE /\ w = p /\ pstate'[p] = "asleep" /\ kind = "PIPE_WRITE"
                 /\ Space(pipe'[P]) = 0 /\ pipe'[P].read_open > 0
        BY <4>1
      <4>2. CASE /\ w = pipe[P].blocked_writer /\ W = {} /\ Used(pipe'[P]) = Used(pipe[P])
        <5>1. pstate'[w] = "asleep" /\ call'[w] = call[w]
          BY <1>10, <3>2, <4>2
        <5>2. call[w].op = "write" /\ call[w].pipe = P /\ Space(pipe[P]) = 0 /\ pipe[P].read_open > 0
          BY <1>0, <3>2, <4>2 DEF Registrations
        <5>3. Space(pipe'[P]) = Space(pipe[P])
          BY <4>2 DEF Space
        <5> QED BY <4>2, <5>1, <5>2, <5>3
      <4> QED BY <3>2, <4>1, <4>2
    <3> QED BY <2>2, <3>1, <3>2
  <2> QED BY <2>1, <2>2
<1>12. PipesAllocatedWhileUsed'
  BY <1>6, <1>7, CallsAllocated
<1> QED BY <1>5, <1>7, <1>8, <1>9, <1>11, <1>12 DEF IInv

\* A write that leaves something over has filled the ring.
LEMMA WriteTurnFacts ==
  ASSUME NEW pp \in Pipe, RingHolds(pp), NEW data \in Seq(Bytes), NEW n, n = Min2(Space(pp), Len(data))
  PROVE  LET s == Stored(pp, data, n)
             rest == SubSeq(data, n + 1, Len(data))
         IN  /\ n \in Nat /\ n <= Space(pp) /\ n <= Len(data)
             /\ s \in Pipe
             /\ s.tail = pp.tail /\ s.read_open = pp.read_open /\ s.write_open = pp.write_open
             /\ s.blocked_reader = pp.blocked_reader /\ s.blocked_writer = pp.blocked_writer
             /\ Used(s) = Used(pp) + n /\ RingHolds(s)
             /\ rest \in Seq(Bytes)
             /\ rest # <<>> => Space(s) = 0
<1> DEFINE s == Stored(pp, data, n)
           rest == SubSeq(data, n + 1, Len(data))
<1>1. Space(pp) \in Nat /\ Len(data) \in Nat /\ Used(pp) \in Nat
  BY UsedFacts DEF Pipe
<1>2. n \in Nat /\ n <= Space(pp) /\ n <= Len(data) /\ (n = Space(pp) \/ n = Len(data))
  BY <1>1 DEF Min2
<1>3. /\ s \in Pipe
      /\ s.tail = pp.tail /\ s.read_open = pp.read_open /\ s.write_open = pp.write_open
      /\ s.blocked_reader = pp.blocked_reader /\ s.blocked_writer = pp.blocked_writer
      /\ Used(s) = Used(pp) + n
      /\ \A i \in 0..(Used(pp) - 1) :
            s.buf[(pp.tail + i) % PIPE_BUF_SIZE] = pp.buf[(pp.tail + i) % PIPE_BUF_SIZE]
      /\ \A i \in 0..(n - 1) :
            s.buf[(pp.tail + (Used(pp) + i)) % PIPE_BUF_SIZE] = data[i + 1]
  <2>1. s = Stored(pp, data, n)
    OBVIOUS
  <2> HIDE DEF s
  <2> QED BY <1>2, <2>1, StoredFacts
<1> HIDE DEF s
<1>4. s.tail = pp.tail
  BY <1>3
<1>5. RingHolds(s)
  <2> DEFINE u == Used(pp)
  <2>u. u \in Nat
    BY <1>1
  <2> SUFFICES ASSUME NEW i \in 0..(u + n - 1)
               PROVE  s.buf[(pp.tail + i) % PIPE_BUF_SIZE] \in Bytes
    <3>0. Used(s) = u + n
      BY <1>3
    <3> HIDE DEF u
    <3>1. Used(s) - 1 = u + n - 1
      BY <1>2, <2>u, <3>0
    <3> QED BY <1>4, <3>1 DEF RingHolds
  <2>1. CASE i < u
    <3>1. i \in 0..(u - 1)
      <4> HIDE DEF u
      <4> QED BY <1>2, <2>u, <2>1
    <3> QED BY <1>3, <3>1 DEF RingHolds
  <2>2. CASE i >= u
    <3> DEFINE j == i - u
    <3>1. j \in 0..(n - 1) /\ u + j = i /\ j + 1 \in 1..Len(data)
      <4> HIDE DEF u
      <4> QED BY <1>1, <1>2, <2>u, <2>2
    <3> HIDE DEF j
    <3>2. s.buf[(pp.tail + (u + j)) % PIPE_BUF_SIZE] = data[j + 1]
      BY <1>3, <3>1
    <3>3. data[j + 1] \in Bytes
      BY <3>1
    <3> HIDE DEF u
    <3> QED BY <3>1, <3>2, <3>3
  <2> HIDE DEF u
  <2> QED BY <1>2, <2>u, <2>1, <2>2
<1>6. rest \in Seq(Bytes)
  <2>1. \A i \in (n + 1)..Len(data) : data[i] \in Bytes
    BY <1>1, <1>2
  <2> QED BY <1>1, <1>2, <2>1, SubSeqProperties
<1>7. rest # <<>> => Space(s) = 0
  <2>1. n = Len(data) => rest = <<>>
    BY <1>1, <1>2, SubSeqEmpty
  <2>2. n = Space(pp) => Space(s) = 0
    <3> DEFINE u == Used(pp)
               v == Used(s)
    <3>1. v = u + n /\ u \in Nat /\ PIPE_BUF_SIZE \in Nat
      BY <1>1, <1>3, PipesAssumption
    <3> HIDE DEF u, v
    <3>2. n = PIPE_BUF_SIZE - 1 - u => PIPE_BUF_SIZE - 1 - v = 0
      BY <1>2, <3>1
    <3> QED BY <3>2 DEF u, v, Space
  <2> QED BY <1>2, <2>1, <2>2
<1> QED BY <1>2, <1>3, <1>5, <1>6, <1>7 DEF s

LEMMA WriteInv ==
  ASSUME IInv, NEW p \in Procs, NEW P \in PipeIds, NEW data \in Seq(Bytes), pstate[p] = "ready",
         Ends(fds[p], "PIPE_WRITE", P) # {}, WriteTurn(p, P, data)
  PROVE  IInv'
<1> DEFINE n == Min2(Space(pipe[P]), Len(data))
           s == Stored(pipe[P], data, n)
           rest == SubSeq(data, n + 1, Len(data))
           W == IF n > 0 THEN {pipe[P].blocked_reader} ELSE {}
           pp == [s EXCEPT !.blocked_reader = IF n > 0 THEN NULL ELSE @]
           qq == [pp EXCEPT !.blocked_writer = p]
           cc == [op |-> "write", pipe |-> P, data |-> rest]
<1>0. TypeOK /\ Registrations /\ BytesInFlight /\ pipe[P] \in Pipe
  BY DEF IInv, TypeOK
<1>1. /\ n \in Nat /\ n <= Space(pipe[P])
      /\ s \in Pipe
      /\ s.tail = pipe[P].tail /\ s.read_open = pipe[P].read_open /\ s.write_open = pipe[P].write_open
      /\ s.blocked_reader = pipe[P].blocked_reader /\ s.blocked_writer = pipe[P].blocked_writer
      /\ Used(s) = Used(pipe[P]) + n /\ RingHolds(s)
      /\ rest \in Seq(Bytes)
      /\ rest # <<>> => Space(s) = 0
  <2>1. RingHolds(pipe[P])
    BY <1>0 DEF BytesInFlight
  <2> QED BY <1>0, <2>1, WriteTurnFacts
<1>2. /\ \/ /\ rest = <<>> \/ pp.read_open = 0
            /\ pipe' = [pipe EXCEPT ![P] = pp]
            /\ call' = [call EXCEPT ![p] = NoCall]
            /\ pstate' = Woken(W)
         \/ /\ rest # <<>> /\ pp.read_open # 0
            /\ pipe' = [pipe EXCEPT ![P] = qq]
            /\ call' = [call EXCEPT ![p] = cc]
            /\ pstate' = [Woken(W) EXCEPT ![p] = "asleep"]
      /\ delivered' = <<>> /\ fds' = fds /\ allocated' = allocated /\ refcount' = refcount /\ len' = len
  BY DEF WriteTurn, NothingRead
<1>3. /\ s.read_open = pipe[P].read_open /\ s.write_open = pipe[P].write_open
      /\ s.blocked_reader = pipe[P].blocked_reader /\ s.blocked_writer = pipe[P].blocked_writer
      /\ s.tail = pipe[P].tail
  BY <1>1
<1> HIDE DEF n, s, rest
<1>4. /\ pp \in Pipe /\ pp.buf = s.buf /\ pp.head = s.head /\ pp.tail = s.tail
      /\ pp.read_open = s.read_open /\ pp.write_open = s.write_open
      /\ pp.blocked_reader = (IF n > 0 THEN NULL ELSE s.blocked_reader)
      /\ pp.blocked_writer = s.blocked_writer
  BY <1>1 DEF Pipe
<1> HIDE DEF pp
<1>5. /\ qq \in Pipe /\ qq.buf = pp.buf /\ qq.head = pp.head /\ qq.tail = pp.tail
      /\ qq.read_open = pp.read_open /\ qq.write_open = pp.write_open
      /\ qq.blocked_reader = pp.blocked_reader /\ qq.blocked_writer = p
  BY <1>4 DEF Pipe
<1> HIDE DEF qq
<1>6. /\ Used(pp) = Used(s) /\ Space(pp) = Space(s) /\ RingHolds(pp)
      /\ Used(qq) = Used(s) /\ Space(qq) = Space(s) /\ RingHolds(qq)
  BY <1>1, <1>4, <1>5, RingKept
<1>7. cc \in Call /\ NoCall \in Call /\ cc.op = "write" /\ cc.pipe = P
  BY <1>1 DEF Call, NoCall
<1> HIDE DEF cc
<1>8. /\ Woken(W) \in [Procs -> {"unborn", "ready", "asleep", "dead", "gone"}]
      /\ Woken(W)[p] = "ready"
  BY <1>0 DEF TypeOK, Woken
<1>9. TypeOK'
  <2>1. pipe' \in [PipeIds -> Pipe]
    BY <1>0, <1>2, <1>4, <1>5 DEF TypeOK
  <2>2. call' \in [Procs -> Call]
    BY <1>0, <1>2, <1>7 DEF TypeOK
  <2>3. pstate' \in [Procs -> {"unborn", "ready", "asleep", "dead", "gone"}]
    <3> HIDE DEF W
    <3> QED BY <1>2, <1>8
  <2> QED BY <1>0, <1>2, <2>1, <2>2, <2>3 DEF TypeOK
<1>10. pipe[P].blocked_writer # NULL => n = 0
  <2>1. pipe[P].blocked_writer # NULL => Space(pipe[P]) = 0
    BY <1>0 DEF Registrations
  <2> QED BY <1>1, <2>1
<1>11. n = 0 => Used(s) = Used(pipe[P]) /\ W = {}
  <2>1. Used(pipe[P]) \in Nat
    BY <1>0, UsedFacts DEF Pipe
  <2>2. n = 0 => Used(s) = Used(pipe[P]) + 0
    BY <1>1
  <2> QED BY <1>1, <2>1, <2>2
<1>12. \A q \in W : q = pipe[P].blocked_reader \/ q = pipe[P].blocked_writer
  OBVIOUS
<1>13. "PIPE_WRITE" \in {"PIPE_READ", "PIPE_WRITE"} /\ pp.read_open \in Nat
  BY <1>4 DEF Pipe
<1> HIDE DEF W
<1>14. /\ \A q \in Procs : q # p => call'[q] = call[q] /\ pstate'[q] = Woken(W)[q]
       /\ \A Q \in PipeIds : Q # P => pipe'[Q] = pipe[Q]
  BY <1>0, <1>2, <1>8 DEF TypeOK
<1>15. CASE /\ pipe' = [pipe EXCEPT ![P] = pp]
            /\ call' = [call EXCEPT ![p] = NoCall]
            /\ pstate' = Woken(W)
  <2>1. pipe'[P] = pp /\ call'[p] = NoCall /\ pstate'[p] = "ready"
    BY <1>0, <1>8, <1>15 DEF TypeOK
  <2>2. pp.blocked_reader # NULL => /\ pp.blocked_reader = pipe[P].blocked_reader /\ W = {}
                                    /\ Used(pp) = Used(pipe[P])
    BY <1>1, <1>3, <1>4, <1>6, <1>11
  <2>3. pp.blocked_writer # NULL => /\ pp.blocked_writer = pipe[P].blocked_writer /\ W = {}
                                    /\ Used(pp) = Used(pipe[P])
    BY <1>3, <1>4, <1>6, <1>10, <1>11
  <2>4. /\ pipe'[P].read_open = pipe[P].read_open /\ pipe'[P].write_open = pipe[P].write_open
        /\ RingHolds(pipe'[P])
        /\ pipe'[P].blocked_reader # NULL =>
             /\ pipe'[P].blocked_reader = pipe[P].blocked_reader /\ W = {}
             /\ Used(pipe'[P]) = Used(pipe[P])
        /\ pipe'[P].blocked_writer # NULL =>
             /\ pipe'[P].blocked_writer = pipe[P].blocked_writer /\ W = {}
             /\ Used(pipe'[P]) = Used(pipe[P])
    BY <1>3, <1>4, <1>6, <2>1, <2>2, <2>3
  <2>5. Turn(p, P, "PIPE_WRITE", W)
    BY <1>2, <1>12, <1>14, <2>1, <2>4 DEF Turn
  <2> QED BY <1>9, <1>13, <2>5, TurnStep
<1>16. CASE /\ rest # <<>> /\ pp.read_open # 0
            /\ pipe' = [pipe EXCEPT ![P] = qq]
            /\ call' = [call EXCEPT ![p] = cc]
            /\ pstate' = [Woken(W) EXCEPT ![p] = "asleep"]
  <2>1. pipe'[P] = qq /\ call'[p] = cc /\ pstate'[p] = "asleep"
    BY <1>0, <1>8, <1>16 DEF TypeOK
  <2>2. qq.blocked_reader # NULL => /\ qq.blocked_reader = pipe[P].blocked_reader /\ W = {}
                                    /\ Used(qq) = Used(pipe[P])
    BY <1>1, <1>3, <1>4, <1>5, <1>6, <1>11
  <2>3. qq.blocked_writer = p /\ Space(qq) = 0 /\ qq.read_open > 0
    BY <1>1, <1>5, <1>6, <1>13, <1>16
  <2>4. /\ pipe'[P].read_open = pipe[P].read_open /\ pipe'[P].write_open = pipe[P].write_open
        /\ RingHolds(pipe'[P])
        /\ pipe'[P].blocked_reader # NULL =>
             /\ pipe'[P].blocked_reader = pipe[P].blocked_reader /\ W = {}
             /\ Used(pipe'[P]) = Used(pipe[P])
        /\ pipe'[P].blocked_writer = p /\ Space(pipe'[P]) = 0 /\ pipe'[P].read_open > 0
    BY <1>3, <1>4, <1>5, <1>6, <2>1, <2>2, <2>3
  <2>5. call'[p].pipe = P /\ call'[p].op = "write"
    BY <1>7, <2>1
  <2>6. Turn(p, P, "PIPE_WRITE", W)
    BY <1>2, <1>12, <1>14, <2>1, <2>4, <2>5 DEF Turn
  <2> QED BY <1>9, <1>13, <2>6, TurnStep
<1> QED BY <1>2, <1>15, <1>16

\* What a read finds in the ring, and what it leaves there.
LEMMA ReadTurnFacts ==
  ASSUME NEW pp \in Pipe, RingHolds(pp), NEW got \in Nat, got <= Used(pp), NEW qq,
         qq.head = pp.head, qq.buf = pp.buf, qq.tail = (pp.tail + got) % PIPE_BUF_SIZE
  PROVE  /\ qq.tail \in Ring /\ RingHolds(qq)
         /\ Taken(pp, got) \in Seq(Bytes)
<1> DEFINE u == Used(pp)
<1>0. u \in Nat /\ got <= u
  BY UsedFacts DEF Pipe
<1>1. /\ qq.tail \in Ring /\ Used(qq) = u - got
      /\ \A i \in 0..(u - got - 1) :
           (qq.tail + i) % PIPE_BUF_SIZE = (pp.tail + (got + i)) % PIPE_BUF_SIZE
  BY TakenFacts
<1>2. \A i \in 0..(u - 1) : pp.buf[(pp.tail + i) % PIPE_BUF_SIZE] \in Bytes
  BY DEF RingHolds
<1>3. RingHolds(qq)
  <2> SUFFICES ASSUME NEW i \in 0..(Used(qq) - 1)
               PROVE  qq.buf[(qq.tail + i) % PIPE_BUF_SIZE] \in Bytes
    BY DEF RingHolds
  <2> HIDE DEF u
  <2>1. i \in 0..(u - got - 1)
    BY <1>1
  <2>2. got + i \in 0..(u - 1)
    BY <1>0, <2>1
  <2> QED BY <1>1, <1>2, <2>1, <2>2
<1>4. Taken(pp, got) \in Seq(Bytes)
  <2>1. ASSUME NEW i \in 1..got
        PROVE  pp.buf[(pp.tail + i - 1) % PIPE_BUF_SIZE] \in Bytes
    <3> HIDE DEF u
    <3>1. i - 1 \in 0..(u - 1)
      BY <1>0
    <3>2. pp.tail + (i - 1) = pp.tail + i - 1
      BY DEF Pipe, Ring
    <3> QED BY <1>2, <3>1, <3>2
  <2>2. Taken(pp, got) \in [1..got -> Bytes]
    BY <2>1 DEF Taken
  <2> QED BY <2>2, SeqDef
<1> QED BY <1>1, <1>3, <1>4

LEMMA ReadInv ==
  ASSUME IInv, NEW p \in Procs, NEW P \in PipeIds, NEW n \in Nat \ {0}, pstate[p] = "ready",
         Ends(fds[p], "PIPE_READ", P) # {}, ReadTurn(p, P, n)
  PROVE  IInv'
<1> DEFINE pp == pipe[P]
           got == Min2(Used(pp), n)
           qq == [pp EXCEPT !.tail = (@ + got) % PIPE_BUF_SIZE, !.blocked_writer = NULL]
           ss == [pp EXCEPT !.blocked_reader = p]
           cc == [op |-> "read", pipe |-> P, data |-> <<>>]
<1>0. TypeOK /\ Registrations /\ BytesInFlight /\ pp \in Pipe /\ RingHolds(pp)
  BY DEF IInv, TypeOK, BytesInFlight
<1>1. /\ fds' = fds /\ allocated' = allocated /\ refcount' = refcount /\ len' = len
      /\ \/ /\ got > 0 /\ pipe' = [pipe EXCEPT ![P] = qq]
            /\ call' = [call EXCEPT ![p] = NoCall]
            /\ pstate' = Woken({pp.blocked_writer})
            /\ delivered' = Taken(pp, got)
         \/ /\ ~(got > 0) /\ pp.write_open = 0
            /\ call' = [call EXCEPT ![p] = NoCall]
            /\ delivered' = <<>> /\ pipe' = pipe /\ pstate' = pstate
         \/ /\ ~(got > 0) /\ pp.write_open # 0
            /\ pipe' = [pipe EXCEPT ![P] = ss]
            /\ call' = [call EXCEPT ![p] = cc]
            /\ pstate' = [pstate EXCEPT ![p] = "asleep"]
            /\ delivered' = <<>>
  BY DEF ReadTurn, NothingRead
<1>2. Used(pp) \in Nat /\ got \in Nat /\ got <= Used(pp) /\ (got = 0 <=> Used(pp) = 0)
  <2>1. Used(pp) \in Nat
    BY <1>0, UsedFacts DEF Pipe
  <2> QED BY <2>1 DEF Min2
<1>3. NoCall \in Call /\ cc \in Call /\ cc.op = "read" /\ cc.pipe = P
  BY DEF NoCall, Call
<1>k. "PIPE_READ" \in {"PIPE_READ", "PIPE_WRITE"}
  OBVIOUS
<1> HIDE DEF got
<1>4. CASE /\ got > 0 /\ pipe' = [pipe EXCEPT ![P] = qq]
           /\ call' = [call EXCEPT ![p] = NoCall]
           /\ pstate' = Woken({pp.blocked_writer})
           /\ delivered' = Taken(pp, got)
  <2> DEFINE W == {pp.blocked_writer}
  <2>1. /\ qq.head = pp.head /\ qq.buf = pp.buf /\ qq.tail = (pp.tail + got) % PIPE_BUF_SIZE
        /\ qq.read_open = pp.read_open /\ qq.write_open = pp.write_open
        /\ qq.blocked_reader = pp.blocked_reader /\ qq.blocked_writer = NULL
    BY <1>0 DEF Pipe
  <2>2. qq.tail \in Ring /\ RingHolds(qq) /\ Taken(pp, got) \in Seq(Bytes)
    <3> HIDE DEF qq
    <3> QED BY <1>0, <1>2, <2>1, ReadTurnFacts
  <2>3. qq \in Pipe
    BY <1>0, <2>1, <2>2 DEF Pipe
  <2>4. /\ Woken(W) \in [Procs -> {"unborn", "ready", "asleep", "dead", "gone"}]
        /\ Woken(W)[p] = "ready" /\ pstate' = Woken(W)
    BY <1>0, <1>4 DEF TypeOK, Woken
  <2> HIDE DEF qq, W
  <2>5. pipe' \in [PipeIds -> Pipe] /\ pipe'[P] = qq /\ \A Q \in PipeIds : Q # P => pipe'[Q] = pipe[Q]
    BY <1>0, <1>4, <2>3 DEF TypeOK
  <2>6. call' \in [Procs -> Call] /\ call'[p] = NoCall /\ \A q \in Procs : q # p => call'[q] = call[q]
    BY <1>0, <1>3, <1>4 DEF TypeOK
  <2>7. TypeOK'
    BY <1>0, <1>1, <1>4, <2>2, <2>4, <2>5, <2>6 DEF TypeOK
  <2>8. pp.blocked_reader = NULL
    BY <1>0, <1>2, <1>4 DEF Registrations
  <2>9. \A q \in W : q = pp.blocked_reader \/ q = pp.blocked_writer
    BY DEF W
  <2>10. Turn(p, P, "PIPE_READ", W)
    BY <1>1, <2>1, <2>2, <2>4, <2>5, <2>6, <2>8, <2>9 DEF Turn
  <2> QED BY <1>k, <2>7, <2>10, TurnStep
<1>5. ASSUME pstate' \in [Procs -> {"unborn", "ready", "asleep", "dead", "gone"}],
             \A q \in Procs : q # p => pstate'[q] = pstate[q]
      PROVE  \A q \in Procs : q # p => pstate'[q] = Woken({})[q]
  BY <1>5 DEF Woken
<1>6. CASE /\ ~(got > 0) /\ pp.write_open = 0
           /\ call' = [call EXCEPT ![p] = NoCall]
           /\ delivered' = <<>> /\ pipe' = pipe /\ pstate' = pstate
  <2>1. call' \in [Procs -> Call] /\ call'[p] = NoCall /\ \A q \in Procs : q # p => call'[q] = call[q]
    BY <1>0, <1>3, <1>6 DEF TypeOK
  <2>2. TypeOK'
    BY <1>0, <1>1, <1>6, <2>1 DEF TypeOK
  <2>3. \A q \in Procs : q # p => pstate'[q] = Woken({})[q]
    BY <1>5, <1>6, <2>2 DEF TypeOK
  <2>4. Turn(p, P, "PIPE_READ", {})
    BY <1>0, <1>1, <1>6, <2>1, <2>3 DEF Turn
  <2> QED BY <1>k, <2>2, <2>4, TurnStep
<1>7. CASE /\ ~(got > 0) /\ pp.write_open # 0
           /\ pipe' = [pipe EXCEPT ![P] = ss]
           /\ call' = [call EXCEPT ![p] = cc]
           /\ pstate' = [pstate EXCEPT ![p] = "asleep"]
           /\ delivered' = <<>>
  <2>1. /\ ss.head = pp.head /\ ss.buf = pp.buf /\ ss.tail = pp.tail
        /\ ss.read_open = pp.read_open /\ ss.write_open = pp.write_open
        /\ ss.blocked_reader = p /\ ss.blocked_writer = pp.blocked_writer /\ ss \in Pipe
    BY <1>0 DEF Pipe
  <2> HIDE DEF ss, cc
  <2>2. Used(ss) = Used(pp) /\ RingHolds(ss)
    BY <1>0, <2>1, RingKept
  <2>3. Used(ss) = 0 /\ ss.write_open > 0
    <3>1. pp.write_open \in Nat
      BY <1>0 DEF Pipe
    <3> QED BY <1>2, <1>7, <2>1, <2>2, <3>1
  <2>4. pipe' \in [PipeIds -> Pipe] /\ pipe'[P] = ss /\ \A Q \in PipeIds : Q # P => pipe'[Q] = pipe[Q]
    BY <1>0, <1>7, <2>1 DEF TypeOK
  <2>5. call' \in [Procs -> Call] /\ call'[p] = cc /\ \A q \in Procs : q # p => call'[q] = call[q]
    BY <1>0, <1>3, <1>7 DEF TypeOK
  <2>6. /\ pstate' \in [Procs -> {"unborn", "ready", "asleep", "dead", "gone"}]
        /\ \A q \in Procs : q # p => pstate'[q] = pstate[q]
        /\ pstate'[p] = "asleep"
    BY <1>0, <1>7 DEF TypeOK
  <2>7. TypeOK'
    BY <1>0, <1>1, <1>7, <2>4, <2>5, <2>6 DEF TypeOK
  <2>8. \A q \in Procs : q # p => pstate'[q] = Woken({})[q]
    BY <1>5, <2>6
  <2>9. Turn(p, P, "PIPE_READ", {})
    BY <1>1, <1>3, <2>1, <2>2, <2>3, <2>4, <2>5, <2>6, <2>8 DEF Turn
  <2> QED BY <1>k, <2>7, <2>9, TurnStep
<1> QED BY <1>1, <1>4, <1>6, <1>7
-----------------------------------------------------------------------------
LEMMA InitInv == Init => IInv
<1> SUFFICES ASSUME Init PROVE IInv
  OBVIOUS
<1>1. PICK p \in Procs : pstate = [q \in Procs |-> IF q = p THEN "ready" ELSE "unborn"]
  BY DEF Init
<1>2. \A q \in Procs : /\ call[q] = NoCall /\ fds[q] = StdFds /\ pstate[q] \in {"ready", "unborn"}
  BY <1>1 DEF Init
<1>3. \A P \in PipeIds : pipe[P] = FreshPipe(0)
  BY DEF Init
<1>4. StdFds \in [Fds -> Desc] /\ NoCall \in Call /\ NoCall.op = "none" /\ <<>> \in Seq(Bytes)
  BY DEF StdFds, Desc, Plain, Closed, NoCall, Call
<1>5. TypeOK
  <2>1. pipe \in [PipeIds -> Pipe]
    BY FreshFacts DEF Init
  <2>2. len \in [WbufIds -> 0..WBUF_CAP] /\ refcount \in [WbufIds -> Nat]
    BY PipesAssumption DEF Init
  <2> QED BY <1>1, <1>4, <2>1, <2>2 DEF Init, TypeOK
<1>6. \A o : \A k \in Shared : Refs(k, o) = {}
  <2> TAKE o
  <2> TAKE k \in Shared
  <2>1. \A f \in Fds : StdFds[f].kind # k
    BY DEF StdFds, Plain, Closed, Shared
  <2> QED BY <1>2, <2>1 DEF Refs
<1>7. RefcountsExact
  <2>1. \A P \in PipeIds : pipe[P].read_open = 0 /\ pipe[P].write_open = 0
    BY <1>3, FreshFacts
  <2>2. \A w \in WbufIds : refcount[w] = 0
    BY DEF Init
  <2> QED BY <1>6, <2>1, <2>2, FS_EmptySet DEF RefcountsExact, Shared
<1>8. PipesAllocatedWhileUsed
  BY <1>2, <1>4, <1>6 DEF PipesAllocatedWhileUsed, Init, Shared
<1>9. Registrations
  BY <1>3, FreshFacts DEF Registrations
<1>10. CallsHold
  BY <1>2, <1>4 DEF CallsHold
<1>11. FreshUnlessAllocated /\ BytesInFlight
  BY <1>3, FreshFacts DEF FreshUnlessAllocated, BytesInFlight
<1> QED BY <1>5, <1>7, <1>8, <1>9, <1>10, <1>11 DEF IInv

\* The process that a call goes on in holds its descriptor; a call starts on
\* the descriptor that it is given.
LEMMA ProcessStep ==
  ASSUME IInv, NEW p \in Procs, ProcessNext(p)
  PROVE  IInv'
<1>0. TypeOK /\ CallsHold
  BY DEF IInv
<1>1. CASE sys_pipe(p)
  BY <1>1, PipeInv
<1>2. CASE sys_open(p)
  BY <1>2, OpenInv
<1>3. ASSUME NEW f \in Fds, sys_close(p, f)
      PROVE  IInv'
  <2>1. /\ pstate[p] \in {"ready", "dead"} /\ call[p].op = "none" /\ CloseSlots(p, {f})
        /\ pstate' = Woken(Peers(fds[p], {f})) /\ {f} \in SUBSET Fds
    BY <1>3 DEF sys_close, InUserMode, NoCall
  <2> QED BY <2>1, CloseInv
<1>4. ASSUME NEW f \in Fds, sys_write_fd(p, f)
      PROVE  IInv'
  <2> DEFINE d == fds[p][f]
  <2>0. pstate[p] = "ready" /\ d \in Desc
    BY <1>0, <1>4 DEF sys_write_fd, InUserMode, TypeOK
  <2>1. CASE d.kind = "PIPE_WRITE"
    <3>1. PICK n \in 1..MaxWrite : \E data \in [1..n -> Bytes] : WriteTurn(p, d.obj, data)
      BY <1>4, <2>1 DEF sys_write_fd
    <3>2. PICK data \in [1..n -> Bytes] : WriteTurn(p, d.obj, data)
      BY <3>1
    <3>3. data \in Seq(Bytes)
      BY SeqDef
    <3>4. d.obj \in PipeIds /\ Ends(fds[p], "PIPE_WRITE", d.obj) # {}
      BY <2>0, <2>1 DEF Desc, Ends
    <3> QED BY <2>0, <3>2, <3>3, <3>4, WriteInv
  <2>2. CASE d.kind # "PIPE_WRITE"
    <3>1. /\ d.kind = "WFILE" /\ NothingRead /\ UNCHANGED <<pstate, call, fds, allocated, pipe, refcount>>
          /\ \E n \in 1..MaxWrite : len' = [len EXCEPT ![d.obj] = wbuf_write(@, n)]
      BY <1>4, <2>2 DEF sys_write_fd
    <3>2. PICK n \in 1..MaxWrite : len' = [len EXCEPT ![d.obj] = wbuf_write(@, n)]
      BY <3>1
    <3>3. n \in Nat
      OBVIOUS
    <3> QED BY <3>1, <3>2, <3>3, WbufWriteInv
  <2> QED BY <2>1, <2>2
<1>5. ASSUME NEW f \in Fds, sys_read_fd(p, f)
      PROVE  IInv'
  <2> DEFINE d == fds[p][f]
  <2>0. pstate[p] = "ready" /\ d \in Desc /\ d.kind = "PIPE_READ"
    BY <1>0, <1>5 DEF sys_read_fd, InUserMode, TypeOK
  <2>1. PICK n \in 1..(PIPE_BUF_SIZE - 1) : ReadTurn(p, d.obj, n)
    BY <1>5 DEF sys_read_fd
  <2>2. d.obj \in PipeIds /\ Ends(fds[p], "PIPE_READ", d.obj) # {} /\ n \in Nat \ {0}
    BY <2>0, PipesAssumption DEF Desc, Ends
  <2> QED BY <2>0, <2>1, <2>2, ReadInv
<1>6. ASSUME NEW f \in Fds, NEW g \in Fds, sys_dup2(p, f, g)
      PROVE  IInv'
  BY <1>6, Dup2Inv
<1>7. ASSUME NEW child \in Procs, sys_fork(p, child)
      PROVE  IInv'
  BY <1>7, ForkInv
<1>8. CASE ForkFails(p)
  BY <1>8, ForkFailsInv
<1>9. CASE Exit(p) \/ Reap(p)
  <2>1. pstate[p] \in {"ready", "dead"} /\ call[p].op = "none"
    BY <1>0, <1>9 DEF Exit, Reap, InUserMode, NoCall, CallsHold
  <2>2. /\ CloseSlots(p, Fds) /\ pstate' = [Woken(Peers(fds[p], Fds)) EXCEPT ![p] = "gone"]
        /\ Fds \in SUBSET Fds
    BY <1>9 DEF Exit, Reap
  <2> QED BY <2>1, <2>2, CloseInv
<1>10. CASE Kill(p)
  BY <1>10, KillInv
<1>11. CASE ResumeWrite(p)
  <2>1. /\ pstate[p] = "ready" /\ call[p].op = "write"
        /\ WriteTurn(p, call[p].pipe, call[p].data)
    BY <1>11 DEF ResumeWrite
  <2>2. /\ call[p].pipe \in PipeIds /\ call[p].data \in Seq(Bytes)
        /\ Ends(fds[p], "PIPE_WRITE", call[p].pipe) # {}
    BY <1>0, <2>1 DEF TypeOK, Call, CallsHold
  <2> QED BY <2>1, <2>2, WriteInv
<1>12. CASE ResumeRead(p)
  <2>1. pstate[p] = "ready" /\ call[p].op = "read"
    BY <1>12 DEF ResumeRead
  <2>2. PICK n \in 1..(PIPE_BUF_SIZE - 1) : ReadTurn(p, call[p].pipe, n)
    BY <1>12 DEF ResumeRead
  <2>3. /\ call[p].pipe \in PipeIds /\ n \in Nat \ {0}
        /\ Ends(fds[p], "PIPE_READ", call[p].pipe) # {}
    BY <1>0, <2>1, PipesAssumption DEF TypeOK, Call, CallsHold
  <2> QED BY <2>1, <2>2, <2>3, ReadInv
<1> QED BY <1>1, <1>2, <1>3, <1>4, <1>5, <1>6, <1>7, <1>8, <1>9, <1>10, <1>11, <1>12
        DEF ProcessNext

\* The inductive invariant holds in every reachable state: each of the
\* system calls of the descriptor table, each turn of a pipe's read and write
\* loops, and kill, exit and reaping preserve it.
THEOREM Invariance == Spec => []IInv
<1>1. IInv /\ [Next]_vars => IInv'
  <2> SUFFICES ASSUME IInv, [Next]_vars PROVE IInv'
    OBVIOUS
  <2>1. CASE Next
    BY <2>1, ProcessStep DEF Next
  <2>2. CASE UNCHANGED vars
    <3>1. /\ pstate' = pstate /\ call' = call /\ fds' = fds /\ allocated' = allocated
          /\ pipe' = pipe /\ refcount' = refcount /\ len' = len /\ delivered' = delivered
      BY <2>2 DEF vars
    <3>r. \A k, o : Refs(k, o)' = Refs(k, o)
      BY <3>1 DEF Refs
    <3>t. TypeOK'
      BY <3>1 DEF IInv, TypeOK
    <3>2. RefcountsExact' /\ PipesAllocatedWhileUsed'
      BY <3>1, <3>r DEF IInv, RefcountsExact, PipesAllocatedWhileUsed
    <3>3. Registrations' /\ CallsHold'
      BY <3>1 DEF IInv, Registrations, CallsHold, Used, Space, Ends
    <3>4. FreshUnlessAllocated' /\ BytesInFlight'
      BY <3>1 DEF IInv, FreshUnlessAllocated, BytesInFlight, RingHolds, Used, FreshPipe, Ring
    <3> QED BY <3>t, <3>2, <3>3, <3>4 DEF IInv
  <2> QED BY <2>1, <2>2
<1> QED BY InitInv, <1>1, PTL DEF Spec

\* No reference count and no ring index ever leaves its range: the counts that
\* close, dup2 and the reaper decrement never go below zero.
THEOREM TypeCorrect == Spec => []TypeOK
<1>1. IInv => TypeOK
  BY DEF IInv
<1> QED BY Invariance, <1>1, PTL

\* read_open, write_open and the refcount of a write buffer are exactly the
\* numbers of open descriptors, for any number of processes, pipes and slots.
THEOREM CountsExact == Spec => []RefcountsExact
<1>1. IInv => RefcountsExact
  BY DEF IInv
<1> QED BY Invariance, <1>1, PTL

\* pipe_destroy frees a pipe when its last descriptor goes and not before; no
\* call in progress is left with a freed pipe.
THEOREM NoDanglingPipe == Spec => []PipesAllocatedWhileUsed
<1>1. IInv => PipesAllocatedWhileUsed
  BY DEF IInv
<1> QED BY Invariance, <1>1, PTL

(* No step takes a registration away and leaves the process asleep. *)

\* Nobody falls asleep, and who stays asleep keeps its place.
LEMMA PlacesKept ==
  ASSUME \A q \in Procs : pstate'[q] = "asleep" => pstate[q] = "asleep",
         \A P \in PipeIds : \A q \in Procs :
           pstate'[q] = "asleep" =>
             /\ pipe[P].blocked_reader = q => pipe'[P].blocked_reader = q
             /\ pipe[P].blocked_writer = q => pipe'[P].blocked_writer = q
  PROVE  SleepersKept
BY DEF SleepersKept, Registered

\* Closing the slots F of table t, on the pipes pp: who is not woken keeps its
\* place, because a pipe on which somebody sleeps loses its last end only by a
\* close that wakes the sleeper.
LEMMA ClosedKeeps ==
  ASSUME IInv, NEW pp \in [PipeIds -> Pipe], NEW t, NEW F \in SUBSET Fds, NEW P \in PipeIds,
         EndCount(t, "PIPE_READ", P, F) <= pp[P].read_open,
         EndCount(t, "PIPE_WRITE", P, F) <= pp[P].write_open,
         pp[P].blocked_reader = pipe[P].blocked_reader,
         pp[P].blocked_writer = pipe[P].blocked_writer,
         pp[P].read_open >= pipe[P].read_open, pp[P].write_open >= pipe[P].write_open,
         NEW q \in Procs, q \notin Peers(t, F)
  PROVE  /\ pipe[P].blocked_reader = q => PipesClosed(pp, t, F)[P].blocked_reader = q
         /\ pipe[P].blocked_writer = q => PipesClosed(pp, t, F)[P].blocked_writer = q
<1> DEFINE cr == EndCount(t, "PIPE_READ", P, F)
           cw == EndCount(t, "PIPE_WRITE", P, F)
           c == PipesClosed(pp, t, F)[P]
<1>0. /\ cr \in Nat /\ (P \in Holding(t, F, "PIPE_READ") <=> cr > 0)
      /\ cw \in Nat /\ (P \in Holding(t, F, "PIPE_WRITE") <=> cw > 0)
  BY EndCountFacts
<1>1. /\ P \in Orphaned(pp, t, F) <=>
           (cr > 0 \/ cw > 0) /\ cr = pp[P].read_open /\ cw = pp[P].write_open
      /\ P \notin Orphaned(pp, t, F) =>
           /\ c.blocked_reader = IF cw > 0 THEN NULL ELSE pp[P].blocked_reader
           /\ c.blocked_writer = IF cr > 0 THEN NULL ELSE pp[P].blocked_writer
  BY ClosedPipe
<1>2. /\ pp[P].read_open \in Nat /\ pp[P].write_open \in Nat
      /\ pipe[P].read_open \in Nat /\ pipe[P].write_open \in Nat
  BY DEF IInv, TypeOK, Pipe
<1> HIDE DEF cr, cw, c
<1>3. ASSUME pipe[P].blocked_reader = q
      PROVE  c.blocked_reader = q
  <2>1. ~(cw > 0)
    BY <1>0, <1>3 DEF Peers
  <2>2. pipe[P].write_open > 0
    BY <1>3, PipesAssumption DEF IInv, Registrations
  <2> QED BY <1>0, <1>1, <1>2, <1>3, <2>1, <2>2
<1>4. ASSUME pipe[P].blocked_writer = q
      PROVE  c.blocked_writer = q
  <2>1. ~(cr > 0)
    BY <1>0, <1>4 DEF Peers
  <2>2. pipe[P].read_open > 0
    BY <1>4, PipesAssumption DEF IInv, Registrations
  <2> QED BY <1>0, <1>1, <1>2, <1>4, <2>1, <2>2
<1> QED BY <1>3, <1>4 DEF c

\* A process that closes slots of its own, or is reaped.
LEMMA CloseKeeps ==
  ASSUME IInv, NEW p \in Procs, Living(p), NEW F \in SUBSET Fds,
         \A P \in PipeIds : /\ pipe'[P].blocked_reader = PipesClosed(pipe, fds[p], F)[P].blocked_reader
                            /\ pipe'[P].blocked_writer = PipesClosed(pipe, fds[p], F)[P].blocked_writer,
         \/ pstate' = Woken(Peers(fds[p], F))
         \/ pstate' = [Woken(Peers(fds[p], F)) EXCEPT ![p] = "gone"]
  PROVE  SleepersKept
<1> DEFINE K == Peers(fds[p], F)
<1>1. TypeOK /\ RefcountsExact /\ pipe \in [PipeIds -> Pipe]
  BY DEF IInv, TypeOK
<1>2. \A q \in Procs : pstate'[q] = "asleep" => pstate[q] = "asleep" /\ q \notin K
  <2> HIDE DEF K
  <2>1. /\ Woken(K) \in [Procs -> {"unborn", "ready", "asleep", "dead", "gone"}]
        /\ \A q \in Procs : Woken(K)[q] = "asleep" <=> pstate[q] = "asleep" /\ q \notin K
    BY <1>1, WokenFacts
  <2>2. pstate' = Woken(K) \/ pstate' = [Woken(K) EXCEPT ![p] = "gone"]
    BY DEF K
  <2> QED BY <2>1, <2>2
<1>3. ASSUME NEW P \in PipeIds, NEW q \in Procs, pstate'[q] = "asleep"
      PROVE  /\ pipe[P].blocked_reader = q => pipe'[P].blocked_reader = q
             /\ pipe[P].blocked_writer = q => pipe'[P].blocked_writer = q
  <2>1. /\ EndCount(fds[p], "PIPE_READ", P, F) <= pipe[P].read_open
        /\ EndCount(fds[p], "PIPE_WRITE", P, F) <= pipe[P].write_open
    BY <1>1, CloseFacts
  <2>2. q \notin Peers(fds[p], F)
    BY <1>2, <1>3
  <2>3. pipe[P].read_open \in Nat /\ pipe[P].write_open \in Nat
    BY <1>1 DEF Pipe
  <2>4. pipe[P].read_open >= pipe[P].read_open /\ pipe[P].write_open >= pipe[P].write_open
    BY <2>3
  <2>5. /\ pipe[P].blocked_reader = q => PipesClosed(pipe, fds[p], F)[P].blocked_reader = q
        /\ pipe[P].blocked_writer = q => PipesClosed(pipe, fds[p], F)[P].blocked_writer = q
    BY <1>1, <2>1, <2>2, <2>4, ClosedKeeps
  <2> QED BY <2>5
<1> HIDE DEF K
<1> QED BY <1>2, <1>3, PlacesKept

LEMMA ForkFailsKeeps ==
  ASSUME IInv, NEW p \in Procs, ForkFails(p)
  PROVE  SleepersKept
<1> DEFINE t == fds[p]
           S == PipesShared(pipe, t, Fds)
           K == Peers(t, Fds)
<1>1. TypeOK /\ pipe \in [PipeIds -> Pipe] /\ Fds \in SUBSET Fds
  BY DEF IInv, TypeOK
<1>2. pipe' = PipesClosed(S, t, Fds) /\ pstate' = Woken(K)
  BY DEF ForkFails
<1>3. \A q \in Procs : pstate'[q] = "asleep" => pstate[q] = "asleep" /\ q \notin K
  <2> HIDE DEF K
  <2> QED BY <1>1, <1>2, WokenFacts
<1>4. ASSUME NEW P \in PipeIds
      PROVE  /\ S[P] \in Pipe
             /\ S[P].read_open = pipe[P].read_open + EndCount(t, "PIPE_READ", P, Fds)
             /\ S[P].write_open = pipe[P].write_open + EndCount(t, "PIPE_WRITE", P, Fds)
             /\ S[P].blocked_reader = pipe[P].blocked_reader
             /\ S[P].blocked_writer = pipe[P].blocked_writer
  BY <1>1, SharedPipe
<1>5. S \in [PipeIds -> Pipe]
  BY <1>4 DEF PipesShared
<1> HIDE DEF S
<1>6. ASSUME NEW P \in PipeIds, NEW q \in Procs, pstate'[q] = "asleep"
      PROVE  /\ pipe[P].blocked_reader = q => pipe'[P].blocked_reader = q
             /\ pipe[P].blocked_writer = q => pipe'[P].blocked_writer = q
  <2> DEFINE cr == EndCount(t, "PIPE_READ", P, Fds)
             cw == EndCount(t, "PIPE_WRITE", P, Fds)
  <2>1. cr \in Nat /\ cw \in Nat /\ pipe[P].read_open \in Nat /\ pipe[P].write_open \in Nat
    BY <1>1, EndCountFacts DEF Pipe
  <2>2. S[P].read_open = pipe[P].read_open + cr /\ S[P].write_open = pipe[P].write_open + cw
    BY <1>4
  <2>3. /\ cr <= S[P].read_open /\ cw <= S[P].write_open
        /\ S[P].read_open >= pipe[P].read_open /\ S[P].write_open >= pipe[P].write_open
    <3> HIDE DEF cr, cw
    <3> QED BY <2>1, <2>2
  <2>4. q \notin Peers(t, Fds)
    BY <1>3, <1>6
  <2>5. /\ pipe[P].blocked_reader = q => PipesClosed(S, t, Fds)[P].blocked_reader = q
        /\ pipe[P].blocked_writer = q => PipesClosed(S, t, Fds)[P].blocked_writer = q
    <3> HIDE DEF t
    <3> QED BY <1>1, <1>4, <1>5, <2>3, <2>4, ClosedKeeps
  <2> QED BY <1>2, <2>5
<1> HIDE DEF K
<1> QED BY <1>3, <1>6, PlacesKept

LEMMA Dup2Keeps ==
  ASSUME IInv, NEW p \in Procs, NEW oldfd \in Fds, NEW newfd \in Fds, sys_dup2(p, oldfd, newfd)
  PROVE  SleepersKept
<1> DEFINE t == [fds[p] EXCEPT ![newfd] = fds[p][oldfd]]
           C == PipesClosed(pipe, fds[p], {newfd})
<1>1. TypeOK /\ RefcountsExact /\ pipe \in [PipeIds -> Pipe] /\ Living(p) /\ {newfd} \in SUBSET Fds
  BY DEF IInv, TypeOK, Living, sys_dup2, InUserMode
<1>2. pipe' = PipesShared(C, t, {newfd}) /\ pstate' = Woken(Peers(fds[p], {newfd}))
  BY DEF sys_dup2
<1>3. ASSUME NEW P \in PipeIds PROVE C[P] \in Pipe
  <2>1. /\ EndCount(fds[p], "PIPE_READ", P, {newfd}) <= pipe[P].read_open
        /\ EndCount(fds[p], "PIPE_WRITE", P, {newfd}) <= pipe[P].write_open
    BY <1>1, CloseFacts
  <2> QED BY <1>1, <2>1, ClosedPipe
<1>4. C \in [PipeIds -> Pipe]
  BY <1>3 DEF PipesClosed
<1>5. ASSUME NEW P \in PipeIds
      PROVE  pipe'[P].blocked_reader = C[P].blocked_reader /\ pipe'[P].blocked_writer = C[P].blocked_writer
  <2> HIDE DEF C, t
  <2> QED BY <1>1, <1>2, <1>4, SharedPipe
<1> QED BY <1>1, <1>2, <1>5, CloseKeeps

LEMMA WriteKeeps ==
  ASSUME IInv, NEW p \in Procs, NEW P \in PipeIds, NEW data \in Seq(Bytes), pstate[p] = "ready",
         WriteTurn(p, P, data)
  PROVE  SleepersKept
<1> DEFINE n == Min2(Space(pipe[P]), Len(data))
           W == IF n > 0 THEN {pipe[P].blocked_reader} ELSE {}
           s == Stored(pipe[P], data, n)
           pp == [s EXCEPT !.blocked_reader = IF n > 0 THEN NULL ELSE @]
           qq == [pp EXCEPT !.blocked_writer = p]
<1>0. TypeOK /\ pipe \in [PipeIds -> Pipe] /\ pipe[P] \in Pipe /\ RingHolds(pipe[P])
  BY DEF IInv, TypeOK, BytesInFlight
<1>1. \/ pipe' = [pipe EXCEPT ![P] = pp] /\ pstate' = Woken(W)
      \/ pipe' = [pipe EXCEPT ![P] = qq] /\ pstate' = [Woken(W) EXCEPT ![p] = "asleep"]
  BY DEF WriteTurn
<1>2. /\ n \in Nat /\ s \in Pipe
      /\ s.blocked_reader = pipe[P].blocked_reader /\ s.blocked_writer = pipe[P].blocked_writer
  BY <1>0, WriteTurnFacts
<1>w. W = IF n > 0 THEN {pipe[P].blocked_reader} ELSE {}
  OBVIOUS
<1> HIDE DEF n, s, W
<1>3. /\ pp.blocked_reader = (IF n > 0 THEN NULL ELSE pipe[P].blocked_reader)
      /\ pp.blocked_writer = pipe[P].blocked_writer
      /\ qq.blocked_reader = (IF n > 0 THEN NULL ELSE pipe[P].blocked_reader)
      /\ qq.blocked_writer = p
  BY <1>2 DEF Pipe
<1> HIDE DEF pp, qq
<1>4. /\ Woken(W) \in [Procs -> {"unborn", "ready", "asleep", "dead", "gone"}]
      /\ \A q \in Procs : Woken(W)[q] = "asleep" <=> pstate[q] = "asleep" /\ q \notin W
  BY <1>0, WokenFacts
<1>5. CASE pipe' = [pipe EXCEPT ![P] = pp] /\ pstate' = Woken(W)
  <2>1. ASSUME NEW Q \in PipeIds, NEW q \in Procs, pstate'[q] = "asleep"
        PROVE  /\ pipe[Q].blocked_reader = q => pipe'[Q].blocked_reader = q
               /\ pipe[Q].blocked_writer = q => pipe'[Q].blocked_writer = q
    <3>1. q \notin W
      BY <1>4, <1>5, <2>1
    <3>2. Q # P => pipe'[Q] = pipe[Q]
      BY <1>0, <1>5
    <3>3. pipe'[P] = pp
      BY <1>0, <1>5
    <3> QED BY <1>w, <1>3, <3>1, <3>2, <3>3
  <2>2. \A q \in Procs : pstate'[q] = "asleep" => pstate[q] = "asleep"
    BY <1>4, <1>5
  <2> QED BY <2>1, <2>2, PlacesKept
<1>6. CASE pipe' = [pipe EXCEPT ![P] = qq] /\ pstate' = [Woken(W) EXCEPT ![p] = "asleep"]
  <2>1. pipe'[P] = qq /\ \A Q \in PipeIds : Q # P => pipe'[Q] = pipe[Q]
    BY <1>0, <1>6
  <2>2. \A q \in Procs : q # p /\ pstate'[q] = "asleep" => pstate[q] = "asleep" /\ q \notin W
    BY <1>4, <1>6
  <2>3. Registered(p)'
    BY <1>3, <2>1 DEF Registered
  <2>4. ASSUME NEW q \in Procs, q # p, pstate'[q] = "asleep", Registered(q)
        PROVE  Registered(q)' \/ Displaced(q)
    <3>0. q \notin W
      BY <2>2, <2>4
    <3>1. PICK Q \in PipeIds : q \in {pipe[Q].blocked_reader, pipe[Q].blocked_writer}
      BY <2>4 DEF Registered
    <3>2. CASE Q # P
      BY <2>1, <3>1, <3>2 DEF Registered
    <3>3. CASE Q = P /\ q = pipe[P].blocked_reader
      <4>1. pipe'[P].blocked_reader = q
        BY <1>w, <1>3, <2>1, <3>0, <3>3
      <4> QED BY <4>1 DEF Registered
    <3>4. CASE Q = P /\ q = pipe[P].blocked_writer
      <4>1. pipe[P].blocked_writer = q /\ pipe'[P].blocked_writer = p /\ p \in Procs \ {q}
        BY <1>3, <2>1, <2>4, <3>4
      <4> QED BY <4>1 DEF Displaced
    <3> QED BY <3>1, <3>2, <3>3, <3>4
  <2> QED BY <2>2, <2>3, <2>4 DEF SleepersKept
<1> QED BY <1>1, <1>5, <1>6

LEMMA ReadKeeps ==
  ASSUME IInv, NEW p \in Procs, NEW P \in PipeIds, NEW n \in Nat \ {0}, pstate[p] = "ready",
         ReadTurn(p, P, n)
  PROVE  SleepersKept
<1> DEFINE x == pipe[P]
           qq(u) == [x EXCEPT !.tail = u, !.blocked_writer = NULL]
           ss == [x EXCEPT !.blocked_reader = p]
<1>0. TypeOK /\ pipe \in [PipeIds -> Pipe] /\ x \in Pipe /\ pstate \in [Procs -> {"unborn", "ready", "asleep", "dead", "gone"}]
  BY DEF IInv, TypeOK
<1>1. \/ pstate' = Woken({x.blocked_writer}) /\ \E u : pipe' = [pipe EXCEPT ![P] = qq(u)]
      \/ pipe' = pipe /\ pstate' = pstate
      \/ pipe' = [pipe EXCEPT ![P] = ss] /\ pstate' = [pstate EXCEPT ![p] = "asleep"]
  BY DEF ReadTurn
<1>2. CASE pipe' = pipe /\ pstate' = pstate
  BY <1>2, PlacesKept
<1>3. CASE pstate' = Woken({x.blocked_writer}) /\ \E u : pipe' = [pipe EXCEPT ![P] = qq(u)]
  <2>1. PICK u : pipe' = [pipe EXCEPT ![P] = qq(u)]
    BY <1>3
  <2>2. qq(u).blocked_reader = x.blocked_reader
    BY <1>0 DEF Pipe
  <2>3. pipe'[P] = qq(u) /\ \A Q \in PipeIds : Q # P => pipe'[Q] = pipe[Q]
    BY <1>0, <2>1
  <2>4. \A q \in Procs : pstate'[q] = "asleep" => pstate[q] = "asleep" /\ q # x.blocked_writer
    BY <1>0, <1>3, WokenFacts
  <2> HIDE DEF qq
  <2> QED BY <2>2, <2>3, <2>4, PlacesKept
<1>4. CASE pipe' = [pipe EXCEPT ![P] = ss] /\ pstate' = [pstate EXCEPT ![p] = "asleep"]
  <2>1. ss.blocked_reader = p /\ ss.blocked_writer = x.blocked_writer
    BY <1>0 DEF Pipe
  <2> HIDE DEF ss
  <2>2. pipe'[P] = ss /\ \A Q \in PipeIds : Q # P => pipe'[Q] = pipe[Q]
    BY <1>0, <1>4
  <2>3. Registered(p)'
    BY <2>1, <2>2 DEF Registered
  <2>4. ASSUME NEW q \in Procs, q # p, pstate'[q] = "asleep", Registered(q)
        PROVE  Registered(q)' \/ Displaced(q)
    <3>1. PICK Q \in PipeIds : q \in {pipe[Q].blocked_reader, pipe[Q].blocked_writer}
      BY <2>4 DEF Registered
    <3>2. CASE Q # P
      BY <2>2, <3>1, <3>2 DEF Registered
    <3>3. CASE Q = P /\ q = pipe[P].blocked_writer
      <4>1. pipe'[P].blocked_writer = q
        BY <2>1, <2>2, <3>3
      <4> QED BY <4>1 DEF Registered
    <3>4. CASE Q = P /\ q = pipe[P].blocked_reader
      <4>1. pipe[P].blocked_reader = q /\ pipe'[P].blocked_reader = p /\ p \in Procs \ {q}
        BY <2>1, <2>2, <2>4, <3>4
      <4> QED BY <4>1 DEF Displaced
    <3> QED BY <3>1, <3>2, <3>3, <3>4
  <2>5. \A q \in Procs : q # p /\ pstate'[q] = "asleep" => pstate[q] = "asleep"
    BY <1>0, <1>4
  <2> QED BY <2>3, <2>4, <2>5 DEF SleepersKept
<1> QED BY <1>1, <1>2, <1>3, <1>4

LEMMA ProcessKeeps ==
  ASSUME IInv, NEW p \in Procs, ProcessNext(p)
  PROVE  SleepersKept
<1>0. TypeOK /\ CallsHold /\ pipe \in [PipeIds -> Pipe]
      /\ pstate \in [Procs -> {"unborn", "ready", "asleep", "dead", "gone"}]
  BY DEF IInv, TypeOK
<1>i. ASSUME pipe' = pipe, pstate' = pstate
      PROVE  SleepersKept
  BY <1>i, PlacesKept
<1>1. CASE sys_pipe(p)
  <2>1. PICK P \in PipeIds \ allocated : pipe' = [pipe EXCEPT ![P] = FreshPipe(1)]
    BY <1>1 DEF sys_pipe
  <2>2. pstate' = pstate
    BY <1>1 DEF sys_pipe
  <2>3. pipe[P].blocked_reader = NULL /\ pipe[P].blocked_writer = NULL
    BY FreshFacts DEF IInv, FreshUnlessAllocated
  <2>4. \A Q \in PipeIds : Q # P => pipe'[Q] = pipe[Q]
    BY <1>0, <2>1
  <2> QED BY <2>2, <2>3, <2>4, PipesAssumption, PlacesKept
<1>2. CASE sys_open(p)
  BY <1>2, <1>i DEF sys_open
<1>2k. CASE Kill(p)
  <2>1. pipe' = pipe /\ pstate' = [pstate EXCEPT ![p] = "dead"]
    BY <1>2k DEF Kill
  <2> QED BY <1>0, <2>1, PlacesKept
<1>3. ASSUME NEW f \in Fds, sys_close(p, f)
      PROVE  SleepersKept
  <2>1. /\ {f} \in SUBSET Fds /\ Living(p) /\ pipe' = PipesClosed(pipe, fds[p], {f})
        /\ pstate' = Woken(Peers(fds[p], {f}))
    BY <1>3 DEF sys_close, CloseSlots, InUserMode, Living
  <2> QED BY <2>1, CloseKeeps
<1>4. ASSUME NEW f \in Fds, sys_write_fd(p, f)
      PROVE  SleepersKept
  <2> DEFINE d == fds[p][f]
  <2>0. pstate[p] = "ready" /\ d \in Desc
    BY <1>0, <1>4 DEF sys_write_fd, InUserMode, TypeOK
  <2>1. CASE d.kind = "PIPE_WRITE"
    <3>1. PICK n \in 1..MaxWrite : \E data \in [1..n -> Bytes] : WriteTurn(p, d.obj, data)
      BY <1>4, <2>1 DEF sys_write_fd
    <3>2. PICK data \in [1..n -> Bytes] : WriteTurn(p, d.obj, data)
      BY <3>1
    <3>3. data \in Seq(Bytes)
      BY SeqDef
    <3>4. d.obj \in PipeIds
      BY <2>0, <2>1 DEF Desc
    <3> QED BY <2>0, <3>2, <3>3, <3>4, WriteKeeps
  <2>2. CASE d.kind # "PIPE_WRITE"
    BY <1>4, <1>i, <2>2 DEF sys_write_fd
  <2> QED BY <2>1, <2>2
<1>5. ASSUME NEW f \in Fds, sys_read_fd(p, f)
      PROVE  SleepersKept
  <2> DEFINE d == fds[p][f]
  <2>0. pstate[p] = "ready" /\ d \in Desc /\ d.kind = "PIPE_READ"
    BY <1>0, <1>5 DEF sys_read_fd, InUserMode, TypeOK
  <2>1. PICK n \in 1..(PIPE_BUF_SIZE - 1) : ReadTurn(p, d.obj, n)
    BY <1>5 DEF sys_read_fd
  <2>2. d.obj \in PipeIds /\ n \in Nat \ {0}
    BY <2>0, PipesAssumption DEF Desc
  <2> QED BY <2>0, <2>1, <2>2, ReadKeeps
<1>6. ASSUME NEW f \in Fds, NEW g \in Fds, sys_dup2(p, f, g)
      PROVE  SleepersKept
  BY <1>6, Dup2Keeps
<1>7. ASSUME NEW child \in Procs, sys_fork(p, child)
      PROVE  SleepersKept
  <2>1. pipe' = PipesShared(pipe, fds[p], Fds) /\ pstate' = [pstate EXCEPT ![child] = "ready"] /\ Fds \in SUBSET Fds
    BY <1>7 DEF sys_fork
  <2>2. ASSUME NEW P \in PipeIds
        PROVE  /\ pipe'[P].blocked_reader = pipe[P].blocked_reader
               /\ pipe'[P].blocked_writer = pipe[P].blocked_writer
    BY <1>0, <2>1, SharedPipe
  <2>3. \A q \in Procs : pstate'[q] = "asleep" => pstate[q] = "asleep"
    BY <1>0, <2>1
  <2> QED BY <2>2, <2>3, PlacesKept
<1>8. CASE ForkFails(p)
  BY <1>8, ForkFailsKeeps
<1>9. CASE Exit(p) \/ Reap(p)
  <2>1. /\ Fds \in SUBSET Fds /\ Living(p) /\ pipe' = PipesClosed(pipe, fds[p], Fds)
        /\ pstate' = [Woken(Peers(fds[p], Fds)) EXCEPT ![p] = "gone"]
    BY <1>9 DEF Exit, Reap, CloseSlots, InUserMode, Living
  <2> QED BY <2>1, CloseKeeps
<1>10. CASE ResumeWrite(p)
  <2>1. /\ pstate[p] = "ready" /\ call[p].op = "write"
        /\ WriteTurn(p, call[p].pipe, call[p].data)
    BY <1>10 DEF ResumeWrite
  <2>2. call[p].pipe \in PipeIds /\ call[p].data \in Seq(Bytes)
    BY <1>0, <2>1 DEF TypeOK, Call
  <2> QED BY <2>1, <2>2, WriteKeeps
<1>11. CASE ResumeRead(p)
  <2>1. pstate[p] = "ready" /\ call[p].op = "read"
    BY <1>11 DEF ResumeRead
  <2>2. PICK n \in 1..(PIPE_BUF_SIZE - 1) : ReadTurn(p, call[p].pipe, n)
    BY <1>11 DEF ResumeRead
  <2>3. call[p].pipe \in PipeIds /\ n \in Nat \ {0}
    BY <1>0, <2>1, PipesAssumption DEF TypeOK, Call
  <2> QED BY <2>1, <2>2, <2>3, ReadKeeps
<1> QED BY <1>1, <1>2, <1>2k, <1>3, <1>4, <1>5, <1>6, <1>7, <1>8, <1>9, <1>10, <1>11
        DEF ProcessNext

\* A process registered as blocked on a pipe end sleeps in a call on it, holds
\* a descriptor of it and has reason to sleep; whoever falls asleep is
\* registered; and no step takes the registration away without waking the
\* process, save that of another process which registers itself in its place.
THEOREM SleepersHaveReason == Spec => SleepersJustified
<1>1. IInv => RegisteredHaveReason
  <2>1. IInv => TypeOK /\ Registrations /\ CallsHold
    BY DEF IInv
  <2>2. TypeOK => \A P \in PipeIds : /\ pipe[P].blocked_reader \in Procs \cup {NULL}
                                     /\ pipe[P].blocked_writer \in Procs \cup {NULL}
    BY DEF TypeOK, Pipe
  <2> QED BY <2>1, <2>2 DEF Registrations, CallsHold, RegisteredHaveReason
<1>2. IInv /\ [Next]_vars => [SleepersKept]_vars
  BY ProcessKeeps DEF Next
<1>3. Spec => []RegisteredHaveReason
  BY Invariance, <1>1, PTL
<1>4. Spec => [][SleepersKept]_vars
  BY Invariance, <1>2, PTL DEF Spec
<1> QED BY <1>3, <1>4, PTL DEF SleepersJustified
-----------------------------------------------------------------------------
(* The refinement: what each step does to the bytes in flight. *)

LEMMA FifoDiscard ==
  ASSUME NEW O \in SUBSET allocated, allocated' = allocated \ O, delivered' = <<>>,
         \A P \in PipeIds : Contents(P)' = IF P \in O THEN <<>> ELSE Contents(P)
  PROVE  Fifo!Next
<1>1. Fifo!Discard(O)
  BY DEF Fifo!Discard
<1> QED BY <1>1 DEF Fifo!Next

LEMMA FifoCreate ==
  ASSUME NEW P \in PipeIds \ allocated, allocated' = allocated \cup {P}, delivered' = <<>>,
         \A Q \in PipeIds : Contents(Q)' = Contents(Q)
  PROVE  Fifo!Next
<1>1. Fifo!Create(P)
  BY DEF Fifo!Create
<1> QED BY <1>1 DEF Fifo!Next

LEMMA FifoWrite ==
  ASSUME NEW P \in allocated, P \in PipeIds, NEW n \in 1..(PIPE_BUF_SIZE - 1 - Len(Contents(P))),
         NEW data \in [1..n -> Bytes], Contents(P)' = Contents(P) \o data,
         \A Q \in PipeIds : Q # P => Contents(Q)' = Contents(Q),
         allocated' = allocated, delivered' = <<>>
  PROVE  Fifo!Next
<1>1. Fifo!Write(P)
  BY DEF Fifo!Write
<1> QED BY <1>1 DEF Fifo!Next

LEMMA FifoRead ==
  ASSUME NEW P \in allocated, P \in PipeIds, NEW n \in 1..Len(Contents(P)),
         Contents(P)' = SubSeq(Contents(P), n + 1, Len(Contents(P))),
         \A Q \in PipeIds : Q # P => Contents(Q)' = Contents(Q),
         allocated' = allocated, delivered' = SubSeq(Contents(P), 1, n)
  PROVE  Fifo!Next
<1>1. Fifo!Read(P)
  BY DEF Fifo!Read
<1> QED BY <1>1 DEF Fifo!Next

LEMMA ContentsOf ==
  ASSUME NEW P \in PipeIds
  PROVE  Contents(P) = QueueOf(pipe[P]) /\ Contents(P)' = QueueOf(pipe'[P])
BY DEF Contents, QueueOf, Taken, Used

\* A step that keeps the rings of all pipes but those it destroys.
LEMMA RingsKept ==
  ASSUME TypeOK, FreshUnlessAllocated, NEW O, allocated' = allocated \ O, delivered' = <<>>,
         \A P \in PipeIds : /\ P \in O => SameRing(FreshPipe(0), pipe'[P])
                            /\ P \notin O => SameRing(pipe[P], pipe'[P])
  PROVE  Fifo!Next
<1> DEFINE D == O \cap allocated
<1>1. D \in SUBSET allocated /\ allocated' = allocated \ D
  OBVIOUS
<1>2. ASSUME NEW P \in PipeIds
      PROVE  Contents(P)' = IF P \in D THEN <<>> ELSE Contents(P)
  <2>1. P \in O => QueueOf(pipe'[P]) = QueueOf(FreshPipe(0))
    BY RingKept DEF SameRing
  <2>2. P \notin O => QueueOf(pipe'[P]) = QueueOf(pipe[P])
    BY RingKept DEF SameRing
  <2>3. QueueOf(FreshPipe(0)) = <<>>
    BY QueueFresh
  <2>4. P \notin allocated => pipe[P] = FreshPipe(0)
    BY DEF FreshUnlessAllocated
  <2> QED BY <2>1, <2>2, <2>3, <2>4, ContentsOf
<1> HIDE DEF D
<1> QED BY <1>1, <1>2, FifoDiscard

LEMMA ClosedRings ==
  ASSUME NEW pp, NEW t, NEW F, NEW P \in PipeIds
  PROVE  /\ P \in Orphaned(pp, t, F) => PipesClosed(pp, t, F)[P] = FreshPipe(0)
         /\ P \notin Orphaned(pp, t, F) => PipesClosed(pp, t, F)[P] = EndsClosed(pp, t, F)[P]
BY DEF PipesClosed

LEMMA CloseFifo ==
  ASSUME IInv, NEW p \in Procs, NEW F \in SUBSET Fds, CloseSlots(p, F)
  PROVE  Fifo!Next
<1> DEFINE O == Orphaned(pipe, fds[p], F)
<1>0. TypeOK /\ FreshUnlessAllocated
  BY DEF IInv
<1>1. allocated' = allocated \ O /\ delivered' = <<>> /\ pipe' = PipesClosed(pipe, fds[p], F)
  BY DEF CloseSlots, NothingRead
<1>2. ASSUME NEW P \in PipeIds
      PROVE  /\ P \in O => SameRing(FreshPipe(0), pipe'[P])
             /\ P \notin O => SameRing(pipe[P], pipe'[P])
  <2>1. SameRing(pipe[P], EndsClosed(pipe, fds[p], F)[P])
    BY <1>0 DEF TypeOK, Pipe, EndsClosed, SameRing
  <2> QED BY <1>1, <2>1, ClosedRings DEF SameRing
<1> QED BY <1>0, <1>1, <1>2, RingsKept

LEMMA Dup2Fifo ==
  ASSUME IInv, NEW p \in Procs, NEW oldfd \in Fds, NEW newfd \in Fds, sys_dup2(p, oldfd, newfd)
  PROVE  Fifo!Next
<1> DEFINE O == Orphaned(pipe, fds[p], {newfd})
<1>0. TypeOK /\ FreshUnlessAllocated
  BY DEF IInv
<1>1. allocated' = allocated \ O /\ delivered' = <<>>
  BY DEF sys_dup2, NothingRead
<1>2. \A P \in PipeIds : IF P \in O THEN SameRing(FreshPipe(0), pipe'[P]) ELSE SameRing(pipe[P], pipe'[P])
  BY Dup2Inv
<1> QED BY <1>0, <1>1, <1>2, RingsKept

\* A step that touches no ring and neither makes nor destroys a pipe.
LEMMA IdleFifo ==
  ASSUME IInv, allocated' = allocated, delivered' = <<>>,
         \A P \in PipeIds : SameRing(pipe[P], pipe'[P])
  PROVE  Fifo!Next
<1>1. TypeOK /\ FreshUnlessAllocated /\ allocated' = allocated \ {}
  BY DEF IInv
<1> QED BY <1>1, RingsKept

LEMMA PipeFifo ==
  ASSUME IInv, NEW p \in Procs, sys_pipe(p)
  PROVE  Fifo!Next
<1>0. TypeOK /\ FreshUnlessAllocated
  BY DEF IInv
<1>1. PICK P \in PipeIds \ allocated : allocated' = allocated \cup {P} /\ pipe' = [pipe EXCEPT ![P] = FreshPipe(1)]
  BY DEF sys_pipe
<1>2. delivered' = <<>>
  BY DEF sys_pipe, NothingRead
<1>3. ASSUME NEW Q \in PipeIds
      PROVE  Contents(Q)' = Contents(Q)
  <2>1. pipe'[Q] = IF Q = P THEN FreshPipe(1) ELSE pipe[Q]
    BY <1>0, <1>1 DEF TypeOK
  <2>2. pipe[P] = FreshPipe(0)
    BY <1>0 DEF FreshUnlessAllocated
  <2>3. QueueOf(FreshPipe(0)) = <<>> /\ QueueOf(FreshPipe(1)) = <<>>
    BY QueueFresh
  <2> QED BY <2>1, <2>2, <2>3, ContentsOf
<1> QED BY <1>1, <1>2, <1>3, FifoCreate

LEMMA HeldIsAllocated ==
  ASSUME IInv, NEW p \in Procs, pstate[p] = "ready", NEW P \in PipeIds,
         NEW kind \in {"PIPE_READ", "PIPE_WRITE"}, Ends(fds[p], kind, P) # {}
  PROVE  P \in allocated
<1>1. PICK f \in Fds : f \in Ends(fds[p], kind, P)
  BY DEF Ends
<1>2. <<p, f>> \in Refs(kind, P)
  BY <1>1, RefsMember DEF Living
<1>3. Refs("PIPE_READ", P) \cup Refs("PIPE_WRITE", P) # {}
  BY <1>2
<1> QED BY <1>3 DEF IInv, PipesAllocatedWhileUsed

LEMMA WriteFifo ==
  ASSUME IInv, NEW p \in Procs, NEW P \in PipeIds, NEW data \in Seq(Bytes), pstate[p] = "ready",
         Ends(fds[p], "PIPE_WRITE", P) # {}, WriteTurn(p, P, data)
  PROVE  Fifo!Next
<1> DEFINE n == Min2(Space(pipe[P]), Len(data))
           s == Stored(pipe[P], data, n)
           pp == [s EXCEPT !.blocked_reader = IF n > 0 THEN NULL ELSE @]
           qq == [pp EXCEPT !.blocked_writer = p]
<1>0. /\ TypeOK /\ pipe \in [PipeIds -> Pipe] /\ pipe[P] \in Pipe /\ RingHolds(pipe[P])
      /\ P \in allocated
  BY HeldIsAllocated DEF IInv, TypeOK, BytesInFlight
<1>1. /\ n \in Nat /\ n <= Space(pipe[P]) /\ n <= Len(data) /\ s \in Pipe /\ RingHolds(s)
  BY <1>0, WriteTurnFacts
<1>2. /\ pipe' = [pipe EXCEPT ![P] = pp] \/ pipe' = [pipe EXCEPT ![P] = qq]
      /\ delivered' = <<>> /\ allocated' = allocated
  BY DEF WriteTurn, NothingRead
<1>3. SameRing(s, pp) /\ SameRing(s, qq)
  <2> HIDE DEF n, s
  <2> QED BY <1>1 DEF SameRing, Pipe
<1>s. s = Stored(pipe[P], data, n)
  OBVIOUS
<1> HIDE DEF n, s, pp, qq
<1>4. /\ \A Q \in PipeIds : Q # P => pipe'[Q] = pipe[Q]
      /\ SameRing(s, pipe'[P])
  BY <1>0, <1>2, <1>3
<1>5. /\ \A Q \in PipeIds : Q # P => Contents(Q)' = Contents(Q)
      /\ Contents(P)' = QueueOf(s)
  BY <1>4, ContentsOf, RingKept DEF SameRing
<1>6. /\ n <= PIPE_BUF_SIZE - 1 - Len(Contents(P))
      /\ SubSeq(data, 1, n) \in [1..n -> Bytes]
      /\ QueueOf(s) = Contents(P) \o SubSeq(data, 1, n)
  <2>1. PICK x, v : x = pipe[P] /\ v = s
    OBVIOUS
  <2>2. /\ x \in Pipe /\ RingHolds(x) /\ n \in Nat /\ n <= Space(x) /\ n <= Len(data)
        /\ v = Stored(x, data, n) /\ RingHolds(v)
    BY <1>0, <1>1, <1>s, <2>1, Zenon
  <2>3. n <= PIPE_BUF_SIZE - 1 - Len(QueueOf(x))
    BY <2>2, QueueWrite
  <2>4. SubSeq(data, 1, n) \in [1..n -> Bytes]
    BY <2>2, QueueWrite
  <2>5. QueueOf(v) = QueueOf(x) \o SubSeq(data, 1, n)
    BY <2>2, QueueWrite
  <2>6. Contents(P) = QueueOf(x)
    BY <2>1, ContentsOf
  <2> QED BY <2>1, <2>3, <2>4, <2>5, <2>6, Zenon
<1>7. Contents(P) \in Seq(Bytes)
  <2>1. Used(pipe[P]) \in Nat /\ Used(pipe[P]) <= Used(pipe[P])
    BY <1>0, UsedFacts DEF Pipe
  <2> QED BY <1>0, <2>1, QueueType DEF Contents
<1>8. CASE n = 0
  <2>1. Contents(P)' = Contents(P)
    <3>1. SubSeq(data, 1, n) = <<>>
      BY <1>8
    <3> QED BY <1>5, <1>6, <1>7, <3>1, ConcatEmptySeq
  <2>2. {} \in SUBSET allocated /\ allocated' = allocated \ {}
    BY <1>2
  <2> QED BY <1>2, <1>5, <2>1, <2>2, FifoDiscard
<1>9. CASE n # 0
  <2>1. n \in 1..(PIPE_BUF_SIZE - 1 - Len(Contents(P)))
    <3> DEFINE c == Len(Contents(P))
    <3>1. c \in Nat /\ n <= PIPE_BUF_SIZE - 1 - c
      BY <1>6, <1>7
    <3> HIDE DEF c
    <3>2. n \in 1..(PIPE_BUF_SIZE - 1 - c)
      BY <1>1, <1>9, <3>1, PipesAssumption
    <3> QED BY <3>2 DEF c
  <2> QED BY <1>0, <1>2, <1>5, <1>6, <2>1, FifoWrite
<1> QED BY <1>8, <1>9

LEMMA ReadFifo ==
  ASSUME IInv, NEW p \in Procs, NEW P \in PipeIds, NEW n \in Nat \ {0}, pstate[p] = "ready",
         Ends(fds[p], "PIPE_READ", P) # {}, ReadTurn(p, P, n)
  PROVE  Fifo!Next
<1> DEFINE pp == pipe[P]
           got == Min2(Used(pp), n)
           qq == [pp EXCEPT !.tail = (@ + got) % PIPE_BUF_SIZE, !.blocked_writer = NULL]
           ss == [pp EXCEPT !.blocked_reader = p]
<1>0. /\ TypeOK /\ pipe \in [PipeIds -> Pipe] /\ pp \in Pipe /\ RingHolds(pp) /\ P \in allocated
  BY HeldIsAllocated DEF IInv, TypeOK, BytesInFlight
<1>1. /\ allocated' = allocated
      /\ \/ /\ got > 0 /\ pipe' = [pipe EXCEPT ![P] = qq] /\ delivered' = Taken(pp, got)
         \/ /\ delivered' = <<>> /\ (pipe' = pipe \/ pipe' = [pipe EXCEPT ![P] = ss])
  BY DEF ReadTurn, NothingRead
<1>2. Used(pp) \in Nat /\ got \in Nat /\ got <= Used(pp)
  <2>1. Used(pp) \in Nat
    BY <1>0, UsedFacts DEF Pipe
  <2> QED BY <2>1 DEF Min2
<1> HIDE DEF got
<1>3. CASE delivered' = <<>> /\ (pipe' = pipe \/ pipe' = [pipe EXCEPT ![P] = ss])
  <2>1. ss.head = pp.head /\ ss.buf = pp.buf /\ ss.tail = pp.tail
    BY <1>0 DEF Pipe
  <2> HIDE DEF ss
  <2>2. pipe'[P] \in {pp, ss} /\ \A Q \in PipeIds : Q # P => pipe'[Q] = pipe[Q]
    BY <1>0, <1>3
  <2>3. \A Q \in PipeIds : SameRing(pipe[Q], pipe'[Q])
    BY <2>1, <2>2 DEF SameRing
  <2> QED BY <1>1, <1>3, <2>3, IdleFifo
<1>4. CASE got > 0 /\ pipe' = [pipe EXCEPT ![P] = qq] /\ delivered' = Taken(pp, got)
  <2>1. /\ qq.head = pp.head /\ qq.buf = pp.buf /\ qq.tail = (pp.tail + got) % PIPE_BUF_SIZE
        /\ qq.read_open = pp.read_open /\ qq.write_open = pp.write_open
        /\ qq.blocked_reader = pp.blocked_reader /\ qq.blocked_writer = NULL
    BY <1>0 DEF Pipe
  <2>2. qq.tail \in Ring /\ RingHolds(qq)
    <3> HIDE DEF qq
    <3> QED BY <1>0, <1>2, <2>1, ReadTurnFacts
  <2>3. qq \in Pipe
    BY <1>0, <2>1, <2>2 DEF Pipe
  <2> HIDE DEF qq
  <2>4. pipe'[P] = qq /\ \A Q \in PipeIds : Q # P => pipe'[Q] = pipe[Q]
    BY <1>0, <1>4
  <2>5. /\ Len(QueueOf(pp)) = Used(pp)
        /\ Taken(pp, got) = SubSeq(QueueOf(pp), 1, got)
        /\ QueueOf(qq) = SubSeq(QueueOf(pp), got + 1, Len(QueueOf(pp)))
    BY <1>0, <1>2, <2>1, <2>2, <2>3, QueueRead
  <2>6. /\ Contents(P) = QueueOf(pp) /\ Contents(P)' = QueueOf(qq)
        /\ \A Q \in PipeIds : Q # P => Contents(Q)' = Contents(Q)
    BY <2>4, ContentsOf
  <2>7. got \in 1..Len(Contents(P))
    <3> DEFINE u == Used(pp)
    <3>1. u \in Nat /\ got <= u /\ Len(Contents(P)) = u
      BY <1>2, <2>5, <2>6
    <3> HIDE DEF u
    <3> QED BY <1>2, <1>4, <3>1
  <2> QED BY <1>0, <1>1, <1>4, <2>5, <2>6, <2>7, FifoRead
<1> QED BY <1>1, <1>3, <1>4

LEMMA ForkFifo ==
  ASSUME IInv, NEW p \in Procs, NEW child \in Procs, sys_fork(p, child)
  PROVE  Fifo!Next
<1>1. pipe' = PipesShared(pipe, fds[p], Fds) /\ allocated' = allocated /\ delivered' = <<>>
  BY DEF sys_fork, NothingRead
<1>2. \A P \in PipeIds : SameRing(pipe[P], pipe'[P])
  <2>1. pipe \in [PipeIds -> Pipe] /\ Fds \in SUBSET Fds
    BY DEF IInv, TypeOK
  <2> TAKE P \in PipeIds
  <2> DEFINE s == PipesShared(pipe, fds[p], Fds)[P]
  <2>2. s.buf = pipe[P].buf /\ s.head = pipe[P].head /\ s.tail = pipe[P].tail
    BY <2>1, SharedPipe
  <2>3. pipe'[P] = s
    BY <1>1
  <2> HIDE DEF s
  <2> QED BY <2>2, <2>3 DEF SameRing
<1> QED BY <1>1, <1>2, IdleFifo

LEMMA ProcessFifo ==
  ASSUME IInv, NEW p \in Procs, ProcessNext(p)
  PROVE  Fifo!Next
<1>0. TypeOK /\ CallsHold
  BY DEF IInv
<1>i. ASSUME UNCHANGED <<allocated, pipe>>, delivered' = <<>>
      PROVE  Fifo!Next
  BY <1>i, IdleFifo DEF SameRing
<1>1. CASE sys_pipe(p)
  BY <1>1, PipeFifo
<1>2. CASE sys_open(p) \/ Kill(p)
  BY <1>2, <1>i DEF sys_open, Kill, NothingRead
<1>3. ASSUME NEW f \in Fds, sys_close(p, f)
      PROVE  Fifo!Next
  <2>1. {f} \in SUBSET Fds /\ CloseSlots(p, {f})
    BY <1>3 DEF sys_close
  <2> QED BY <2>1, CloseFifo
<1>4. ASSUME NEW f \in Fds, sys_write_fd(p, f)
      PROVE  Fifo!Next
  <2> DEFINE d == fds[p][f]
  <2>0. pstate[p] = "ready" /\ d \in Desc
    BY <1>0, <1>4 DEF sys_write_fd, InUserMode, TypeOK
  <2>1. CASE d.kind = "PIPE_WRITE"
    <3>1. PICK n \in 1..MaxWrite : \E data \in [1..n -> Bytes] : WriteTurn(p, d.obj, data)
      BY <1>4, <2>1 DEF sys_write_fd
    <3>2. PICK data \in [1..n -> Bytes] : WriteTurn(p, d.obj, data)
      BY <3>1
    <3>3. data \in Seq(Bytes)
      BY SeqDef
    <3>4. d.obj \in PipeIds /\ Ends(fds[p], "PIPE_WRITE", d.obj) # {}
      BY <2>0, <2>1 DEF Desc, Ends
    <3> QED BY <2>0, <3>2, <3>3, <3>4, WriteFifo
  <2>2. CASE d.kind # "PIPE_WRITE"
    BY <1>4, <1>i, <2>2 DEF sys_write_fd, NothingRead
  <2> QED BY <2>1, <2>2
<1>5. ASSUME NEW f \in Fds, sys_read_fd(p, f)
      PROVE  Fifo!Next
  <2> DEFINE d == fds[p][f]
  <2>0. pstate[p] = "ready" /\ d \in Desc /\ d.kind = "PIPE_READ"
    BY <1>0, <1>5 DEF sys_read_fd, InUserMode, TypeOK
  <2>1. PICK n \in 1..(PIPE_BUF_SIZE - 1) : ReadTurn(p, d.obj, n)
    BY <1>5 DEF sys_read_fd
  <2>2. d.obj \in PipeIds /\ Ends(fds[p], "PIPE_READ", d.obj) # {} /\ n \in Nat \ {0}
    BY <2>0, PipesAssumption DEF Desc, Ends
  <2> QED BY <2>0, <2>1, <2>2, ReadFifo
<1>6. ASSUME NEW f \in Fds, NEW g \in Fds, sys_dup2(p, f, g)
      PROVE  Fifo!Next
  BY <1>6, Dup2Fifo
<1>7. ASSUME NEW child \in Procs, sys_fork(p, child)
      PROVE  Fifo!Next
  BY <1>7, ForkFifo
<1>8. CASE ForkFails(p)
  <2>1. allocated' = allocated /\ delivered' = <<>>
    BY <1>8 DEF ForkFails, NothingRead
  <2> QED BY <1>8, <2>1, ForkFailsInv, IdleFifo
<1>9. CASE Exit(p) \/ Reap(p)
  <2>1. CloseSlots(p, Fds) /\ Fds \in SUBSET Fds
    BY <1>9 DEF Exit, Reap
  <2> QED BY <2>1, CloseFifo
<1>10. CASE ResumeWrite(p)
  <2>1. /\ pstate[p] = "ready" /\ call[p].op = "write"
        /\ WriteTurn(p, call[p].pipe, call[p].data)
    BY <1>10 DEF ResumeWrite
  <2>2. /\ call[p].pipe \in PipeIds /\ call[p].data \in Seq(Bytes)
        /\ Ends(fds[p], "PIPE_WRITE", call[p].pipe) # {}
    BY <1>0, <2>1 DEF TypeOK, Call, CallsHold
  <2> QED BY <2>1, <2>2, WriteFifo
<1>11. CASE ResumeRead(p)
  <2>1. pstate[p] = "ready" /\ call[p].op = "read"
    BY <1>11 DEF ResumeRead
  <2>2. PICK n \in 1..(PIPE_BUF_SIZE - 1) : ReadTurn(p, call[p].pipe, n)
    BY <1>11 DEF ResumeRead
  <2>3. /\ call[p].pipe \in PipeIds /\ n \in Nat \ {0}
        /\ Ends(fds[p], "PIPE_READ", call[p].pipe) # {}
    BY <1>0, <2>1, PipesAssumption DEF TypeOK, Call, CallsHold
  <2> QED BY <2>1, <2>2, <2>3, ReadFifo
<1> QED BY <1>1, <1>2, <1>3, <1>4, <1>5, <1>6, <1>7, <1>8, <1>9, <1>10, <1>11
        DEF ProcessNext

\* The rings of pipe.c, with their blocking readers and writers, implement
\* bounded queues of bytes: for any number of processes, pipes and descriptors
\* and any ring size, what the reads return is what the writes put in, in
\* order, until the last descriptor of the pipe is closed.
THEOREM Refinement == Spec => RefinesFifo
<1>1. Init => Fifo!Init
  <2> SUFFICES ASSUME Init PROVE Fifo!Init
    OBVIOUS
  <2>1. \A P \in PipeIds : Contents(P) = <<>>
    BY QueueFresh, ContentsOf DEF Init
  <2>2. allocated = {} /\ delivered = <<>>
    BY DEF Init
  <2> QED BY <2>1, <2>2 DEF Fifo!Init
<1>2. IInv /\ [Next]_vars => [Fifo!Next]_<<allocated, [P \in PipeIds |-> Contents(P)], delivered>>
  <2> SUFFICES ASSUME IInv, [Next]_vars
               PROVE  [Fifo!Next]_<<allocated, [P \in PipeIds |-> Contents(P)], delivered>>
    OBVIOUS
  <2>1. CASE Next
    BY <2>1, ProcessFifo DEF Next
  <2>2. CASE UNCHANGED vars
    BY <2>2 DEF vars, Contents, Taken, Used
  <2> QED BY <2>1, <2>2
<1> QED BY <1>1, <1>2, Invariance, PTL DEF Spec, RefinesFifo, Fifo!Spec
=============================================================================
