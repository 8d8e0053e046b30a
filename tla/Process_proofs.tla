--------------------------- MODULE Process_proofs ---------------------------
(***************************************************************************)
(* The invariants of module Process, for any number of processes, exit     *)
(* records and pending characters and any length of the time slice.        *)
(***************************************************************************)
EXTENDS Process, WellFoundedInduction, TLAPS

-----------------------------------------------------------------------------
(* The ready queue: what its operations keep and change, for a ring over     *)
(* any set of processes.                                                     *)

\* scheduler_add links one process and moves no other: the head stays.
LEMMA RingAddProperties ==
  ASSUME NEW S, NEW q \in Seq(S), q # <<>>, NEW p \in S
  PROVE  /\ RingAdd(q, p) \in Seq(S)
         /\ RingAdd(q, p) # <<>>
         /\ RingAdd(q, p)[1] = q[1]
         /\ ToSet(RingAdd(q, p)) = ToSet(q) \cup {p}
         /\ NoDuplicates(q) /\ p \notin ToSet(q) => NoDuplicates(RingAdd(q, p))
<1> DEFINE r == RingAdd(q, p)
<1>1. /\ r \in Seq(S)
      /\ Len(r) = Len(q) + 1
      /\ \A i \in 1..(Len(q) + 1) :
            r[i] = IF i = 1 THEN q[1] ELSE IF i = 2 THEN p ELSE q[i - 1]
  BY DEF RingAdd, InsertAt
<1>2. Len(q) >= 1
  OBVIOUS
<1>3. ToSet(r) = ToSet(q) \cup {p}
  <2>1. ASSUME NEW x \in ToSet(r) PROVE x \in ToSet(q) \cup {p}
    BY <1>1, <1>2 DEF ToSet
  <2>2. p \in ToSet(r)
    <3>1. 2 \in DOMAIN r /\ r[2] = p
      BY <1>1, <1>2
    <3> QED BY <3>1 DEF ToSet
  <2>3. ASSUME NEW x \in ToSet(q) PROVE x \in ToSet(r)
    <3>1. PICK i \in 1..Len(q) : x = q[i]
      BY DEF ToSet
    <3>2. CASE i = 1
      BY <1>1, <1>2, <3>1, <3>2 DEF ToSet
    <3>3. CASE i # 1
      <4>1. i + 1 \in DOMAIN r /\ r[i + 1] = x
        BY <1>1, <3>1, <3>3
      <4> QED BY <4>1 DEF ToSet
    <3> QED BY <3>2, <3>3
  <2> QED BY <2>1, <2>2, <2>3
<1>4. ASSUME NoDuplicates(q), p \notin ToSet(q) PROVE NoDuplicates(r)
  <2> SUFFICES ASSUME NEW i \in 1..Len(r), NEW j \in 1..Len(r), i < j
               PROVE  r[i] # r[j]
    BY <1>1 DEF NoDuplicates
  <2>1. \A k \in 1..Len(q) : q[k] # p
    BY <1>4 DEF ToSet
  <2>2. \A k, l \in 1..Len(q) : k # l => q[k] # q[l]
    BY <1>4 DEF NoDuplicates
  <2>3. /\ r[i] = IF i = 1 THEN q[1] ELSE IF i = 2 THEN p ELSE q[i - 1]
        /\ r[j] = IF j = 2 THEN p ELSE q[j - 1]
    BY <1>1
  <2> HIDE DEF r
  <2>4. CASE i = 1
    BY <1>1, <1>2, <2>1, <2>2, <2>3, <2>4
  <2>5. CASE i = 2
    BY <1>1, <1>2, <2>1, <2>3, <2>5
  <2>6. CASE i > 2
    <3>1. i - 1 \in 1..Len(q) /\ j - 1 \in 1..Len(q) /\ i - 1 # j - 1
      BY <1>1, <2>6
    <3> QED BY <2>2, <2>3, <2>6, <3>1
  <2> QED BY <2>4, <2>5, <2>6
<1> QED BY <1>1, <1>2, <1>3, <1>4

\* Unlinking the i-th process of the ring moves those behind it up by one.
LEMMA RemoveAtProperties ==
  ASSUME NEW S, NEW q \in Seq(S), NEW k \in 1..Len(q)
  PROVE  /\ RemoveAt(q, k) \in Seq(S)
         /\ Len(RemoveAt(q, k)) = Len(q) - 1
         /\ \A i \in 1..(Len(q) - 1) :
               RemoveAt(q, k)[i] = IF i < k THEN q[i] ELSE q[i + 1]
<1> DEFINE a == SubSeq(q, 1, k - 1)
           b == SubSeq(q, k + 1, Len(q))
<1>1. a \in Seq(S) /\ Len(a) = k - 1 /\ \A i \in 1..(k - 1) : a[i] = q[i]
  OBVIOUS
<1>2. b \in Seq(S) /\ Len(b) = Len(q) - k /\ \A i \in 1..(Len(q) - k) : b[i] = q[i + k]
  <2>1. b \in Seq(S)
    OBVIOUS
  <2>2. CASE k = Len(q)
    BY <2>1, <2>2
  <2>3. CASE k < Len(q)
    BY <2>1, <2>3
  <2> QED BY <2>1, <2>2, <2>3
<1>3. RemoveAt(q, k) = a \o b
  BY DEF RemoveAt
<1> HIDE DEF a, b
<1>4. RemoveAt(q, k) \in Seq(S) /\ Len(RemoveAt(q, k)) = Len(q) - 1
  BY <1>1, <1>2, <1>3
<1>5. ASSUME NEW i \in 1..(Len(q) - 1)
      PROVE  RemoveAt(q, k)[i] = IF i < k THEN q[i] ELSE q[i + 1]
  <2>1. CASE i < k
    BY <1>1, <1>2, <1>3, <2>1
  <2>2. CASE i >= k
    <3>1. (a \o b)[i] = b[i - (k - 1)]
      BY <1>1, <1>2, <2>2
    <3>2. i - (k - 1) \in 1..(Len(q) - k) /\ (i - (k - 1)) + k = i + 1
      BY <2>2
    <3>3. b[i - (k - 1)] = q[(i - (k - 1)) + k]
      BY <1>2, <3>2
    <3> QED BY <1>3, <2>2, <3>1, <3>2, <3>3
  <2> QED BY <2>1, <2>2
<1> QED BY <1>4, <1>5

\* scheduler_remove unlinks the process and no other, and leaves the order of
\* the ring as it was.
LEMMA RingRemoveProperties ==
  ASSUME NEW S, NEW q \in Seq(S), NoDuplicates(q), NEW p
  PROVE  /\ RingRemove(q, p) \in Seq(S)
         /\ ToSet(RingRemove(q, p)) = ToSet(q) \ {p}
         /\ NoDuplicates(RingRemove(q, p))
         /\ q # <<>> /\ p # q[1] => /\ RingRemove(q, p) # <<>>
                                    /\ RingRemove(q, p)[1] = q[1]
<1>1. CASE p \notin ToSet(q)
  <2>1. RingRemove(q, p) = q
    BY <1>1 DEF RingRemove, RemoveFirst, ToSet
  <2> QED BY <1>1, <2>1
<1>2. CASE p \in ToSet(q)
  <2>1. PICK k \in 1..Len(q) : q[k] = p
    BY <1>2 DEF ToSet
  <2>2. {i \in 1..Len(q) : q[i] = p} = {k}
    BY <2>1 DEF NoDuplicates
  <2>3. Min({k}) = k
    BY DEF Min
  <2>4. RingRemove(q, p) = RemoveAt(q, k)
    BY <2>1, <2>2, <2>3 DEF RingRemove, RemoveFirst, SelectInSeq
  <2> DEFINE r == RingRemove(q, p)
  <2>5. /\ r \in Seq(S)
        /\ Len(r) = Len(q) - 1
        /\ \A i \in 1..(Len(q) - 1) : r[i] = IF i < k THEN q[i] ELSE q[i + 1]
    BY <2>4, RemoveAtProperties
  <2>6. \A i, j \in 1..Len(q) : i # j => q[i] # q[j]
    BY DEF NoDuplicates
  <2> HIDE DEF r
  <2>7. ToSet(r) = ToSet(q) \ {p}
    <3>1. ASSUME NEW x \in ToSet(r) PROVE x \in ToSet(q) \ {p}
      <4>1. PICK i \in 1..(Len(q) - 1) : x = r[i]
        BY <2>5 DEF ToSet
      <4>2. CASE i < k
        BY <2>1, <2>5, <2>6, <4>1, <4>2 DEF ToSet
      <4>3. CASE i >= k
        <5>1. x = q[i + 1] /\ i + 1 \in 1..Len(q) /\ i + 1 # k
          BY <2>5, <4>1, <4>3
        <5> QED BY <2>1, <2>6, <5>1 DEF ToSet
      <4> QED BY <4>2, <4>3
    <3>2. ASSUME NEW x \in ToSet(q), x # p PROVE x \in ToSet(r)
      <4>1. PICK i \in 1..Len(q) : x = q[i]
        BY DEF ToSet
      <4>2. CASE i < k
        <5>1. i \in DOMAIN r /\ r[i] = x
          BY <2>5, <4>1, <4>2
        <5> QED BY <5>1 DEF ToSet
      <4>3. CASE i > k
        <5>1. i - 1 \in DOMAIN r /\ r[i - 1] = x
          BY <2>5, <4>1, <4>3
        <5> QED BY <5>1 DEF ToSet
      <4> QED BY <2>1, <3>2, <4>1, <4>2, <4>3
    <3> QED BY <3>1, <3>2
  <2>8. NoDuplicates(r)
    BY <2>5, <2>6 DEF NoDuplicates
  <2>9. ASSUME q # <<>>, p # q[1] PROVE r # <<>> /\ r[1] = q[1]
    BY <2>1, <2>5, <2>9
  <2> QED BY <2>5, <2>7, <2>8, <2>9 DEF r
<1> QED BY <1>1, <1>2

\* Advancing ready_queue changes nothing but which process is the head.
LEMMA RingAdvanceProperties ==
  ASSUME NEW S, NEW q \in Seq(S), q # <<>>
  PROVE  /\ RingAdvance(q) \in Seq(S)
         /\ RingAdvance(q) # <<>>
         /\ RingAdvance(q)[1] = RingNext(q)
         /\ RingNext(q) \in ToSet(q)
         /\ ToSet(RingAdvance(q)) = ToSet(q)
         /\ NoDuplicates(q) => NoDuplicates(RingAdvance(q))
         /\ NoDuplicates(q) /\ RingNext(q) = q[1] => ToSet(q) = {q[1]}
<1> DEFINE r == RingAdvance(q)
<1>1. /\ r \in Seq(S)
      /\ Len(r) = Len(q)
      /\ \A i \in 1..Len(q) : r[i] = IF i = Len(q) THEN q[1] ELSE q[i + 1]
  BY DEF RingAdvance
<1>2. Len(q) >= 1
  OBVIOUS
<1>3. r[1] = RingNext(q)
  BY <1>1, <1>2 DEF RingNext
<1>4. RingNext(q) \in ToSet(q)
  BY <1>2 DEF RingNext, ToSet
<1>5. ToSet(r) = ToSet(q)
  <2>1. ASSUME NEW x \in ToSet(r) PROVE x \in ToSet(q)
    BY <1>1, <1>2 DEF ToSet
  <2>2. ASSUME NEW x \in ToSet(q) PROVE x \in ToSet(r)
    <3>1. PICK i \in 1..Len(q) : x = q[i]
      BY DEF ToSet
    <3>2. CASE i = 1
      <4>1. Len(q) \in DOMAIN r /\ r[Len(q)] = x
        BY <1>1, <1>2, <3>1, <3>2
      <4> QED BY <4>1 DEF ToSet
    <3>3. CASE i # 1
      <4>1. i - 1 \in DOMAIN r /\ r[i - 1] = x
        BY <1>1, <3>1, <3>3
      <4> QED BY <4>1 DEF ToSet
    <3> QED BY <3>2, <3>3
  <2> QED BY <2>1, <2>2
<1>6. ASSUME NoDuplicates(q) PROVE NoDuplicates(r)
  <2>1. \A i, j \in 1..Len(q) : i # j => q[i] # q[j]
    BY <1>6 DEF NoDuplicates
  <2> QED BY <1>1, <1>2, <2>1 DEF NoDuplicates
<1>7. ASSUME NoDuplicates(q), RingNext(q) = q[1] PROVE ToSet(q) = {q[1]}
  <2>1. ASSUME Len(q) > 1 PROVE FALSE
    <3>1. 1 \in DOMAIN q /\ 2 \in DOMAIN q /\ q[2] = q[1]
      BY <1>7, <2>1 DEF RingNext
    <3> QED BY <1>7, <3>1 DEF NoDuplicates
  <2>2. Len(q) = 1
    <3>1. Len(q) \in Nat
      OBVIOUS
    <3>2. \A n \in Nat : n >= 1 => n = 1 \/ n > 1
      OBVIOUS
    <3>3. Len(q) = 1 \/ Len(q) > 1
      BY <1>2, <3>1, <3>2, Zenon
    <3> QED BY <2>1, <3>3, Zenon
  <2> QED BY <2>2 DEF ToSet
<1> QED BY <1>1, <1>2, <1>3, <1>4, <1>5, <1>6, <1>7

-----------------------------------------------------------------------------

\* The least element that the scans over exit_records stop at exists.
LEMMA MinIsElement ==
  ASSUME NEW S, S \subseteq Nat, S # {}
  PROVE  Min(S) \in S
<1> DEFINE R == OpToRel(<, Nat)
<1>1. IsWellFoundedOn(R, Nat)
  BY NatLessThanWellFounded
<1>2. PICK x \in S : \A y \in S : <<y, x>> \notin R
  <2> HIDE DEF R
  <2> QED BY <1>1, WFMin
<1>3. \A y \in S : x =< y
  <2> SUFFICES ASSUME NEW y \in S, y < x PROVE FALSE
    OBVIOUS
  <2>1. <<y, x>> \in R
    BY DEF OpToRel
  <2> QED BY <1>2, <2>1
<1> QED BY <1>3 DEF Min

-----------------------------------------------------------------------------
(* scheduler_switch *)

\* What the callers of scheduler_switch hand it: all is in order but for the
\* current process, which heads the ring although it may be DEAD or BLOCKED.
ReadyToSwitch(q, st, bl) ==
  /\ q \in Seq(Pids) /\ q # <<>> /\ q[1] = current_process /\ NoDuplicates(q)
  /\ st \in [Pids -> ProcessStates]
  /\ bl \subseteq UserPids /\ zombie_list \subseteq UserPids
  /\ current_process \in Pids
  /\ st[KernelTask] \in {"READY", "RUNNING"}
  /\ st[current_process] \in {"RUNNING", "DEAD", "BLOCKED"}
  /\ \A p \in Pids :
       /\ p \in ToSet(q) <=> st[p] \in {"READY", "RUNNING"} \/ p = current_process
       /\ st[p] = "RUNNING" => p = current_process
       /\ p \in bl <=> st[p] = "BLOCKED" /\ p # current_process
       /\ p \in zombie_list \cup reaping <=> st[p] = "DEAD" /\ p # current_process
       /\ ~(p \in zombie_list /\ p \in reaping)

\* scheduler_switch leaves a sound ring, headed by a process that now runs, and
\* every process on the list of its state; it changes no state but between
\* READY and RUNNING.
LEMMA SwitchProperties ==
  ASSUME NEW q, NEW st, NEW bl, ReadyToSwitch(q, st, bl),
         scheduler_switch(q, st, bl), reaping' = reaping
  PROVE  /\ state' \in [Pids -> ProcessStates]
         /\ ready_queue' \in Seq(Pids)
         /\ blocked_list' \subseteq UserPids
         /\ zombie_list' \subseteq UserPids
         /\ current_process' \in Pids
         /\ RingSound' /\ ListsMatchStates'
         /\ state'[current_process'] = "RUNNING"
         /\ \A p \in Pids : \/ state'[p] = st[p]
                            \/ {st[p], state'[p]} \subseteq {"READY", "RUNNING"}
         /\ QueuedOrBlocked' =
              (ToSet(q) \cup bl) \ {p \in {current_process} : st[p] = "DEAD"}
<1> USE DEF KernelTask
<1> DEFINE prev == current_process
           next == RingNext(q)
           r == RingAdvance(q)
<1>0. 0 \in Pids /\ UserPids = Pids \ {0}
  BY BoundsAssumption DEF Pids, UserPids
<1>1. /\ q \in Seq(Pids) /\ q # <<>> /\ q[1] = prev /\ NoDuplicates(q)
      /\ 0 \in ToSet(q)
  BY <1>0 DEF ReadyToSwitch
<1>2. /\ r \in Seq(Pids) /\ r # <<>> /\ r[1] = next /\ ToSet(r) = ToSet(q)
      /\ NoDuplicates(r) /\ next \in ToSet(q)
      /\ next = prev => ToSet(q) = {prev}
  BY <1>1, RingAdvanceProperties
<1>3. ToSet(q) \subseteq Pids
  BY <1>1 DEF ToSet
<1> HIDE DEF next, r
<1>4. CASE next = prev
  <2>1. /\ prev = 0 /\ ToSet(q) = {0} /\ st[0] = "RUNNING"
    BY <1>0, <1>1, <1>2, <1>4 DEF ReadyToSwitch
  <2>2. /\ state' = st /\ ready_queue' = q /\ blocked_list' = bl
        /\ current_process' = prev /\ zombie_list' = zombie_list
    BY <1>4 DEF scheduler_switch, next
  <2>3. RingSound'
    BY <1>1, <2>1, <2>2 DEF RingSound, Queued
  <2>4. ListsMatchStates'
    BY <2>1, <2>2 DEF ListsMatchStates, Queued, ReadyToSwitch
  <2> QED BY <1>1, <2>1, <2>2, <2>3, <2>4 DEF ReadyToSwitch, QueuedOrBlocked, Queued
<1>5. CASE next # prev
  <2> DEFINE off == st[prev] \in {"DEAD", "BLOCKED"}
             r2 == IF off THEN RingRemove(r, prev) ELSE r
  <2>1. /\ current_process' = next
        /\ state' = [st EXCEPT ![next] = "RUNNING",
                               ![prev] = IF @ \in OffQueue THEN @ ELSE "READY"]
        /\ ready_queue' = r2
        /\ blocked_list' = IF st[prev] = "BLOCKED" THEN bl \cup {prev} ELSE bl
        /\ zombie_list' = IF st[prev] = "DEAD" THEN zombie_list \cup {prev} ELSE zombie_list
    BY <1>5 DEF scheduler_switch, next, r, OffQueue
  <2>2. st[next] = "READY" /\ next \in Pids /\ prev \in Pids
    BY <1>2, <1>3, <1>5 DEF ReadyToSwitch
  <2>3. /\ r2 \in Seq(Pids) /\ r2 # <<>> /\ r2[1] = next /\ NoDuplicates(r2)
        /\ ToSet(r2) = IF off THEN ToSet(q) \ {prev} ELSE ToSet(q)
    BY <1>2, <1>5, RingRemoveProperties
  <2>4. \A p \in Pids : state'[p] = IF p = next THEN "RUNNING"
                                    ELSE IF p = prev /\ ~off THEN "READY" ELSE st[p]
    BY <1>5, <2>1, <2>2 DEF ReadyToSwitch, OffQueue
  <2>5. state' \in [Pids -> ProcessStates]
    BY <2>1, <2>2 DEF ReadyToSwitch, ProcessStates
  <2>6. st[prev] = "RUNNING" \/ off
    BY DEF ReadyToSwitch
  <2> HIDE DEF r2
  <2>7. off => prev # 0
    BY DEF ReadyToSwitch
  <2>8. RingSound'
    BY <1>1, <2>1, <2>3, <2>7 DEF RingSound, Queued
  <2>9. ListsMatchStates'
    <3> SUFFICES ASSUME NEW p \in Pids
                 PROVE  /\ p \in ToSet(r2) <=> \/ state'[p] \in {"READY", "RUNNING"}
                                               \/ state'[p] = "DEAD" /\ p = next
                        /\ state'[p] = "RUNNING" => p = next
                        /\ p \in blocked_list' <=> state'[p] = "BLOCKED"
                        /\ p \in zombie_list' \cup reaping <=> state'[p] = "DEAD" /\ p # next
                        /\ ~(p \in zombie_list' /\ p \in reaping)
      BY <2>1 DEF ListsMatchStates, Queued
    <3> QED BY <1>5, <2>1, <2>2, <2>3, <2>4, <2>6 DEF ReadyToSwitch
  <2>10. /\ blocked_list' \subseteq UserPids
         /\ zombie_list' \subseteq UserPids
    BY <1>0, <2>1, <2>2, <2>7 DEF ReadyToSwitch
  <2>11. QueuedOrBlocked' = (ToSet(q) \cup bl) \ {p \in {prev} : st[p] = "DEAD"}
    <3>1. QueuedOrBlocked' = ToSet(r2) \cup blocked_list'
      BY <2>1 DEF QueuedOrBlocked, Queued
    <3>2. prev \in ToSet(q) /\ prev \notin bl
      BY <2>2 DEF ReadyToSwitch
    <3> QED BY <2>1, <2>3, <2>6, <3>1, <3>2
  <2>12. \A p \in Pids : \/ state'[p] = st[p]
                         \/ {st[p], state'[p]} \subseteq {"READY", "RUNNING"}
    BY <2>2, <2>4, <2>6
  <2> QED BY <2>1, <2>2, <2>3, <2>4, <2>5, <2>8, <2>9, <2>10, <2>11, <2>12
<1> QED BY <1>4, <1>5

-----------------------------------------------------------------------------
(* Facts used for every action *)

\* The kernel task is a process, and the null pointer is none.
LEMMA PidFacts ==
  /\ 0 \in Pids /\ UserPids = Pids \ {0} /\ Nobody \notin Pids /\ Pids \subseteq Nat
  /\ next_pid \in Nat /\ next_pid <= MaxPid /\ next_pid # 0 => next_pid \in UserPids
BY BoundsAssumption DEF Pids, UserPids, Nobody

\* What the invariant says of the ring and of the process that has the CPU.
LEMMA RingFacts ==
  ASSUME IInv
  PROVE  /\ ready_queue \in Seq(Pids) /\ ready_queue # <<>>
         /\ ready_queue[1] = current_process
         /\ NoDuplicates(ready_queue)
         /\ Queued \subseteq Pids /\ KernelTask \in Queued
         /\ current_process \in Queued /\ current_process \in Pids
         /\ current_process \notin blocked_list
         /\ QueuedOrBlocked \subseteq Pids
<1>1. ready_queue \in Seq(Pids) /\ ready_queue[1] = current_process
      /\ NoDuplicates(ready_queue) /\ KernelTask \in Queued /\ current_process \in Pids
      /\ blocked_list \subseteq Pids
  BY PidFacts DEF IInv, TypeOK, RingSound
<1>2. ready_queue # <<>>
  BY <1>1 DEF Queued, ToSet
<1>3. Queued \subseteq Pids /\ current_process \in Queued
  BY <1>1, <1>2 DEF Queued, ToSet
<1>4. current_process \notin blocked_list
  BY <1>1 DEF IInv, ListsMatchStates, LifeCycle
<1> QED BY <1>1, <1>2, <1>3, <1>4 DEF QueuedOrBlocked

\* scheduler_add of a process that is not on the ring.
LEMMA LinkFacts ==
  ASSUME IInv, NEW p \in Pids, p \notin Queued
  PROVE  LET q == RingAdd(ready_queue, p)
         IN /\ q \in Seq(Pids) /\ q # <<>> /\ q[1] = current_process
            /\ NoDuplicates(q)
            /\ ToSet(q) = Queued \cup {p}
<1>1. /\ ready_queue \in Seq(Pids) /\ ready_queue # <<>>
      /\ ready_queue[1] = current_process /\ NoDuplicates(ready_queue)
  BY RingFacts
<1>2. p \notin ToSet(ready_queue)
  BY DEF Queued
<1> DEFINE q == RingAdd(ready_queue, p)
<1>3. q \in Seq(Pids) /\ q # <<>>
  BY <1>1, RingAddProperties
<1>4. q[1] = ready_queue[1]
  <2>1. ready_queue \in Seq(Pids) /\ ready_queue # <<>>
    BY <1>1
  <2> QED BY <2>1, RingAddProperties
<1>5. ToSet(q) = ToSet(ready_queue) \cup {p}
  BY <1>1, RingAddProperties
<1>6. NoDuplicates(q)
  BY <1>1, <1>2, RingAddProperties
<1> QED BY <1>1, <1>3, <1>4, <1>5, <1>6 DEF Queued

\* scheduler_wake of at most one sleeper.
LEMMA WakeFacts ==
  ASSUME IInv, NEW W, W = {} \/ \E w \in blocked_list : W = {w}
  PROVE  LET q == WokenQueue(W)
         IN /\ q \in Seq(Pids) /\ q # <<>> /\ q[1] = current_process
            /\ NoDuplicates(q)
            /\ ToSet(q) = Queued \cup W
<1>1. CASE W = {}
  BY <1>1, RingFacts DEF WokenQueue, Queued
<1>2. ASSUME NEW w \in blocked_list, W = {w}
      PROVE  LET q == WokenQueue(W)
             IN /\ q \in Seq(Pids) /\ q # <<>> /\ q[1] = current_process
                /\ NoDuplicates(q)
                /\ ToSet(q) = Queued \cup W
  <2>1. WokenQueue(W) = RingAdd(ready_queue, w)
    BY <1>2 DEF WokenQueue
  <2>2. w \in Pids /\ w \notin Queued
    BY <1>2, PidFacts DEF IInv, TypeOK, ListsMatchStates
  <2> QED BY <1>2, <2>1, <2>2, LinkFacts
<1> QED BY <1>1, <1>2

\* A record is held for a process that is dead and off the CPU.
LEMMA RecordFacts ==
  ASSUME IInv, NEW i \in Slots, exit_records[i] # NoRecord
  PROVE  /\ exit_records[i] \in Record
         /\ exit_records[i].pid \in UserPids
         /\ exit_records[i].parent_pid \in UserPids
         /\ exit_records[i].code \in Codes \cup {FaultCode}
         /\ fate[exit_records[i].pid] = "recorded"
<1>1. exit_records[i] \in Record
  BY DEF IInv, TypeOK
<1>2. /\ exit_records[i].pid \in UserPids
      /\ exit_records[i].parent_pid \in UserPids
      /\ exit_records[i].code \in Codes \cup {FaultCode}
  BY <1>1 DEF Record
<1> QED BY <1>1, <1>2 DEF IInv, ExitAccounting

\* A timer interrupt may always switch.
LEMMA TickMaySwitch ==
  ASSUME IInv
  PROVE  ReadyToSwitch(ready_queue, state, blocked_list)
<1>1. current_process \in Queued /\ ready_queue # <<>>
  BY RingFacts
<1> QED BY <1>1 DEF IInv, TypeOK, RingSound, ListsMatchStates, LifeCycle, ReadyToSwitch, Queued

\* A user process may always sleep, a killed one that still has the CPU too.
LEMMA SleeperMaySwitch ==
  ASSUME IInv, current_process # KernelTask
  PROVE  ReadyToSwitch(ready_queue, [state EXCEPT ![current_process] = "BLOCKED"],
                       blocked_list)
<1>1. /\ current_process \in Queued /\ ready_queue # <<>> /\ current_process \in Pids
      /\ KernelTask \in Pids
  BY RingFacts, PidFacts DEF KernelTask
<1> DEFINE st == [state EXCEPT ![current_process] = "BLOCKED"]
<1>2. /\ st \in [Pids -> ProcessStates]
      /\ \A p \in Pids : st[p] = IF p = current_process THEN "BLOCKED" ELSE state[p]
  BY DEF IInv, TypeOK, ProcessStates
<1> HIDE DEF st
<1>3. ReadyToSwitch(ready_queue, st, blocked_list)
  <2>1. \A p \in Pids :
       /\ p \in ToSet(ready_queue) <=> st[p] \in {"READY", "RUNNING"} \/ p = current_process
       /\ st[p] = "RUNNING" => p = current_process
       /\ p \in blocked_list <=> st[p] = "BLOCKED" /\ p # current_process
       /\ p \in zombie_list \cup reaping <=> st[p] = "DEAD" /\ p # current_process
       /\ ~(p \in zombie_list /\ p \in reaping)
    BY <1>1, <1>2, RingFacts DEF IInv, ListsMatchStates, LifeCycle, Queued
  <2> QED BY <1>1, <1>2, <2>1 DEF IInv, TypeOK, RingSound, LifeCycle, ReadyToSwitch
<1> QED BY <1>3 DEF st

\* A step that leaves exit_records alone and the dead as they are keeps the
\* accounts right.
LEMMA ExitAccountingKept ==
  ASSUME IInv, exit_records' = exit_records,
         \A p \in UserPids : fate'[p] = "recorded" <=> fate[p] = "recorded",
         \A p \in UserPids : state[p] \in {"DEAD", "FREED"} /\ p # current_process =>
            /\ state'[p] \in {"DEAD", "FREED"} /\ p # current_process'
            /\ parent_pid'[p] = parent_pid[p] /\ exit_code'[p] = exit_code[p]
  PROVE  ExitAccounting'
<1>1. ASSUME NEW i \in Slots, exit_records[i] # NoRecord
      PROVE  LET c == exit_records[i].pid
             IN /\ exit_records[i].parent_pid = parent_pid'[c]
                /\ exit_records[i].code = exit_code'[c]
                /\ state'[c] \in {"DEAD", "FREED"} /\ c # current_process'
  <2> DEFINE c == exit_records[i].pid
  <2>1. /\ exit_records[i].parent_pid = parent_pid[c]
        /\ exit_records[i].code = exit_code[c]
        /\ state[c] \in {"DEAD", "FREED"} /\ c # current_process
    BY <1>1 DEF IInv, ExitAccounting
  <2>2. c \in UserPids
    BY <1>1, RecordFacts
  <2> QED BY <2>1, <2>2
<1> QED BY <1>1 DEF IInv, ExitAccounting

-----------------------------------------------------------------------------
(* Every action keeps the invariant *)

\* No dead process off the CPU and no freed one changes its state.
DeadUntouched ==
  \A x \in Pids : state[x] \in {"DEAD", "FREED"} /\ x # current_process => state'[x] = state[x]

\* The step that ExitDeliveredOnce allows.
DeliversOnce ==
  \A p \in UserPids :
    /\ fate[p] # "collected" /\ fate'[p] = "collected"
          => fate[p] = "recorded" /\ current_process = parent_pid[p]
    /\ fate[p] \in {"unrecorded", "collected", "overwritten"} => fate'[p] = fate[p]

\* A tick counts, or switches to the next process on the ring.
LEMMA TickKeepsIInv ==
  ASSUME IInv, scheduler_tick
  PROVE  IInv' /\ DeadUntouched /\ DeliversOnce
<1> USE DEF KernelTask
<1>1. CASE tick_count + 1 >= TIMESLICE \/ state[current_process] = "DEAD"
  <2>1. /\ tick_count' = 0 /\ scheduler_switch(ready_queue, state, blocked_list)
        /\ UNCHANGED <<parent_pid, exit_code, block_reason, wait_target, pc, exit_records, fate,
                       reaping, foreground_process, next_pid, kbd>>
    BY <1>1 DEF scheduler_tick, exitVars
  <2>2. ReadyToSwitch(ready_queue, state, blocked_list)
    BY TickMaySwitch
  <2>3. /\ state' \in [Pids -> ProcessStates]
        /\ ready_queue' \in Seq(Pids)
        /\ blocked_list' \subseteq UserPids
        /\ zombie_list' \subseteq UserPids
        /\ current_process' \in Pids
        /\ RingSound' /\ ListsMatchStates'
        /\ state'[current_process'] = "RUNNING"
        /\ \A p \in Pids : \/ state'[p] = state[p]
                           \/ {state[p], state'[p]} \subseteq {"READY", "RUNNING"}
        /\ QueuedOrBlocked' =
             QueuedOrBlocked \ {p \in {current_process} : state[p] = "DEAD"}
    BY <2>1, <2>2, SwitchProperties DEF QueuedOrBlocked, Queued
  <2>4. TypeOK'
    <3>1. 0 \in 0..(TIMESLICE - 1)
      BY BoundsAssumption
    <3> QED BY <2>1, <2>3, <3>1 DEF IInv, TypeOK
  <2>5. ExitAccounting'
    BY <2>1, <2>3, PidFacts, ExitAccountingKept
  <2>6. WaiterHasChild'
    <3>1. \A p \in blocked_list' : p \in blocked_list
      BY <2>3 DEF IInv, ListsMatchStates, LifeCycle, UserPids, Pids
    <3>2. \A c \in QueuedOrBlocked : c \in QueuedOrBlocked' \/ fate[c] = "killed"
      BY <2>3 DEF IInv, LifeCycle
    <3> QED BY <2>1, <3>1, <3>2 DEF IInv, WaiterHasChild
  <2>7. ForegroundAlive'
    BY <2>1, <2>3 DEF IInv, ForegroundAlive, LifeCycle
  <2>8. LifeCycle'
    BY <2>1, <2>3, PidFacts DEF IInv, LifeCycle, TypeOK
  <2>9. DeadUntouched /\ DeliversOnce
    BY <2>1, <2>3 DEF DeadUntouched, DeliversOnce
  <2> QED BY <2>3, <2>4, <2>5, <2>6, <2>7, <2>8, <2>9 DEF IInv
<1>2. CASE ~(tick_count + 1 >= TIMESLICE \/ state[current_process] = "DEAD")
  <2>1. /\ tick_count' = tick_count + 1
        /\ UNCHANGED <<state, ready_queue, blocked_list, zombie_list, current_process,
                       parent_pid, exit_code, block_reason, wait_target, pc, exit_records, fate,
                       reaping, foreground_process, next_pid, kbd>>
    BY <1>2 DEF scheduler_tick, exitVars, listVars
  <2>2. tick_count' \in 0..(TIMESLICE - 1)
    BY <1>2, <2>1, BoundsAssumption DEF IInv, TypeOK
  <2>3. DeadUntouched /\ DeliversOnce
    BY <2>1 DEF DeadUntouched, DeliversOnce
  <2> QED BY <2>1, <2>2, <2>3 DEF IInv, TypeOK, RingSound, ListsMatchStates, ExitAccounting,
             WaiterHasChild, ForegroundAlive, LifeCycle, Queued, QueuedOrBlocked
<1> QED BY <1>1, <1>2

\* Going to sleep in a wait for a child there is, or in a read.
LEMMA BlockKeepsIInv ==
  ASSUME IInv, NEW call \in {"wait", "read"}, NEW reason \in {"WAIT", "READ"},
         NEW target \in Pids, current_process # KernelTask,
         reason = "WAIT" => HasChild(current_process, target),
         BlockIn(call, reason, target),
         UNCHANGED <<parent_pid, exit_code, exitVars, otherVars>>
  PROVE  IInv' /\ DeadUntouched /\ DeliversOnce
<1> USE DEF KernelTask
<1> DEFINE me == current_process
           st == [state EXCEPT ![me] = "BLOCKED"]
<1>1. /\ block_reason' = [block_reason EXCEPT ![me] = reason]
      /\ wait_target' = [wait_target EXCEPT ![me] = target]
      /\ pc' = [pc EXCEPT ![me] = call]
      /\ scheduler_switch(ready_queue, st, blocked_list)
      /\ UNCHANGED <<parent_pid, exit_code, exit_records, fate, reaping, foreground_process,
                     next_pid, tick_count, kbd>>
  BY DEF BlockIn, exitVars, otherVars
<1>2. /\ me \in Pids /\ me \notin blocked_list
      /\ \A p \in Pids : st[p] = IF p = me THEN "BLOCKED" ELSE state[p]
  BY RingFacts DEF IInv, TypeOK
<1>3. ReadyToSwitch(ready_queue, st, blocked_list)
  BY SleeperMaySwitch
<1> HIDE DEF st
<1>4. /\ state' \in [Pids -> ProcessStates]
      /\ ready_queue' \in Seq(Pids)
      /\ blocked_list' \subseteq UserPids
      /\ zombie_list' \subseteq UserPids
      /\ current_process' \in Pids
      /\ RingSound' /\ ListsMatchStates'
      /\ state'[current_process'] = "RUNNING"
      /\ \A p \in Pids : \/ state'[p] = st[p]
                         \/ {st[p], state'[p]} \subseteq {"READY", "RUNNING"}
      /\ QueuedOrBlocked' = QueuedOrBlocked
  BY <1>1, <1>2, <1>3, SwitchProperties DEF QueuedOrBlocked, Queued
<1>5. TypeOK'
  BY <1>1, <1>4 DEF IInv, TypeOK
<1>6. ExitAccounting'
  BY <1>1, <1>2, <1>4, PidFacts, ExitAccountingKept
<1>7. WaiterHasChild'
  <2> SUFFICES ASSUME NEW p \in blocked_list', block_reason'[p] = "WAIT"
               PROVE  \E c \in UserPids : /\ parent_pid[c] = p /\ wait_target'[p] \in {0, c}
                                          /\ c \in QueuedOrBlocked \/ fate[c] = "killed"
    BY <1>1, <1>4 DEF WaiterHasChild
  <2>1. CASE p = me
    <3>1. reason = "WAIT" /\ wait_target'[p] = target
      BY <1>1, <1>2, <2>1 DEF IInv, TypeOK
    <3>2. PICK c \in QueuedOrBlocked : parent_pid[c] = me /\ target \in {0, c}
      BY <3>1 DEF HasChild
    <3>3. c \in UserPids
      BY <3>2, RingFacts, PidFacts DEF IInv, LifeCycle
    <3> QED BY <2>1, <3>1, <3>2, <3>3
  <2>2. CASE p # me
    <3>1. p \in blocked_list /\ p \in Pids
      BY <1>2, <1>4, <2>2, PidFacts DEF IInv, ListsMatchStates
    <3>2. block_reason[p] = "WAIT" /\ wait_target'[p] = wait_target[p]
      BY <1>1, <2>2, <3>1 DEF IInv, TypeOK
    <3> QED BY <3>1, <3>2 DEF IInv, WaiterHasChild
  <2> QED BY <2>1, <2>2
<1>8. ForegroundAlive'
  BY <1>1, <1>4 DEF IInv, ForegroundAlive
<1>9. LifeCycle'
  <2>1. pc'[0] = "run"
    BY <1>1, PidFacts DEF IInv, TypeOK, LifeCycle
  <2>2. \A p \in Pids : /\ state'[p] = "UNUSED" <=> p >= next_pid
                        /\ state'[p] = "UNUSED" => fate[p] = "live"
    BY <1>2, <1>4 DEF IInv, LifeCycle, TypeOK
  <2>3. state'[0] \in {"READY", "RUNNING"}
    BY <1>2, <1>4, PidFacts DEF IInv, LifeCycle
  <2>4. \A p \in Pids : \/ fate[p] \in {"live", "killed"}
                        \/ state'[p] \in {"DEAD", "FREED"} /\ p # current_process'
    BY <1>2, <1>4 DEF IInv, LifeCycle
  <2> QED BY <1>1, <1>4, <2>1, <2>2, <2>3, <2>4 DEF IInv, LifeCycle
<1>10. DeadUntouched /\ DeliversOnce
  BY <1>1, <1>2, <1>4 DEF DeadUntouched, DeliversOnce
<1> QED BY <1>4, <1>5, <1>6, <1>7, <1>8, <1>9, <1>10 DEF IInv

\* Taking characters off the keyboard ring, or sleeping until there are some.
LEMMA ReadKeepsIInv ==
  ASSUME IInv, current_process # KernelTask, ReadTurn
  PROVE  IInv' /\ DeadUntouched /\ DeliversOnce
<1>1. CASE kbd = 0
  BY <1>1, PidFacts, BlockKeepsIInv DEF ReadTurn
<1>2. CASE kbd > 0
  <2>1. PICK n \in 1..kbd : kbd' = kbd - n
    BY <1>2 DEF ReadTurn
  <2>2. /\ pc' = [pc EXCEPT ![current_process] = "run"]
        /\ UNCHANGED <<state, parent_pid, exit_code, block_reason, wait_target, ready_queue,
                       blocked_list, zombie_list, current_process, exit_records, fate,
                       reaping, foreground_process, next_pid, tick_count>>
    BY <1>2 DEF ReadTurn, listVars, exitVars
  <2>3. kbd' \in 0..KbdCapacity
    BY <2>1, BoundsAssumption DEF IInv, TypeOK
  <2>4. TypeOK' /\ LifeCycle'
    BY <2>2, <2>3 DEF IInv, TypeOK, LifeCycle
  <2>5. DeadUntouched /\ DeliversOnce
    BY <2>2 DEF DeadUntouched, DeliversOnce
  <2> QED BY <2>2, <2>4, <2>5 DEF IInv, RingSound, ListsMatchStates, ExitAccounting,
             WaiterHasChild, ForegroundAlive, Queued, QueuedOrBlocked
<1> QED BY <1>1, <1>2 DEF IInv, TypeOK

\* One turn of sys_wait: collects a record, gives up or sleeps.
LEMMA WaitKeepsIInv ==
  ASSUME IInv, current_process # KernelTask, NEW target \in Pids, WaitTurn(target)
  PROVE  IInv' /\ DeadUntouched /\ DeliversOnce
<1> DEFINE me == current_process
           hits == Collectable(me, target)
<1>1. CASE hits # {}
  <2> DEFINE k == Min(hits)
             c == exit_records[k].pid
  <2>1. /\ exit_records' = [exit_records EXCEPT ![k] = NoRecord]
        /\ fate' = [fate EXCEPT ![c] = "collected"]
        /\ pc' = [pc EXCEPT ![me] = "run"]
        /\ UNCHANGED <<state, parent_pid, exit_code, block_reason, wait_target, ready_queue,
                       blocked_list, zombie_list, current_process, reaping,
                       foreground_process, next_pid, tick_count, kbd>>
    BY <1>1 DEF WaitTurn, listVars, otherVars
  <2>2. k \in Slots /\ exit_records[k] # NoRecord /\ exit_records[k].parent_pid = me
    <3>1. hits \subseteq Nat
      BY DEF Collectable, Slots
    <3>2. k \in hits
      BY <1>1, <3>1, MinIsElement
    <3> QED BY <3>2 DEF Collectable
  <2> HIDE DEF k, hits
  <2>3. c \in UserPids /\ fate[c] = "recorded"
    BY <2>2, RecordFacts
  <2>4. /\ state[c] \in {"DEAD", "FREED"} /\ c # current_process /\ me = parent_pid[c]
        /\ \A j \in Slots : j # k => exit_records[j].pid # c
    BY <2>2 DEF IInv, ExitAccounting
  <2>5. TypeOK' /\ LifeCycle'
    <3>1. \A p \in Pids : fate'[p] = IF p = c THEN "collected" ELSE fate[p]
      BY <2>1, <2>3, PidFacts DEF IInv, TypeOK
    <3>2. LifeCycle'
      BY <2>1, <2>4, <3>1 DEF IInv, LifeCycle, TypeOK
    <3> QED BY <2>1, <2>2, <2>3, <3>2 DEF IInv, TypeOK, Fates
  <2>6. ExitAccounting'
    <3>1. /\ \A i \in Slots : exit_records'[i] = IF i = k THEN NoRecord ELSE exit_records[i]
          /\ \A p \in UserPids : fate'[p] = IF p = c THEN "collected" ELSE fate[p]
      BY <2>1, <2>3, PidFacts DEF IInv, TypeOK
    <3>2. NoRecord.pid = 0 /\ 0 \notin UserPids
      BY PidFacts DEF NoRecord
    <3>3. \A p \in UserPids :
             fate'[p] = "recorded" <=> \E i \in Slots : exit_records'[i].pid = p
      BY <2>2, <2>4, <3>1, <3>2 DEF IInv, ExitAccounting
    <3>4. \A i, j \in Slots : i # j /\ exit_records'[i] # NoRecord
                              => exit_records'[i].pid # exit_records'[j].pid
      <4> SUFFICES ASSUME NEW i \in Slots, NEW j \in Slots, i # j, exit_records'[i] # NoRecord
                   PROVE  exit_records'[i].pid # exit_records'[j].pid
        OBVIOUS
      <4>1. i # k /\ exit_records'[i] = exit_records[i] /\ exit_records[i].pid \in UserPids
        BY <3>1, RecordFacts
      <4> QED BY <3>1, <3>2, <4>1 DEF IInv, ExitAccounting
    <3> QED BY <2>1, <3>1, <3>3, <3>4 DEF IInv, ExitAccounting
  <2>7. WaiterHasChild'
    <3>1. \A d \in UserPids : fate[d] = "killed" => fate'[d] = "killed"
      BY <2>1, <2>3, PidFacts DEF IInv, TypeOK
    <3> QED BY <2>1, <3>1 DEF IInv, WaiterHasChild, QueuedOrBlocked, Queued
  <2>8. ForegroundAlive'
    <3>1. \A d \in Pids : fate[d] = "killed" => fate'[d] = "killed"
      BY <2>1, <2>3, PidFacts DEF IInv, TypeOK
    <3> QED BY <2>1, <3>1 DEF IInv, TypeOK, ForegroundAlive, QueuedOrBlocked, Queued
  <2>9. DeadUntouched /\ DeliversOnce
    <3>1. \A p \in UserPids : fate'[p] = IF p = c THEN "collected" ELSE fate[p]
      BY <2>1, <2>3, PidFacts DEF IInv, TypeOK
    <3> QED BY <2>1, <2>3, <2>4, <3>1 DEF DeadUntouched, DeliversOnce
  <2> QED BY <2>1, <2>5, <2>6, <2>7, <2>8, <2>9 DEF IInv, RingSound, ListsMatchStates, Queued
<1>2. CASE hits = {} /\ ~HasChild(me, target)
  <2>1. /\ pc' = [pc EXCEPT ![me] = "run"]
        /\ UNCHANGED <<state, parent_pid, exit_code, block_reason, wait_target, ready_queue,
                       blocked_list, zombie_list, current_process, exit_records, fate, reaping,
                       foreground_process, next_pid, tick_count, kbd>>
    BY <1>2 DEF WaitTurn, listVars, exitVars, otherVars
  <2>2. TypeOK' /\ LifeCycle'
    BY <2>1 DEF IInv, TypeOK, LifeCycle
  <2>3. DeadUntouched /\ DeliversOnce
    BY <2>1 DEF DeadUntouched, DeliversOnce
  <2> QED BY <2>1, <2>2, <2>3 DEF IInv, RingSound, ListsMatchStates, ExitAccounting,
             WaiterHasChild, ForegroundAlive, Queued, QueuedOrBlocked
<1>3. CASE hits = {} /\ HasChild(me, target)
  BY <1>3, BlockKeepsIInv DEF WaitTurn
<1> QED BY <1>1, <1>2, <1>3

\* process_create links one new process, a child of the current one.
LEMMA CreateKeepsIInv ==
  ASSUME IInv, Create(next_pid), kbd' \in 0..KbdCapacity,
         foreground_process' \in {foreground_process, next_pid}
  PROVE  IInv' /\ DeadUntouched /\ DeliversOnce
<1> DEFINE c == next_pid
<1>1. /\ c <= MaxPid /\ next_pid' = c + 1
      /\ state' = [state EXCEPT ![c] = "READY"]
      /\ parent_pid' = [parent_pid EXCEPT ![c] = current_process]
      /\ ready_queue' = RingAdd(ready_queue, c)
      /\ UNCHANGED <<exit_code, block_reason, wait_target, pc, blocked_list, zombie_list,
                     current_process, exit_records, fate, reaping, tick_count>>
  BY DEF Create, exitVars
<1>2. c \in UserPids /\ c \in Pids /\ state[c] = "UNUSED" /\ c # 0 /\ c \in Nat
  BY <1>1, PidFacts DEF IInv, TypeOK, LifeCycle
<1>3. c \notin Queued /\ c \notin blocked_list /\ c \notin zombie_list \cup reaping
      /\ c # current_process
  BY <1>2 DEF IInv, ListsMatchStates, LifeCycle
<1>4. /\ ready_queue' \in Seq(Pids) /\ ready_queue' # <<>>
      /\ ready_queue'[1] = current_process
      /\ NoDuplicates(ready_queue')
      /\ Queued' = Queued \cup {c}
  BY <1>1, <1>2, <1>3, LinkFacts DEF Queued
<1>5. /\ \A p \in Pids : state'[p] = IF p = c THEN "READY" ELSE state[p]
      /\ \A p \in Pids : parent_pid'[p] = IF p = c THEN current_process ELSE parent_pid[p]
  BY <1>1 DEF IInv, TypeOK
<1>6. TypeOK'
  <2>1. state' \in [Pids -> ProcessStates]
    BY <1>1 DEF IInv, TypeOK, ProcessStates
  <2>2. parent_pid' \in [Pids -> Pids]
    BY <1>1 DEF IInv, TypeOK
  <2>3. next_pid' \in 1..(MaxPid + 1)
    BY <1>1, <1>2, BoundsAssumption
  <2>4. foreground_process' \in Pids \cup {Nobody}
    BY <1>2 DEF IInv, TypeOK
  <2> QED BY <1>1, <1>4, <2>1, <2>2, <2>3, <2>4 DEF IInv, TypeOK
<1>7. RingSound' /\ ListsMatchStates'
  BY <1>1, <1>2, <1>3, <1>4, <1>5 DEF IInv, RingSound, ListsMatchStates
<1>8. ExitAccounting'
  BY <1>1, <1>2, <1>5, PidFacts, ExitAccountingKept
<1>9. WaiterHasChild'
  <2> SUFFICES ASSUME NEW p \in blocked_list, block_reason[p] = "WAIT"
               PROVE  \E d \in UserPids : /\ parent_pid'[d] = p /\ wait_target[p] \in {0, d}
                                          /\ d \in QueuedOrBlocked' \/ fate[d] = "killed"
    BY <1>1 DEF WaiterHasChild
  <2>1. PICK d \in UserPids : /\ parent_pid[d] = p /\ wait_target[p] \in {0, d}
                              /\ d \in QueuedOrBlocked \/ fate[d] = "killed"
    BY DEF IInv, WaiterHasChild
  <2>2. d # c
    BY <1>2, <1>3, <2>1 DEF IInv, LifeCycle, QueuedOrBlocked
  <2> QED BY <1>1, <1>4, <1>5, <2>1, <2>2, PidFacts DEF QueuedOrBlocked
<1>10. ForegroundAlive'
  BY <1>1, <1>4 DEF IInv, ForegroundAlive, QueuedOrBlocked
<1>11. LifeCycle'
  <2>1. current_process \in Pids /\ current_process < c
    BY <1>2, PidFacts DEF IInv, TypeOK, LifeCycle
  <2>2. fate[c] \in {"live", "killed"}
    BY <1>2 DEF IInv, LifeCycle
  <2>3. \A p \in Pids : /\ state'[p] = "UNUSED" <=> p >= c + 1
                        /\ state'[p] = "UNUSED" => fate[p] = "live"
    BY <1>2, <1>5, PidFacts DEF IInv, LifeCycle
  <2>4. KernelTask \in Pids /\ KernelTask # c
    BY <1>2, PidFacts DEF KernelTask
  <2> QED BY <1>1, <1>3, <1>5, <2>1, <2>2, <2>3, <2>4, PidFacts DEF IInv, LifeCycle, TypeOK
<1>12. DeadUntouched /\ DeliversOnce
  BY <1>1, <1>2, <1>5 DEF DeadUntouched, DeliversOnce
<1> QED BY <1>6, <1>7, <1>8, <1>9, <1>10, <1>11, <1>12 DEF IInv

\* fork, exec and bg.
LEMMA ForkKeepsIInv ==
  ASSUME IInv, sys_fork \/ \E fg \in BOOLEAN : start_program(fg)
  PROVE  IInv' /\ DeadUntouched /\ DeliversOnce
<1>1. CASE sys_fork
  BY <1>1, CreateKeepsIInv DEF sys_fork, IInv, TypeOK
<1>2. ASSUME NEW fg \in BOOLEAN, start_program(fg)
      PROVE  IInv' /\ DeadUntouched /\ DeliversOnce
  <2>1. /\ Create(next_pid)
        /\ foreground_process' = (IF fg THEN next_pid ELSE foreground_process)
        /\ kbd' = (IF fg THEN 0 ELSE kbd)
    BY <1>2 DEF start_program
  <2>2. kbd' \in 0..KbdCapacity
    BY <2>1, BoundsAssumption DEF IInv, TypeOK
  <2> QED BY <2>1, <2>2, CreateKeepsIInv
<1> QED BY <1>1, <1>2

\* A creation that fails uses up a pid and nothing else.
LEMMA CreateFailsKeepsIInv ==
  ASSUME IInv, CreateFails
  PROVE  IInv' /\ DeadUntouched /\ DeliversOnce
<1> DEFINE c == next_pid
<1>1. /\ c <= MaxPid /\ next_pid' = c + 1
      /\ state' = [state EXCEPT ![c] = "FREED"]
      /\ UNCHANGED <<parent_pid, exit_code, block_reason, wait_target, pc, ready_queue,
                     blocked_list, zombie_list, current_process, exit_records, fate, reaping,
                     foreground_process, tick_count, kbd>>
  BY DEF CreateFails, listVars, exitVars
<1>2. c \in UserPids /\ c \in Pids /\ state[c] = "UNUSED" /\ c # 0 /\ c \in Nat
  BY <1>1, PidFacts DEF IInv, TypeOK, LifeCycle
<1>3. c # current_process /\ c # KernelTask
  BY <1>2 DEF IInv, LifeCycle, KernelTask
<1>4. \A p \in Pids : state'[p] = IF p = c THEN "FREED" ELSE state[p]
  BY <1>1 DEF IInv, TypeOK
<1>5. TypeOK'
  <2>1. next_pid' \in 1..(MaxPid + 1)
    BY <1>1, <1>2, BoundsAssumption
  <2>2. state' \in [Pids -> ProcessStates]
    BY <1>1 DEF IInv, TypeOK, ProcessStates
  <2> QED BY <1>1, <2>1, <2>2 DEF IInv, TypeOK
<1>6. ListsMatchStates'
  BY <1>1, <1>2, <1>3, <1>4 DEF IInv, ListsMatchStates, Queued
<1>7. ExitAccounting'
  BY <1>1, <1>2, <1>4, PidFacts, ExitAccountingKept
<1>8. LifeCycle'
  <2>1. \A p \in Pids : /\ state'[p] = "UNUSED" <=> p >= c + 1
                        /\ state'[p] = "UNUSED" => fate[p] = "live"
    BY <1>2, <1>4, PidFacts DEF IInv, LifeCycle
  <2>2. current_process \in Pids /\ KernelTask \in Pids
    BY RingFacts, PidFacts DEF KernelTask
  <2> QED BY <1>1, <1>2, <1>3, <1>4, <2>1, <2>2 DEF IInv, LifeCycle
<1>9. DeadUntouched /\ DeliversOnce
  BY <1>1, <1>2, <1>4 DEF DeadUntouched, DeliversOnce
<1> QED BY <1>1, <1>5, <1>6, <1>7, <1>8, <1>9 DEF IInv, RingSound, WaiterHasChild, ForegroundAlive,
           Queued, QueuedOrBlocked

\* A kill unlinks a queued process, or marks the current one.
LEMMA KillKeepsIInv ==
  ASSUME IInv, NEW pid \in Pids, Kill(pid)
  PROVE  IInv' /\ DeadUntouched /\ DeliversOnce
<1> USE DEF KernelTask
<1>1. /\ pid # 0 /\ pid \in Queued
      /\ foreground_process' = (IF foreground_process = pid THEN Nobody ELSE foreground_process)
      /\ state' = [state EXCEPT ![pid] = "DEAD"]
      /\ fate'  = [fate EXCEPT ![pid] = "killed"]
      /\ UNCHANGED <<parent_pid, exit_code, block_reason, wait_target, pc, blocked_list,
                     current_process, exit_records, reaping, next_pid, tick_count, kbd>>
  BY DEF Kill, Killable
<1>2. /\ pid = current_process => ready_queue' = ready_queue /\ zombie_list' = zombie_list
      /\ pid # current_process => /\ ready_queue' = RingRemove(ready_queue, pid)
                                  /\ zombie_list' = zombie_list \cup {pid}
  BY DEF Kill
<1>3. /\ pid \in UserPids /\ pid \notin blocked_list
      /\ \/ state[pid] \in {"READY", "RUNNING"}
         \/ state[pid] = "DEAD" /\ pid = current_process
  BY <1>1, PidFacts DEF IInv, ListsMatchStates
<1>4. /\ \A p \in Pids : state'[p] = IF p = pid THEN "DEAD" ELSE state[p]
      /\ \A p \in Pids : fate'[p] = IF p = pid THEN "killed" ELSE fate[p]
  BY <1>1 DEF IInv, TypeOK
<1>5. /\ ready_queue' \in Seq(Pids) /\ ready_queue'[1] = current_process
      /\ NoDuplicates(ready_queue')
      /\ ToSet(ready_queue') = IF pid = current_process THEN Queued ELSE Queued \ {pid}
  <2>1. CASE pid = current_process
    BY <1>2, <2>1, RingFacts DEF Queued
  <2>2. CASE pid # current_process
    <3>1. /\ ready_queue \in Seq(Pids) /\ ready_queue # <<>> /\ NoDuplicates(ready_queue)
          /\ pid # ready_queue[1]
      BY <2>2, RingFacts
    <3>2. ready_queue'[1] = ready_queue[1]
      BY <1>2, <2>2, <3>1, RingRemoveProperties
    <3>3. ready_queue' \in Seq(Pids) /\ NoDuplicates(ready_queue')
      BY <1>2, <2>2, <3>1, RingRemoveProperties
    <3>4. ToSet(ready_queue') = ToSet(ready_queue) \ {pid}
      BY <1>2, <2>2, <3>1, RingRemoveProperties
    <3> QED BY <2>2, <3>2, <3>3, <3>4, RingFacts DEF Queued
  <2> QED BY <2>1, <2>2
<1>6. TypeOK'
  BY <1>1, <1>2, <1>3, <1>5 DEF IInv, TypeOK, ProcessStates, Fates
<1>7. RingSound' /\ ListsMatchStates'
  <2>1. RingSound'
    BY <1>1, <1>5, RingFacts DEF RingSound, Queued
  <2>2. ListsMatchStates'
    BY <1>1, <1>2, <1>3, <1>4, <1>5 DEF IInv, ListsMatchStates, Queued, LifeCycle
  <2> QED BY <2>1, <2>2
<1>8. ExitAccounting'
  <2>1. fate[pid] # "recorded"
    BY <1>3 DEF IInv, LifeCycle
  <2> QED BY <1>1, <1>3, <1>4, <2>1, PidFacts, ExitAccountingKept
<1>9. \A p \in QueuedOrBlocked : p \in QueuedOrBlocked' \/ fate'[p] = "killed"
  BY <1>1, <1>4, <1>5 DEF QueuedOrBlocked, Queued
<1>10. WaiterHasChild'
  BY <1>1, <1>4, <1>9, PidFacts DEF IInv, WaiterHasChild
<1>11. ForegroundAlive'
  BY <1>1, <1>4, <1>9 DEF IInv, ForegroundAlive, TypeOK
<1>12. LifeCycle'
  <2>1. current_process \in Pids
    BY RingFacts
  <2> QED BY <1>1, <1>3, <1>4, <2>1, PidFacts DEF IInv, LifeCycle
<1>13. DeadUntouched /\ DeliversOnce
  <2>1. fate[pid] \in {"live", "killed"}
    BY <1>3 DEF IInv, LifeCycle
  <2> QED BY <1>3, <1>4, <2>1, PidFacts DEF DeadUntouched, DeliversOnce
<1> QED BY <1>6, <1>7, <1>8, <1>10, <1>11, <1>12, <1>13 DEF IInv

\* A process that is queued or asleep is given the keyboard.
LEMMA FocusKeepsIInv ==
  ASSUME IInv, sys_give_foreground
  PROVE  IInv' /\ DeadUntouched /\ DeliversOnce
<1>1. /\ foreground_process' \in QueuedOrBlocked
      /\ UNCHANGED <<state, parent_pid, exit_code, block_reason, wait_target, pc, ready_queue,
                     blocked_list, zombie_list, current_process, exit_records, fate, reaping,
                     next_pid, tick_count, kbd>>
  BY DEF sys_give_foreground, procVars, listVars, exitVars
<1>2. foreground_process' \in Pids
  BY <1>1, RingFacts
<1>3. DeadUntouched /\ DeliversOnce
  BY <1>1 DEF DeadUntouched, DeliversOnce
<1> QED BY <1>1, <1>2, <1>3 DEF IInv, TypeOK, RingSound, ListsMatchStates, ExitAccounting,
           WaiterHasChild, ForegroundAlive, LifeCycle, Queued, QueuedOrBlocked

\* A key press wakes the foreground process if that sleeps in a read.
LEMMA KeyKeepsIInv ==
  ASSUME IInv, deliver_char
  PROVE  IInv' /\ DeadUntouched /\ DeliversOnce
<1> USE DEF KernelTask
<1> DEFINE fg == foreground_process
           W  == {p \in {fg} : state[p] = "BLOCKED" /\ block_reason[p] = "READ"}
<1>1. /\ kbd' = KbdStore
      /\ state' = WokenState(state, W)
      /\ block_reason' = WokenReason(W)
      /\ ready_queue'  = WokenQueue(W)
      /\ blocked_list' = blocked_list \ W
      /\ fg # Nobody
      /\ UNCHANGED <<parent_pid, exit_code, wait_target, pc, zombie_list, current_process,
                     exit_records, fate, reaping, foreground_process, next_pid, tick_count>>
  BY DEF deliver_char, exitVars
<1>2. /\ W \subseteq blocked_list
      /\ W = {} \/ \E w \in blocked_list : W = {w}
      /\ \A w \in W : block_reason[w] = "READ" /\ state[w] = "BLOCKED"
  BY <1>1 DEF IInv, TypeOK, ListsMatchStates
<1> HIDE DEF W
<1>3. /\ ready_queue' \in Seq(Pids) /\ ready_queue'[1] = current_process
      /\ NoDuplicates(ready_queue')
      /\ Queued' = Queued \cup W
  BY <1>1, <1>2, WakeFacts DEF Queued
<1>4. /\ \A p \in Pids : state'[p] = IF p \in W THEN "READY" ELSE state[p]
      /\ \A p \in Pids : block_reason'[p] = IF p \in W THEN "NONE" ELSE block_reason[p]
  BY <1>1 DEF WokenState, WokenReason
<1>5. TypeOK'
  <2>1. kbd' \in 0..KbdCapacity
    BY <1>1, BoundsAssumption DEF KbdStore, IInv, TypeOK
  <2>2. state' \in [Pids -> ProcessStates] /\ block_reason' \in [Pids -> {"NONE", "WAIT", "READ"}]
    BY <1>1 DEF WokenState, WokenReason, IInv, TypeOK, ProcessStates
  <2> QED BY <1>1, <1>3, <2>1, <2>2 DEF IInv, TypeOK
<1>6. RingSound'
  BY <1>1, <1>3, RingFacts DEF RingSound
<1>7. ListsMatchStates'
  BY <1>1, <1>2, <1>3, <1>4 DEF IInv, ListsMatchStates
<1>8. ExitAccounting'
  BY <1>1, <1>2, <1>4, PidFacts, ExitAccountingKept
<1>9. QueuedOrBlocked' = QueuedOrBlocked
  BY <1>1, <1>2, <1>3 DEF QueuedOrBlocked
<1>10. WaiterHasChild'
  BY <1>1, <1>4, <1>9, PidFacts DEF IInv, WaiterHasChild, TypeOK
<1>11. ForegroundAlive'
  BY <1>1, <1>9 DEF IInv, ForegroundAlive
<1>12. LifeCycle'
  <2>1. current_process \in Pids /\ 0 \in Pids
    BY RingFacts, PidFacts
  <2> QED BY <1>1, <1>2, <1>4, <2>1 DEF IInv, LifeCycle
<1>13. DeadUntouched /\ DeliversOnce
  BY <1>1, <1>2, <1>4 DEF DeadUntouched, DeliversOnce
<1> QED BY <1>5, <1>6, <1>7, <1>8, <1>10, <1>11, <1>12, <1>13 DEF IInv

\* Both halves of process_reap.
LEMMA ReapKeepsIInv ==
  ASSUME IInv, ReapDetach \/ ReapDestroy
  PROVE  /\ IInv' /\ DeliversOnce
         /\ \A x \in Pids : state'[x] = state[x] \/ (state[x] = "DEAD" /\ state'[x] = "FREED")
<1>1. CASE ReapDetach
  <2>1. /\ reaping = {} /\ reaping' = zombie_list /\ zombie_list' = {}
        /\ UNCHANGED <<state, parent_pid, exit_code, block_reason, wait_target, pc, ready_queue,
                       blocked_list, current_process, exit_records, fate, foreground_process,
                       next_pid, tick_count, kbd>>
    BY <1>1 DEF ReapDetach, procVars, exitVars
  <2>2. ListsMatchStates'
    BY <2>1 DEF IInv, ListsMatchStates, Queued
  <2>3. DeliversOnce /\ \A x \in Pids : state'[x] = state[x]
    BY <2>1 DEF DeliversOnce
  <2> QED BY <2>1, <2>2, <2>3 DEF IInv, TypeOK, RingSound, ExitAccounting, WaiterHasChild,
             ForegroundAlive, LifeCycle, Queued, QueuedOrBlocked
<1>2. CASE ReapDestroy
  <2>1. PICK p \in reaping : reaping' = reaping \ {p} /\ state' = [state EXCEPT ![p] = "FREED"]
    BY <1>2 DEF ReapDestroy
  <2>2. UNCHANGED <<parent_pid, exit_code, block_reason, wait_target, pc, ready_queue,
                    blocked_list, zombie_list, current_process, exit_records, fate,
                    foreground_process, next_pid, tick_count, kbd>>
    BY <1>2 DEF ReapDestroy, listVars, exitVars
  <2>3. p \in Pids /\ state[p] = "DEAD" /\ p # current_process /\ p # 0
    BY PidFacts DEF IInv, TypeOK, ListsMatchStates
  <2>4. \A x \in Pids : state'[x] = IF x = p THEN "FREED" ELSE state[x]
    BY <2>1 DEF IInv, TypeOK
  <2>5. TypeOK'
    BY <2>1, <2>2 DEF IInv, TypeOK, ProcessStates
  <2>6. ListsMatchStates'
    BY <2>1, <2>2, <2>3, <2>4 DEF IInv, ListsMatchStates, Queued
  <2>7. ExitAccounting'
    BY <2>2, <2>3, <2>4, PidFacts, ExitAccountingKept
  <2>8. LifeCycle'
    BY <2>2, <2>3, <2>4, RingFacts, PidFacts DEF IInv, LifeCycle, KernelTask
  <2>9. DeliversOnce
    BY <2>2 DEF DeliversOnce
  <2> QED BY <2>2, <2>3, <2>4, <2>5, <2>6, <2>7, <2>8, <2>9 DEF IInv, RingSound, WaiterHasChild,
             ForegroundAlive, Queued, QueuedOrBlocked
<1> QED BY <1>1, <1>2

\* The slot that record_exit writes is one of the table.
LEMMA RecordSlotInTable == RecordSlot \in Slots
<1> DEFINE free == {i \in Slots : exit_records[i] = NoRecord}
<1>1. free \subseteq Nat /\ 1 \in Slots
  BY BoundsAssumption DEF Slots
<1>2. free # {} => Min(free) \in free
  BY <1>1, MinIsElement
<1> QED BY <1>1, <1>2 DEF RecordSlot

\* Recording the exit of the current process keeps the accounts right: its old
\* record, if there were one, would say that it is off the CPU.
LEMMA RecordKeepsAccounts ==
  ASSUME IInv, NEW p \in UserPids, p = current_process, NEW code,
         record_exit(p, code),
         parent_pid' = parent_pid, exit_code' = [exit_code EXCEPT ![p] = code],
         state'[p] = "DEAD", p # current_process',
         \A x \in UserPids : state[x] \in {"DEAD", "FREED"} /\ x # p =>
            state'[x] \in {"DEAD", "FREED"} /\ x # current_process'
  PROVE  ExitAccounting'
<1> DEFINE s == RecordSlot
           o == exit_records[s].pid
           rec == [pid |-> p, parent_pid |-> parent_pid[p], code |-> code]
<1>1. /\ exit_records' = [exit_records EXCEPT ![s] = rec]
      /\ \A x \in Pids : fate'[x] = IF x = p THEN "recorded"
                                    ELSE IF x # 0 /\ x = o THEN "overwritten" ELSE fate[x]
  BY DEF record_exit
<1>2. s \in Slots
  BY RecordSlotInTable
<1>3. 0 \notin UserPids /\ UserPids \subseteq Pids /\ NoRecord.pid = 0
  BY PidFacts DEF NoRecord
<1>4. \A i \in Slots : exit_records'[i] = IF i = s THEN rec ELSE exit_records[i]
  BY <1>1, <1>2 DEF IInv, TypeOK
<1>5. rec.pid = p /\ rec.parent_pid = parent_pid[p] /\ rec.code = code
  OBVIOUS
<1> HIDE DEF s, rec
<1>6. \A i \in Slots : exit_records[i].pid # p
  <2> SUFFICES ASSUME NEW i \in Slots, exit_records[i].pid = p PROVE FALSE
    OBVIOUS
  <2>1. exit_records[i] # NoRecord
    BY <1>3
  <2> QED BY <2>1 DEF IInv, ExitAccounting
<1>7. \A i, j \in Slots : i # j /\ exit_records[i] # NoRecord
                          => exit_records[i].pid # exit_records[j].pid
  BY DEF IInv, ExitAccounting
<1>8. \A i \in Slots : exit_records[i].pid \in UserPids => exit_records[i] # NoRecord
  BY <1>3
<1>9. ASSUME NEW x \in UserPids
      PROVE  fate'[x] = "recorded" <=> \E i \in Slots : exit_records'[i].pid = x
  <2>1. CASE x = p
    BY <1>1, <1>2, <1>3, <1>4, <1>5, <2>1
  <2>2. CASE x # p /\ x = o
    <3>1. \A i \in Slots : exit_records'[i].pid # x
      BY <1>2, <1>4, <1>5, <1>7, <1>8, <2>2
    <3>2. fate'[x] = "overwritten"
      BY <1>1, <1>3, <2>2
    <3> QED BY <3>1, <3>2
  <2>3. CASE x # p /\ x # o
    <3>1. fate'[x] = fate[x]
      BY <1>1, <1>3, <2>3
    <3>2. fate[x] = "recorded" <=> \E i \in Slots : exit_records[i].pid = x
      BY DEF IInv, ExitAccounting
    <3>3. \A i \in Slots : exit_records'[i].pid = x <=> exit_records[i].pid = x
      BY <1>4, <1>5, <2>3
    <3> QED BY <3>1, <3>2, <3>3
  <2> QED BY <2>1, <2>2, <2>3
<1>10. \A i, j \in Slots : i # j /\ exit_records'[i] # NoRecord
                           => exit_records'[i].pid # exit_records'[j].pid
  BY <1>4, <1>5, <1>6, <1>7
<1>11. ASSUME NEW i \in Slots, exit_records'[i] # NoRecord
       PROVE  LET c == exit_records'[i].pid
              IN /\ exit_records'[i].parent_pid = parent_pid'[c]
                 /\ exit_records'[i].code = exit_code'[c]
                 /\ state'[c] \in {"DEAD", "FREED"} /\ c # current_process'
  <2> DEFINE c == exit_records[i].pid
  <2>1. \A x \in UserPids : exit_code'[x] = IF x = p THEN code ELSE exit_code[x]
    BY <1>3 DEF IInv, TypeOK
  <2>2. CASE i = s
    BY <1>4, <1>5, <2>1, <2>2
  <2>3. CASE i # s
    <3>1. exit_records'[i] = exit_records[i] /\ exit_records[i] # NoRecord
      BY <1>4, <1>11, <2>3
    <3>2. c \in UserPids /\ c # p
      BY <1>6, <3>1, RecordFacts
    <3>3. /\ exit_records[i].parent_pid = parent_pid[c]
          /\ exit_records[i].code = exit_code[c]
          /\ state[c] \in {"DEAD", "FREED"}
      BY <3>1 DEF IInv, ExitAccounting
    <3> QED BY <2>1, <3>1, <3>2, <3>3
  <2> QED BY <2>2, <2>3
<1> QED BY <1>9, <1>10, <1>11 DEF ExitAccounting

\* exit(): process_exit records the exit, wakes the parent if that waits for it
\* (W), hands the keyboard back and makes the switch that never returns.
ExitEffect(code, W) ==
  LET p == current_process
      par == parent_pid[p]
  IN /\ foreground_process' = FocusAfter(p)
     /\ exit_code' = [exit_code EXCEPT ![p] = code]
     /\ block_reason' = WokenReason(W)
     /\ UNCHANGED <<parent_pid, wait_target, pc, reaping, next_pid, tick_count, kbd>>
     /\ IF par = 0
        THEN fate' = [fate EXCEPT ![p] = "unrecorded"] /\ exit_records' = exit_records
        ELSE record_exit(p, code)
     /\ W \subseteq blocked_list /\ p \notin W /\ 0 \notin W
     /\ \A x \in blocked_list :
          par = x /\ block_reason[x] = "WAIT" /\ wait_target[x] \in {0, p} => x \in W
     /\ state' \in [Pids -> ProcessStates]
     /\ ready_queue' \in Seq(Pids)
     /\ blocked_list' \subseteq UserPids
     /\ zombie_list' \subseteq UserPids
     /\ current_process' \in Pids
     /\ RingSound' /\ ListsMatchStates'
     /\ state'[current_process'] = "RUNNING"
     /\ QueuedOrBlocked' = QueuedOrBlocked \ {p}
     /\ state'[p] = "DEAD" /\ p # current_process'
     /\ \A x \in Pids : x \notin W /\ x # p =>
          state'[x] = state[x] \/ {state[x], state'[x]} \subseteq {"READY", "RUNNING"}
     /\ \A x \in W : x \in Pids /\ state[x] = "BLOCKED" /\ state'[x] \in {"READY", "RUNNING"}
     /\ \A x \in Pids : x # p => /\ fate[x] # "recorded" => fate'[x] = fate[x]
                                 /\ fate'[x] = fate[x] \/ fate'[x] = "overwritten"
     /\ fate'[p] \in {"recorded", "unrecorded"}

\* Every exit has that effect.
LEMMA ExitHasEffect ==
  ASSUME IInv, Exit
  PROVE  \E code \in Codes \cup {FaultCode}, W \in SUBSET blocked_list : ExitEffect(code, W)
<1> USE DEF KernelTask
<1> DEFINE p == current_process
           par == parent_pid[p]
           W == IF par = 0 THEN {} ELSE Waiters(p)
           q == WokenQueue(W)
           st == WokenState([state EXCEPT ![p] = "DEAD"], W)
           bl == blocked_list \ W
<1>1. PICK code \in Codes \cup {FaultCode} : process_exit(code)
  BY RingFacts DEF Exit, IInv, TypeOK
<1>2. /\ foreground_process' = FocusAfter(p)
      /\ exit_code' = [exit_code EXCEPT ![p] = code]
      /\ block_reason' = WokenReason(W)
      /\ scheduler_switch(q, st, bl)
      /\ UNCHANGED <<parent_pid, wait_target, pc, reaping, next_pid, tick_count, kbd>>
  BY <1>1 DEF process_exit
<1>3. IF par = 0 THEN fate' = [fate EXCEPT ![p] = "unrecorded"] /\ exit_records' = exit_records
                 ELSE record_exit(p, code)
  BY <1>1 DEF process_exit
<1>4. /\ p \in Pids /\ p \in UserPids /\ p # 0 /\ 0 \in Pids /\ p \notin blocked_list
      /\ par \in Pids /\ par # p
  <2>1. p \in Pids /\ p # 0 /\ p \notin blocked_list
    BY RingFacts DEF Exit, InUserMode
  <2>2. p \in UserPids /\ 0 \in Pids /\ p \in Nat
    BY <2>1, PidFacts
  <2>3. par \in Pids /\ par # p
    BY <2>1, <2>2, PidFacts DEF IInv, LifeCycle, TypeOK
  <2> QED BY <2>1, <2>2, <2>3
<1>5. /\ W \subseteq blocked_list /\ p \notin W /\ 0 \notin W
      /\ W = {} \/ \E w \in blocked_list : W = {w}
      /\ \A x \in blocked_list :
           par = x /\ block_reason[x] = "WAIT" /\ wait_target[x] \in {0, p} => x \in W
  <2>1. blocked_list \subseteq UserPids /\ 0 \notin UserPids
    BY PidFacts DEF IInv, TypeOK
  <2>2. \A x : x \in W <=> /\ x \in blocked_list /\ par # 0 /\ x = par
                           /\ block_reason[x] = "WAIT" /\ wait_target[x] \in {0, p}
    BY DEF Waiters
  <2> HIDE DEF W
  <2>3. W = {} \/ \E w \in blocked_list : W = {w}
    BY <2>2
  <2> QED BY <1>4, <2>1, <2>2, <2>3
<1> HIDE DEF W
<1>6. \A x \in Pids : st[x] = IF x \in W THEN "READY" ELSE IF x = p THEN "DEAD" ELSE state[x]
  BY <1>4 DEF WokenState, IInv, TypeOK
<1>7. /\ q \in Seq(Pids) /\ q # <<>> /\ q[1] = p /\ NoDuplicates(q)
      /\ ToSet(q) = Queued \cup W
  BY <1>5, WakeFacts
<1>8. ReadyToSwitch(q, st, bl)
  <2>1. st \in [Pids -> ProcessStates]
    BY DEF WokenState, IInv, TypeOK, ProcessStates
  <2>2. /\ st[0] \in {"READY", "RUNNING"} /\ st[p] = "DEAD"
    BY <1>4, <1>5, <1>6 DEF IInv, LifeCycle
  <2> HIDE DEF q, st
  <2>3. ASSUME NEW x \in Pids
        PROVE /\ x \in ToSet(q) <=> st[x] \in {"READY", "RUNNING"} \/ x = p
              /\ st[x] = "RUNNING" => x = p
              /\ x \in bl <=> st[x] = "BLOCKED" /\ x # p
              /\ x \in zombie_list \cup reaping <=> st[x] = "DEAD" /\ x # p
              /\ ~(x \in zombie_list /\ x \in reaping)
    BY <1>4, <1>5, <1>6, <1>7, RingFacts DEF IInv, ListsMatchStates, LifeCycle
  <2> QED BY <1>4, <1>7, <2>1, <2>2, <2>3 DEF ReadyToSwitch, IInv, TypeOK
<1> HIDE DEF q, st
<1>9. /\ state' \in [Pids -> ProcessStates]
      /\ ready_queue' \in Seq(Pids)
      /\ blocked_list' \subseteq UserPids
      /\ zombie_list' \subseteq UserPids
      /\ current_process' \in Pids
      /\ RingSound' /\ ListsMatchStates'
      /\ state'[current_process'] = "RUNNING"
      /\ \A x \in Pids : \/ state'[x] = st[x]
                         \/ {st[x], state'[x]} \subseteq {"READY", "RUNNING"}
      /\ QueuedOrBlocked' = (ToSet(q) \cup bl) \ {x \in {p} : st[x] = "DEAD"}
  BY <1>2, <1>8, SwitchProperties
<1>10. QueuedOrBlocked' = QueuedOrBlocked \ {p}
  BY <1>4, <1>5, <1>6, <1>7, <1>9 DEF QueuedOrBlocked
<1>11. state'[p] = "DEAD" /\ p # current_process'
  BY <1>4, <1>5, <1>6, <1>9
<1>12. \A x \in Pids : x \notin W /\ x # p =>
          state'[x] = state[x] \/ {state[x], state'[x]} \subseteq {"READY", "RUNNING"}
  BY <1>6, <1>9
<1>13. \A x \in W : x \in Pids /\ state[x] = "BLOCKED" /\ state'[x] \in {"READY", "RUNNING"}
  BY <1>5, <1>6, <1>9, PidFacts DEF IInv, TypeOK, ListsMatchStates
<1>14. \A x \in Pids : x # p =>
          /\ fate[x] # "recorded" => fate'[x] = fate[x]
          /\ fate'[x] = fate[x] \/ fate'[x] = "overwritten"
  <2>1. CASE par = 0
    BY <1>3, <2>1 DEF IInv, TypeOK
  <2>2. CASE par # 0
    <3> DEFINE o == exit_records[RecordSlot].pid
    <3>1. \A x \in Pids : fate'[x] = IF x = p THEN "recorded"
                                     ELSE IF x # 0 /\ x = o THEN "overwritten" ELSE fate[x]
      BY <1>3, <2>2 DEF record_exit
    <3>2. o # 0 => fate[o] = "recorded"
      <4>1. o # 0 => exit_records[RecordSlot] # NoRecord
        BY DEF NoRecord
      <4> QED BY <4>1, RecordSlotInTable, RecordFacts
    <3> QED BY <3>1, <3>2
  <2> QED BY <2>1, <2>2
<1>15. fate'[p] \in {"recorded", "unrecorded"}
  BY <1>3, <1>4 DEF record_exit, IInv, TypeOK
<1> HIDE DEF bl, par
<1>16. ExitEffect(code, W)
  BY <1>2, <1>3, <1>5, <1>9, <1>10, <1>11, <1>12, <1>13, <1>14, <1>15 DEF ExitEffect, par
<1> QED BY <1>5, <1>16

\* An exit keeps the invariant.
LEMMA ExitKeepsIInv ==
  ASSUME IInv, Exit
  PROVE  IInv' /\ DeadUntouched /\ DeliversOnce
<1> USE DEF KernelTask
<1> DEFINE p == current_process
           par == parent_pid[p]
<1>1. PICK code \in Codes \cup {FaultCode}, W \in SUBSET blocked_list : ExitEffect(code, W)
  BY ExitHasEffect
<1>2. /\ foreground_process' = FocusAfter(p)
      /\ exit_code' = [exit_code EXCEPT ![p] = code]
      /\ block_reason' = WokenReason(W)
      /\ UNCHANGED <<parent_pid, wait_target, pc, reaping, next_pid, tick_count, kbd>>
  BY <1>1 DEF ExitEffect
<1>3. IF par = 0 THEN fate' = [fate EXCEPT ![p] = "unrecorded"] /\ exit_records' = exit_records
                 ELSE record_exit(p, code)
  BY <1>1 DEF ExitEffect
<1>4. /\ p \in Pids /\ p \in UserPids /\ p # 0 /\ 0 \in Pids /\ p \notin blocked_list
      /\ par \in Pids /\ par # p
  <2>1. p \in Pids /\ p # 0 /\ p \notin blocked_list
    BY RingFacts DEF Exit, InUserMode
  <2>2. p \in UserPids /\ 0 \in Pids /\ p \in Nat
    BY <2>1, PidFacts
  <2>3. par \in Pids /\ par # p
    BY <2>1, <2>2, PidFacts DEF IInv, LifeCycle, TypeOK
  <2> QED BY <2>1, <2>2, <2>3
<1>5. /\ W \subseteq blocked_list /\ p \notin W /\ 0 \notin W
      /\ \A x \in blocked_list :
           par = x /\ block_reason[x] = "WAIT" /\ wait_target[x] \in {0, p} => x \in W
  BY <1>1 DEF ExitEffect
<1>6. /\ state' \in [Pids -> ProcessStates]
      /\ ready_queue' \in Seq(Pids)
      /\ blocked_list' \subseteq UserPids
      /\ zombie_list' \subseteq UserPids
      /\ current_process' \in Pids
      /\ RingSound' /\ ListsMatchStates'
      /\ state'[current_process'] = "RUNNING"
  BY <1>1 DEF ExitEffect
<1>7. QueuedOrBlocked' = QueuedOrBlocked \ {p}
  BY <1>1 DEF ExitEffect
<1>8. state'[p] = "DEAD" /\ p # current_process'
  BY <1>1 DEF ExitEffect
<1>9. \A x \in Pids : x \notin W /\ x # p =>
          state'[x] = state[x] \/ {state[x], state'[x]} \subseteq {"READY", "RUNNING"}
  BY <1>1 DEF ExitEffect
<1>10. \A x \in W : x \in Pids /\ state[x] = "BLOCKED" /\ state'[x] \in {"READY", "RUNNING"}
  BY <1>1 DEF ExitEffect
<1>11. \A x \in Pids : x # p =>
          /\ fate[x] # "recorded" => fate'[x] = fate[x]
          /\ fate'[x] = fate[x] \/ fate'[x] = "overwritten"
  BY <1>1 DEF ExitEffect
<1>12. fate'[p] \in {"recorded", "unrecorded"}
  BY <1>1 DEF ExitEffect
<1>13. TypeOK'
  <2>1. exit_records' \in [Slots -> Record \cup {NoRecord}]
    <3>1. CASE par = 0
      BY <1>3, <3>1 DEF IInv, TypeOK
    <3>2. CASE par # 0
      <4>1. [pid |-> p, parent_pid |-> par, code |-> code] \in Record
        BY <1>4, <3>2, PidFacts DEF Record
      <4> QED BY <1>3, <3>2, <4>1 DEF record_exit, IInv, TypeOK
    <3> QED BY <3>1, <3>2
  <2>2. fate' \in [Pids -> Fates]
    BY <1>3 DEF record_exit, IInv, TypeOK, Fates
  <2>3. /\ exit_code' \in [Pids -> Codes \cup {FaultCode}]
        /\ block_reason' \in [Pids -> {"NONE", "WAIT", "READ"}]
        /\ foreground_process' \in Pids \cup {Nobody}
    BY <1>2, <1>4 DEF WokenReason, FocusAfter, IInv, TypeOK
  <2> QED BY <1>2, <1>6, <2>1, <2>2, <2>3 DEF IInv, TypeOK
<1>14. ExitAccounting'
  <2>1. \A x \in UserPids : state[x] \in {"DEAD", "FREED"} /\ x # p =>
          state'[x] \in {"DEAD", "FREED"} /\ x # current_process'
    BY <1>6, <1>9, <1>10, PidFacts
  <2>2. CASE par # 0
    BY <1>2, <1>3, <1>4, <1>8, <2>1, <2>2, RecordKeepsAccounts
  <2>3. CASE par = 0
    <3>1. \A x \in UserPids : fate'[x] = "recorded" <=> fate[x] = "recorded"
      BY <1>3, <1>4, <2>3, PidFacts DEF IInv, TypeOK, LifeCycle
    <3>2. \A x \in UserPids : x # p => exit_code'[x] = exit_code[x]
      BY <1>2, PidFacts DEF IInv, TypeOK
    <3> QED BY <1>2, <1>3, <2>1, <2>3, <3>1, <3>2, ExitAccountingKept
  <2> QED BY <2>2, <2>3
<1>15. WaiterHasChild'
  <2> SUFFICES ASSUME NEW x \in blocked_list', block_reason'[x] = "WAIT"
               PROVE  \E c \in UserPids : /\ parent_pid[c] = x /\ wait_target[x] \in {0, c}
                                          /\ c \in QueuedOrBlocked' \/ fate'[c] = "killed"
    BY <1>2 DEF WaiterHasChild
  <2>1. x \in Pids /\ x \in UserPids /\ x \notin W /\ x \in blocked_list
    BY <1>6, <1>8, <1>9, <1>10, PidFacts DEF IInv, ListsMatchStates
  <2>2. block_reason[x] = "WAIT"
    BY <1>2, <2>1 DEF WokenReason
  <2>3. PICK c \in UserPids : /\ parent_pid[c] = x /\ wait_target[x] \in {0, c}
                              /\ c \in QueuedOrBlocked \/ fate[c] = "killed"
    BY <2>1, <2>2 DEF IInv, WaiterHasChild
  <2>4. c # p
    BY <1>5, <2>1, <2>2, <2>3
  <2> QED BY <1>7, <1>11, <2>3, <2>4, PidFacts
<1>16. ForegroundAlive'
  <2>1. CASE foreground_process # p
    <3>1. foreground_process' = foreground_process
      BY <1>2, <2>1 DEF FocusAfter
    <3> QED BY <1>7, <1>11, <2>1, <3>1 DEF IInv, ForegroundAlive, TypeOK
  <2>2. CASE foreground_process = p
    <3>1. foreground_process' \in QueuedOrBlocked \ {p} \/ foreground_process' = Nobody
      BY <1>2, <1>4, <2>2 DEF FocusAfter
    <3> QED BY <1>7, <3>1 DEF ForegroundAlive
  <2> QED BY <2>1, <2>2
<1>17. LifeCycle'
  <2>1. \A x \in Pids : \/ state[x] # "UNUSED" /\ state'[x] # "UNUSED"
                        \/ state[x] = "UNUSED" /\ state'[x] = "UNUSED" /\ x # p
    BY <1>8, <1>9, <1>10 DEF IInv, LifeCycle
  <2>2. \A x \in Pids : /\ state'[x] = "UNUSED" <=> x >= next_pid
                        /\ state'[x] = "UNUSED" => fate'[x] = "live"
    BY <1>11, <2>1 DEF IInv, LifeCycle
  <2>3. \A x \in Pids : \/ fate'[x] \in {"live", "killed"}
                        \/ state'[x] \in {"DEAD", "FREED"} /\ x # current_process'
    <3> SUFFICES ASSUME NEW x \in Pids, fate'[x] \notin {"live", "killed"}
                 PROVE  state'[x] \in {"DEAD", "FREED"} /\ x # current_process'
      OBVIOUS
    <3>1. CASE x = p
      BY <1>8, <3>1
    <3>2. CASE x # p
      <4>1. state[x] \in {"DEAD", "FREED"}
        BY <1>11, <3>2 DEF IInv, LifeCycle
      <4> QED BY <1>6, <1>9, <1>10, <3>2, <4>1
    <3> QED BY <3>1, <3>2
  <2>4. state'[0] \in {"READY", "RUNNING"}
    BY <1>4, <1>5, <1>9 DEF IInv, LifeCycle
  <2> QED BY <1>2, <1>6, <2>2, <2>3, <2>4 DEF IInv, LifeCycle
<1>18. DeadUntouched
  BY <1>9, <1>10 DEF DeadUntouched
<1>19. DeliversOnce
  <2>1. fate[p] \in {"live", "killed"}
    BY <1>4 DEF IInv, LifeCycle
  <2> QED BY <1>11, <1>12, <2>1, PidFacts DEF DeliversOnce
<1> QED BY <1>6, <1>13, <1>14, <1>15, <1>16, <1>17, <1>18, <1>19 DEF IInv

-----------------------------------------------------------------------------
(* The theorems *)

\* The machine boots in a state that satisfies the invariant, with or without
\* the user shell.
LEMMA InitIInv == Init => IInv
<1> USE DEF KernelTask
<1> SUFFICES ASSUME Init PROVE IInv
  OBVIOUS
<1>1. PICK ush \in BootOutcomes :
    /\ state = [p \in Pids |-> IF p = 0 THEN "RUNNING"
                               ELSE IF p # 1 \/ ush = "missing" THEN "UNUSED"
                               ELSE IF ush = "invalid" THEN "FREED" ELSE "READY"]
    /\ ready_queue = (IF ush = "started" THEN <<0, 1>> ELSE <<0>>)
    /\ foreground_process = (IF ush = "started" THEN 1 ELSE Nobody)
    /\ next_pid = (IF ush = "missing" THEN 1 ELSE 2)
  BY DEF Init
<1>2. /\ parent_pid   = [p \in Pids |-> 0]
      /\ exit_code    = [p \in Pids |-> 0]
      /\ block_reason = [p \in Pids |-> "NONE"]
      /\ wait_target  = [p \in Pids |-> 0]
      /\ pc           = [p \in Pids |-> "run"]
      /\ blocked_list = {} /\ zombie_list = {} /\ reaping = {}
      /\ current_process = 0
      /\ exit_records = [i \in Slots |-> NoRecord]
      /\ tick_count = 0 /\ kbd = 0
      /\ fate = [p \in Pids |-> "live"]
  BY DEF Init
<1>3. 0 \in Pids /\ 1 \in Pids /\ 1 \in UserPids /\ 0 \notin UserPids /\ UserPids \subseteq Pids
  BY BoundsAssumption DEF Pids, UserPids
<1>4. /\ ready_queue \in Seq(Pids) /\ ready_queue[1] = 0 /\ NoDuplicates(ready_queue)
      /\ Queued = IF ush = "started" THEN {0, 1} ELSE {0}
  <2>1. CASE ush = "started"
    BY <1>1, <1>3, <2>1 DEF NoDuplicates, Queued, ToSet
  <2>2. CASE ush # "started"
    BY <1>1, <1>3, <2>2 DEF NoDuplicates, Queued, ToSet
  <2> QED BY <2>1, <2>2
<1>5. TypeOK
  <2>1. /\ next_pid \in 1..(MaxPid + 1) /\ tick_count \in 0..(TIMESLICE - 1)
        /\ kbd \in 0..KbdCapacity
    BY <1>1, <1>2, BoundsAssumption
  <2>2. /\ state \in [Pids -> ProcessStates]
        /\ foreground_process \in Pids \cup {Nobody}
    BY <1>1, <1>3 DEF ProcessStates
  <2>3. exit_code \in [Pids -> Codes \cup {FaultCode}] /\ fate \in [Pids -> Fates]
    BY <1>2, CodesAssumption DEF Fates
  <2> QED BY <1>2, <1>3, <1>4, <2>1, <2>2, <2>3 DEF TypeOK
<1>6. RingSound
  BY <1>2, <1>4 DEF RingSound
<1>7. ListsMatchStates
  BY <1>1, <1>2, <1>3, <1>4 DEF ListsMatchStates, BootOutcomes
<1>8. ExitAccounting
  BY <1>2, <1>3 DEF ExitAccounting, NoRecord
<1>9. WaiterHasChild
  BY <1>2 DEF WaiterHasChild
<1>10. ForegroundAlive
  BY <1>1, <1>4 DEF ForegroundAlive, QueuedOrBlocked
<1>11. LifeCycle
  <2>1. \A p \in Pids : state[p] = "UNUSED" <=> p >= next_pid
    BY <1>1, PidFacts DEF BootOutcomes
  <2>2. \A p \in UserPids : parent_pid[p] < p
    BY <1>2, <1>3 DEF UserPids
  <2> QED BY <1>1, <1>2, <1>3, <2>1, <2>2 DEF LifeCycle
<1> QED BY <1>5, <1>6, <1>7, <1>8, <1>9, <1>10, <1>11 DEF IInv

\* What every step of the system does: it keeps the invariant, it touches the
\* dead only to free them, and it delivers an exit status once.
LEMMA StepSafe ==
  ASSUME IInv, [Next]_vars
  PROVE  /\ IInv' /\ DeliversOnce
         /\ \A x \in Pids : state[x] \in {"DEAD", "FREED"} /\ x # current_process =>
              state'[x] = state[x] \/ (state[x] = "DEAD" /\ state'[x] = "FREED")
<1>0. ASSUME IInv' /\ DeadUntouched /\ DeliversOnce
      PROVE  /\ IInv' /\ DeliversOnce
             /\ \A x \in Pids : state[x] \in {"DEAD", "FREED"} /\ x # current_process =>
                  state'[x] = state[x] \/ (state[x] = "DEAD" /\ state'[x] = "FREED")
  BY <1>0 DEF DeadUntouched
<1>1. CASE sys_fork \/ \E fg \in BOOLEAN : start_program(fg)
  BY <1>0, <1>1, ForkKeepsIInv
<1>2. CASE CreateFails
  BY <1>0, <1>2, CreateFailsKeepsIInv
<1>3. CASE Exit
  BY <1>0, <1>3, ExitKeepsIInv
<1>4. CASE sys_wait
  BY <1>0, <1>4, WaitKeepsIInv DEF sys_wait, InUserMode
<1>5. pc[current_process] # "run" => current_process # KernelTask
  BY DEF IInv, LifeCycle
<1>6. CASE ResumeWait
  <2>1. wait_target[current_process] \in Pids
    BY RingFacts DEF IInv, TypeOK
  <2> QED BY <1>0, <1>5, <1>6, <2>1, WaitKeepsIInv DEF ResumeWait
<1>7. CASE sys_kill_pid \/ cmd_kill
  BY <1>0, <1>7, KillKeepsIInv DEF sys_kill_pid, cmd_kill
<1>8. CASE sys_give_foreground
  BY <1>0, <1>8, FocusKeepsIInv
<1>9. CASE sys_read \/ ResumeRead
  BY <1>0, <1>5, <1>9, ReadKeepsIInv DEF sys_read, ResumeRead, InUserMode
<1>10. CASE deliver_char
  BY <1>0, <1>10, KeyKeepsIInv
<1>11. CASE scheduler_tick
  BY <1>0, <1>11, TickKeepsIInv
<1>12. CASE ReapDetach \/ ReapDestroy
  BY <1>12, ReapKeepsIInv
<1>13. CASE UNCHANGED vars
  <2>1. UNCHANGED <<state, parent_pid, exit_code, block_reason, wait_target, pc, ready_queue,
                    blocked_list, zombie_list, current_process, exit_records, fate, reaping,
                    foreground_process, next_pid, tick_count, kbd>>
    BY <1>13 DEF vars, procVars, listVars, exitVars, otherVars
  <2>2. DeadUntouched /\ DeliversOnce
    BY <2>1 DEF DeadUntouched, DeliversOnce
  <2>3. IInv'
    BY <2>1 DEF IInv, TypeOK, RingSound, ListsMatchStates, ExitAccounting, WaiterHasChild,
       ForegroundAlive, LifeCycle, Queued, QueuedOrBlocked
  <2> QED BY <1>0, <2>2, <2>3
<1> QED BY <1>1, <1>2, <1>3, <1>4, <1>6, <1>7, <1>8, <1>9, <1>10, <1>11, <1>12, <1>13 DEF Next

\* The inductive invariant holds in every reachable state.
THEOREM Invariance == Spec => []IInv
<1>1. Init => IInv
  BY InitIInv
<1>2. IInv /\ [Next]_vars => IInv'
  BY StepSafe
<1> QED BY <1>1, <1>2, PTL DEF Spec

\* No variable ever leaves its type, whatever the programs do.
THEOREM TypeCorrect == Spec => []TypeOK
<1>1. IInv => TypeOK
  BY DEF IInv
<1> QED BY <1>1, Invariance, PTL

\* The ready queue always is a ring without repetitions that starts at the
\* current process and holds the kernel task: scheduler_switch never runs out
\* of a task to go to.
THEOREM RingAlwaysSound == Spec => []RingSound
<1>1. IInv => RingSound
  BY DEF IInv
<1> QED BY <1>1, Invariance, PTL

\* Every process is on exactly the list that its state calls for, through all
\* interleavings of exits, kills, sleeps, wakeups and the reaper.
THEOREM ListsAlwaysMatchStates == Spec => []ListsMatchStates
<1>1. IInv => ListsMatchStates
  BY DEF IInv
<1> QED BY <1>1, Invariance, PTL

\* The exit records always hold the exits that are to be collected, with the
\* right parent and code.
THEOREM ExitsAccountedFor == Spec => []ExitAccounting
<1>1. IInv => ExitAccounting
  BY DEF IInv
<1> QED BY <1>1, Invariance, PTL

\* Whoever sleeps in wait() has a child to wait for, unless that was killed.
THEOREM WaitersHaveChildren == Spec => []WaiterHasChild
<1>1. IInv => WaiterHasChild
  BY DEF IInv
<1> QED BY <1>1, Invariance, PTL

\* The keyboard belongs to nobody, to a process that lives, or to one that was
\* killed.
THEOREM ForegroundAlwaysAlive == Spec => []ForegroundAlive
<1>1. IInv => ForegroundAlive
  BY DEF IInv
<1> QED BY <1>1, Invariance, PTL

\* Pids are handed out in order, a parent is older than its child, the process
\* with the CPU is running or was killed there, only the dead have exited, and
\* the kernel task neither dies nor sleeps.
THEOREM LivesInOrder == Spec => []LifeCycle
<1>1. IInv => LifeCycle
  BY DEF IInv
<1> QED BY <1>1, Invariance, PTL

\* What is dead and off the CPU never runs again, and a freed process_t is
\* never used again.
THEOREM DeadNeverRun == Spec => DeadStayDead
<1>1. IInv /\ [Next]_vars =>
        [\A p \in Pids : /\ p \in zombie_list \cup reaping => state'[p] \in {"DEAD", "FREED"}
                         /\ state[p] = "FREED" => state'[p] = "FREED"]_vars
  <2> SUFFICES ASSUME IInv, [Next]_vars, NEW p \in Pids
               PROVE  /\ p \in zombie_list \cup reaping => state'[p] \in {"DEAD", "FREED"}
                      /\ state[p] = "FREED" => state'[p] = "FREED"
    OBVIOUS
  <2>1. state[p] \in {"DEAD", "FREED"} /\ p # current_process =>
          state'[p] = state[p] \/ (state[p] = "DEAD" /\ state'[p] = "FREED")
    BY StepSafe
  <2>2. p \in zombie_list \cup reaping => state[p] = "DEAD" /\ p # current_process
    BY DEF IInv, ListsMatchStates
  <2>3. state[p] = "FREED" => p # current_process
    BY DEF IInv, LifeCycle
  <2> QED BY <2>1, <2>2, <2>3
<1> QED BY <1>1, Invariance, PTL DEF Spec, DeadStayDead

\* An exit status is collected at most once, and by the parent.
THEOREM ExitStatusDeliveredOnce == Spec => ExitDeliveredOnce
<1>1. IInv /\ [Next]_vars =>
        [\A p \in UserPids :
           /\ fate[p] # "collected" /\ fate'[p] = "collected"
                 => fate[p] = "recorded" /\ current_process = parent_pid[p]
           /\ fate[p] \in {"unrecorded", "collected", "overwritten"} => fate'[p] = fate[p]]_vars
  BY StepSafe DEF DeliversOnce
<1> QED BY <1>1, Invariance, PTL DEF Spec, ExitDeliveredOnce
=============================================================================
