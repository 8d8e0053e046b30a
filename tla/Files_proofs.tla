---------------------------- MODULE Files_proofs ----------------------------
(***************************************************************************)
(* The descriptors of open files keep their place, for any number of       *)
(* processes, files and clusters and any sizes of cluster and buffer.      *)
(***************************************************************************)
EXTENDS Files, FiniteSetTheorems, SequenceTheorems, WellFoundedInduction, TLAPS

\* What the walks along chains meet.
Place == Cluster \cup {0, EOC}

\* Along, as a function of the number of steps and in a given table.
Walk(t, c, j) ==
    LET at[i \in Nat] == IF i = 0 THEN c
                         ELSE IF at[i - 1] >= EOC THEN at[i - 1]
                         ELSE IF i = j THEN 0
                         ELSE IF at[i - 1] \in Cluster THEN t[at[i - 1]] ELSE EOC
    IN  at

Reached(t, e) == {c \in Cluster : \E i \in Nat : Walk(t, e.first, 0)[i] = c}

\* The chain of the file with entry e has as many clusters as its size needs,
\* all of them allocated.
Linked(t, e) ==
    /\ e.first \in Cluster \cup {0} /\ e.size \in Nat
    /\ \A i \in Nat : Walk(t, e.first, 0)[i] \in Cluster <=> i < ClustersFor(e.size)
    /\ \A i \in Nat : Walk(t, e.first, 0)[i] \in Cluster => t[Walk(t, e.first, 0)[i]] # 0

Chains(t, D) ==
    /\ \A n \in Names : D[n] # NoEntry => Linked(t, D[n])
    /\ \A m, n \in Names : m # n /\ D[m] # NoEntry /\ D[n] # NoEntry
                             => Reached(t, D[m]) \cap Reached(t, D[n]) = {}

\* Contents, from a given table t and given clusters x.
Text(t, x, e) ==
    [i \in 1 .. e.size |->
        x[Walk(t, e.first, 0)[(i - 1) \div CLUSTER_BYTES]][1 + ((i - 1) % CLUSTER_BYTES)]]

\* What a descriptor d that was opened on o keeps: the file is there, with the
\* size and the contents it had, and the cached place is that of the position,
\* or past the end of a chain that was cut.
Keeps(t, x, D, d, o) ==
    IF o.name = NULL THEN o = Unknown
    ELSE LET e == D[o.name]
         IN  /\ e # NoEntry /\ d.kind = "READ" /\ d.size = e.size /\ d.first_cluster = e.first
             /\ o.bytes = Text(t, x, e)
             /\ d.cluster_offset = d.pos % CLUSTER_BYTES
             /\ IF o.cut THEN d.cur_cluster \notin Cluster
                ELSE d.cur_cluster = Walk(t, e.first, 0)[d.pos \div CLUSTER_BYTES]

\* A disk with its files.
DiskOK(t, x, D) ==
    /\ t \in [Cluster -> Place] /\ x \in [Cluster -> [Block -> Content]]
    /\ D \in [Names -> [first : Cluster \cup {0, NULL}, size : Nat]]
    /\ Chains(t, D)

\* A value for each slot of each process.
Grid(X) == [Procs -> [Fds -> X]]
Handle  == [name : Names \cup {NULL}, bytes : Seq(Content), cut : BOOLEAN]
Buffer  == [path : Paths \cup {NULL}, buf : {b \in Seq(Bytes) : Len(b) <= WBUF_CAP}, refcount : Nat]
Call    == [op : {"none", "read", "exit"}, p : Procs \cup {NULL}, fd : Fds, len : Nat,
            from : Nat, got : Seq(Content), failed : BOOLEAN]

Types ==
    /\ alive \subseteq Procs /\ call \in Call
    /\ fds \in Grid(Descriptor) /\ opened \in Grid(Handle) /\ wbuf \in [Wbufs -> Buffer]
    /\ faults \in 0 .. MAXFAULTS /\ ops \in 0 .. MAXOPS

Handles == \A p \in Procs, f \in Fds : Keeps(fat, data, dir, fds[p][f], opened[p][f])

\* The descriptors of the table F that refer to buffer w.
Uses(d, w)  == d.kind = "WRITE" /\ d.wbuf = w
Users(F, w) == {h \in Procs \X Fds : Uses(F[h[1]][h[2]], w)}
Tally(F, w) == Cardinality(Users(F, w))

\* A buffer exists while descriptors refer to it, and knows how many.
Exact(x, n) == x.refcount = n /\ (n = 0 => x = NoWbuf) /\ (n # 0 => x.path \in Paths)
Counts(F, W) ==
    /\ \A w \in Wbufs : Exact(W[w], Tally(F, w))
    /\ \A p \in Procs, f \in Fds : F[p][f].kind = "WRITE" => F[p][f].wbuf \in Wbufs

\* A process that is not there holds nothing.
DeadEmpty ==
    \A p \in Procs \ alive : \A f \in Fds : fds[p][f].kind # "WRITE" /\ opened[p][f] = Unknown

\* A read in progress has got the bytes from where it began to the position.
CallSound ==
    /\ call.op = "none" => call = NoCall
    /\ call.op # "none" => call.p \in alive
    /\ call.op = "read" =>
          LET d == fds[call.p][call.fd]  o == opened[call.p][call.fd]
          IN  /\ d.kind = "READ" /\ call.len > 0
              /\ call.from + Len(call.got) = d.pos /\ Len(call.got) <= call.len
              /\ call.got # << >> => d.pos <= d.size
              /\ o.name # NULL => call.got = SubSeq(o.bytes, call.from + 1, d.pos)

IInv == /\ DiskOK(fat, data, dir) /\ Types /\ Handles /\ Counts(fds, wbuf) /\ DeadEmpty
        /\ CallSound /\ ShortOnlyAtEnd
-----------------------------------------------------------------------------
(* Numbers *)

\* The least of some numbers exists: the proofs by induction below look at
\* the least counterexample.
LEMMA LeastNumber ==
    ASSUME NEW S, S \subseteq Nat, S # {}
    PROVE  \E x \in S : \A y \in S : x =< y
<1> DEFINE R == OpToRel(<, Nat)
<1>1. IsWellFoundedOn(R, Nat)
  BY NatLessThanWellFounded
<1>2. PICK x \in S : \A y \in S : <<y, x>> \notin R
  <2> HIDE DEF R
  <2> QED BY <1>1, WFMin
<1>3. \A y \in S : x =< y
  <2> SUFFICES ASSUME NEW y \in S, y < x PROVE FALSE
    OBVIOUS
  <2>1. <<y, x>> \in R
    BY DEF OpToRel
  <2> QED BY <1>2, <2>1
<1> QED BY <1>3

\* The cluster and the offset of a position.
LEMMA Division ==
    ASSUME NEW v \in Nat, NEW n \in Nat \ {0}
    PROVE  v \div n \in Nat /\ v % n \in 0 .. n - 1 /\ v = n * (v \div n) + (v % n)
<1>1. v \div n \in Nat
  OBVIOUS
<1>2. v % n \in 0 .. n - 1
  OBVIOUS
<1>3. v = n * (v \div n) + (v % n)
  OBVIOUS
<1> QED BY <1>1, <1>2, <1>3

LEMMA QuotientLess ==
    ASSUME NEW n \in Nat \ {0}, NEW q \in Int, NEW r \in Nat, NEW m \in Int, n * q + r < n * m
    PROVE  q < m
OBVIOUS

LEMMA DivisionUnique ==
    ASSUME NEW n \in Nat \ {0}, NEW q \in Nat, NEW r \in 0 .. n - 1, NEW v, v = n * q + r
    PROVE  v \in Nat /\ v \div n = q /\ v % n = r
<1>1. n * q \in Nat /\ v \in Nat
  OBVIOUS
<1>2. PICK a \in Nat, b \in 0 .. n - 1 : a = v \div n /\ b = v % n /\ v = n * a + b
  BY <1>1, Division
<1>3. n * a + b < n * (q + 1)
  BY <1>1, <1>2
<1>4. n * q + r < n * (a + 1)
  BY <1>1, <1>2
<1>5. a < q + 1
  BY <1>2, <1>3, QuotientLess
<1>6. q < a + 1
  BY <1>2, <1>4, QuotientLess
<1>7. a = q
  BY <1>2, <1>5, <1>6
<1>8. b = r
  BY <1>2, <1>7
<1> QED BY <1>1, <1>2, <1>7, <1>8

\* The number of bytes of a cluster is positive.
LEMMA Sizes ==
    /\ CLUSTER_BYTES \in Nat \ {0} /\ NCLUSTERS \in Nat \ {0}
    /\ Cluster \subseteq Nat /\ EOC \in Nat /\ EOC \notin Cluster /\ 0 \notin Cluster /\ EOC # 0
    /\ \A c \in Cluster : c >= 2 /\ c < EOC
    /\ \A x \in Place : /\ x \in Nat
                        /\ x \in Cluster <=> x >= 2 /\ x < EOC
                        /\ x >= EOC <=> x = EOC
BY FilesAssumption DEF Cluster, EOC, Place
\* A step of n bytes that stays in the cluster, and one up to its end.
LEMMA StepWithin ==
    ASSUME NEW pos \in Nat, NEW n \in Nat, (pos % CLUSTER_BYTES) + n < CLUSTER_BYTES
    PROVE  /\ (pos + n) \div CLUSTER_BYTES = pos \div CLUSTER_BYTES
           /\ (pos + n) % CLUSTER_BYTES = (pos % CLUSTER_BYTES) + n
<1>0. CLUSTER_BYTES \in Nat \ {0}
  BY Sizes
<1>1. PICK q \in Nat, r \in 0 .. CLUSTER_BYTES - 1 :
         q = pos \div CLUSTER_BYTES /\ r = pos % CLUSTER_BYTES /\ pos = CLUSTER_BYTES * q + r
  BY <1>0, Division
<1>2. r + n \in 0 .. CLUSTER_BYTES - 1
  BY <1>0, <1>1
<1>3. pos + n = CLUSTER_BYTES * q + (r + n)
  BY <1>0, <1>1
<1>4. PICK v, s : v = pos + n /\ s = r + n
  OBVIOUS
<1>5. s \in 0 .. CLUSTER_BYTES - 1 /\ v = CLUSTER_BYTES * q + s
  BY <1>2, <1>3, <1>4
<1>6. v \div CLUSTER_BYTES = q /\ v % CLUSTER_BYTES = s
  BY <1>0, <1>5, DivisionUnique
<1> QED BY <1>1, <1>4, <1>6

LEMMA StepAcross ==
    ASSUME NEW pos \in Nat, NEW n \in Nat, (pos % CLUSTER_BYTES) + n = CLUSTER_BYTES
    PROVE  /\ (pos + n) \div CLUSTER_BYTES = (pos \div CLUSTER_BYTES) + 1
           /\ (pos + n) % CLUSTER_BYTES = 0
<1>0. CLUSTER_BYTES \in Nat \ {0}
  BY Sizes
<1>1. PICK q \in Nat, r \in 0 .. CLUSTER_BYTES - 1 :
         q = pos \div CLUSTER_BYTES /\ r = pos % CLUSTER_BYTES /\ pos = CLUSTER_BYTES * q + r
  BY <1>0, Division
<1>2. CLUSTER_BYTES * (q + 1) = CLUSTER_BYTES * q + CLUSTER_BYTES
  BY <1>0, <1>1
<1>3. pos + n = CLUSTER_BYTES * (q + 1) + 0
  BY <1>0, <1>1, <1>2
<1>4. 0 \in 0 .. CLUSTER_BYTES - 1 /\ q + 1 \in Nat
  BY <1>0, <1>1
<1>5. PICK v, u : v = pos + n /\ u = q + 1
  OBVIOUS
<1>6. u \in Nat /\ v = CLUSTER_BYTES * u + 0
  BY <1>3, <1>4, <1>5
<1>7. v \div CLUSTER_BYTES = u /\ v % CLUSTER_BYTES = 0
  BY <1>0, <1>4, <1>6, DivisionUnique
<1> QED BY <1>1, <1>5, <1>7

\* A file has the clusters of its bytes and no others.
LEMMA ClustersForFacts ==
    ASSUME NEW size \in Nat
    PROVE  /\ ClustersFor(size) \in Nat
           /\ ClustersFor(size) = 0 <=> size = 0
           /\ \A pos \in Nat : pos < size => pos \div CLUSTER_BYTES < ClustersFor(size)
           /\ \A pos \in Nat : pos >= size /\ pos % CLUSTER_BYTES = 0
                                 => pos \div CLUSTER_BYTES >= ClustersFor(size)
<1> DEFINE m == size + CLUSTER_BYTES - 1
<1>0. CLUSTER_BYTES \in Nat \ {0} /\ m \in Nat
  BY Sizes
<1>1. PICK k \in Nat, r \in 0 .. CLUSTER_BYTES - 1 :
         k = m \div CLUSTER_BYTES /\ r = m % CLUSTER_BYTES /\ m = CLUSTER_BYTES * k + r
  BY <1>0, Division
<1>2. ClustersFor(size) = k
  BY <1>1 DEF ClustersFor
<1>3. CLUSTER_BYTES * k \in Nat /\ size = CLUSTER_BYTES * k + r + 1 - CLUSTER_BYTES
  BY <1>0, <1>1
<1>4. size <= CLUSTER_BYTES * k
  BY <1>0, <1>1, <1>3
<1>5. k = 0 => size = 0
  BY <1>0, <1>3, <1>4
<1>6. size = 0 => k = 0
  <2>0. CLUSTER_BYTES * 1 = CLUSTER_BYTES
    BY <1>0
  <2>1. size = 0 => CLUSTER_BYTES * k + 0 < CLUSTER_BYTES * 1
    <3>1. PICK x \in Nat : x = CLUSTER_BYTES * k
      BY <1>3
    <3>2. size = x + r + 1 - CLUSTER_BYTES
      BY <1>3, <3>1
    <3>3. size = 0 => x + 0 < CLUSTER_BYTES
      <4>1. CLUSTER_BYTES \in Nat
        BY <1>0
      <4> QED BY <3>2, <4>1
    <3> QED BY <2>0, <3>1, <3>3
  <2>2. size = 0 => k < 1
    BY <1>0, <1>1, <2>1, QuotientLess
  <2> QED BY <1>1, <2>2
<1>7. ASSUME NEW pos \in Nat, pos < size PROVE pos \div CLUSTER_BYTES < k
  <2>1. PICK q \in Nat, s \in 0 .. CLUSTER_BYTES - 1 :
           q = pos \div CLUSTER_BYTES /\ pos = CLUSTER_BYTES * q + s
    BY <1>0, Division
  <2>2. CLUSTER_BYTES * q + s < CLUSTER_BYTES * k
    BY <1>0, <1>3, <1>4, <1>7, <2>1
  <2>3. q < k
    BY <1>0, <1>1, <2>1, <2>2, QuotientLess
  <2> QED BY <2>1, <2>3
<1>8. ASSUME NEW pos \in Nat, pos >= size, pos % CLUSTER_BYTES = 0
      PROVE  pos \div CLUSTER_BYTES >= k
  <2>1. PICK q \in Nat : q = pos \div CLUSTER_BYTES /\ pos = CLUSTER_BYTES * q + 0
    BY <1>0, <1>8, Division
  <2>2. CLUSTER_BYTES * (q + 1) = CLUSTER_BYTES * q + CLUSTER_BYTES
    BY <1>0, <2>1
  <2>3. CLUSTER_BYTES * k + r < CLUSTER_BYTES * (q + 1)
    BY <1>0, <1>1, <1>3, <1>8, <2>1, <2>2
  <2>4. k < q + 1
    BY <1>0, <1>1, <2>1, <2>3, QuotientLess
  <2> QED BY <1>1, <2>1, <2>4
<1> QED BY <1>1, <1>2, <1>5, <1>6, <1>7, <1>8

-----------------------------------------------------------------------------
(* Walks along a chain *)

\* The functions with a given first value and a given table of steps.
StepTables(S) == [Nat \X S -> S]
Stepped(S, c, F) == {f \in [Nat -> S] : f[0] = c /\ \A n \in Nat : f[n + 1] = F[<<n, f[n]>>]}

LEMMA Stepwise ==
    ASSUME NEW S, NEW c \in S, NEW F \in StepTables(S)
    PROVE  Stepped(S, c, F) # {}
<1> USE DEF StepTables
<1> DEFINE Good(k) == {g \in [0 .. k -> S] :
                         g[0] = c /\ \A n \in Nat : n < k => g[n + 1] = F[<<n, g[n]>>]}
           Bad == {k \in Nat : Good(k) = {}}
<1>1. Bad = {}
  <2> SUFFICES ASSUME Bad # {} PROVE FALSE
    OBVIOUS
  <2>1. PICK k \in Bad : \A y \in Bad : k =< y
    BY LeastNumber
  <2>2. CASE k = 0
    <3>1. [i \in 0 .. 0 |-> c] \in Good(0)
      OBVIOUS
    <3> QED BY <2>1, <2>2, <3>1
  <2>3. CASE k # 0
    <3>1. PICK i \in Nat : k = i + 1
      BY <2>1, <2>3
    <3>2. i \notin Bad
      <4>1. ~(k =< i) /\ i \in Nat
        BY <3>1
      <4> HIDE DEF Bad
      <4> QED BY <2>1, <4>1
    <3>3. PICK g \in [0 .. i -> S] : g[0] = c /\ \A n \in Nat : n < i => g[n + 1] = F[<<n, g[n]>>]
      BY <3>2
    <3> DEFINE h == [n \in 0 .. k |-> IF n <= i THEN g[n] ELSE F[<<i, g[i]>>]]
    <3>4. F[<<i, g[i]>>] \in S
      BY <3>1, <3>3
    <3>5. h \in [0 .. k -> S]
      BY <3>1, <3>3, <3>4
    <3>6. h[0] = c /\ \A n \in 0 .. i : h[n] = g[n]
      BY <3>1, <3>3
    <3>7. h[i + 1] = F[<<i, g[i]>>]
      BY <3>1
    <3> HIDE DEF h
    <3>8. \A n \in Nat : n < k => h[n + 1] = F[<<n, h[n]>>]
      <4> SUFFICES ASSUME NEW n \in Nat, n < k PROVE h[n + 1] = F[<<n, h[n]>>]
        OBVIOUS
      <4>1. CASE n = i
        <5>1. h[i] = g[i]
          BY <3>6
        <5> QED BY <3>7, <4>1, <5>1
      <4>2. CASE n # i
        <5>1. n < i /\ n \in 0 .. i /\ n + 1 \in 0 .. i
          BY <3>1, <4>2
        <5> QED BY <3>3, <3>6, <5>1
      <4> QED BY <4>1, <4>2
    <3>9. h \in Good(k)
      BY <3>5, <3>6, <3>8
    <3> QED BY <2>1, <3>9
  <2> QED BY <2>2, <2>3
<1>2. \A k \in Nat : \E g : g \in Good(k)
  <2>1. \A k \in Nat : Good(k) # {}
    BY <1>1
  <2> HIDE DEF Good
  <2> QED BY <2>1
<1> DEFINE G == [k \in Nat |-> CHOOSE g : g \in Good(k)]
           f == [k \in Nat |-> G[k][k]]
<1>3. \A k \in Nat : G[k] \in Good(k)
  BY <1>2
<1> HIDE DEF G
<1>4. \A k \in Nat : /\ G[k] \in [0 .. k -> S] /\ G[k][0] = c
                     /\ \A n \in Nat : n < k => G[k][n + 1] = F[<<n, G[k][n]>>]
  BY <1>3
<1>5. f \in [Nat -> S] /\ f[0] = c
  BY <1>4
<1>6. ASSUME NEW n \in Nat PROVE f[n + 1] = F[<<n, f[n]>>]
  <2>1. G[n + 1][n] = G[n][n]
    <3> DEFINE a == G[n]
               b == G[n + 1]
               Off == {i \in Nat : i <= n /\ a[i] # b[i]}
    <3>1. /\ a[0] = c /\ b[0] = c
          /\ \A i \in Nat : i < n => a[i + 1] = F[<<i, a[i]>>]
          /\ \A i \in Nat : i < n => b[i + 1] = F[<<i, b[i]>>]
      BY <1>4
    <3> HIDE DEF a, b
    <3>2. ASSUME Off # {} PROVE FALSE
      <4>1. PICK i \in Off : \A y \in Off : i =< y
        BY <3>2, LeastNumber
      <4>2. i \in Nat /\ i # 0 /\ i <= n /\ a[i] # b[i]
        BY <3>1, <4>1
      <4>3. PICK j \in Nat : i = j + 1
        BY <4>2
      <4>4. j < n /\ a[j] = b[j]
        BY <4>1, <4>2, <4>3
      <4> QED BY <3>1, <4>2, <4>3, <4>4
    <3>3. a[n] = b[n]
      BY <3>2
    <3> QED BY <3>3 DEF a, b
  <2>2. G[n + 1][n + 1] = F[<<n, G[n + 1][n]>>]
    BY <1>4
  <2> QED BY <2>1, <2>2
<1> QED BY <1>5, <1>6 DEF Stepped

\* The function w goes from c along the table t, and fails in step j.
Goes(w, t, c, j) ==
    /\ w \in [Nat -> Place] /\ w[0] = c
    /\ \A i \in Nat : w[i + 1] = IF w[i] = EOC THEN EOC ELSE IF i + 1 = j THEN 0
                                 ELSE IF w[i] \in Cluster THEN t[w[i]] ELSE EOC

\* The walk from c exists, and each of its steps is that of Along.
LEMMA WalkFacts ==
    ASSUME NEW t \in [Cluster -> Place], NEW c \in Place, NEW j
    PROVE  Goes(Walk(t, c, j), t, c, j)
<1> DEFINE Step(i, x) == IF x >= EOC THEN x ELSE IF i = j THEN 0
                         ELSE IF x \in Cluster THEN t[x] ELSE EOC
           F == [a \in Nat \X Place |-> Step(a[1] + 1, a[2])]
           Is(f) == f = [i \in Nat |-> IF i = 0 THEN c
                                       ELSE IF f[i - 1] >= EOC THEN f[i - 1]
                                       ELSE IF i = j THEN 0
                                       ELSE IF f[i - 1] \in Cluster THEN t[f[i - 1]] ELSE EOC]
           w == Walk(t, c, j)
<1>1. \A i, x : x \in Place => Step(i, x) \in Place
  BY Sizes DEF Place
<1>2. F \in [Nat \X Place -> Place] /\ \A i \in Nat, x \in Place : F[<<i, x>>] = Step(i + 1, x)
  <2> HIDE DEF Step
  <2> QED BY <1>1
<1> HIDE DEF F
<1>3. PICK f \in [Nat -> Place] : f[0] = c /\ \A n \in Nat : f[n + 1] = F[<<n, f[n]>>]
  <2>1. F \in StepTables(Place)
    BY <1>2 DEF StepTables
  <2> HIDE DEF Step
  <2>2. Stepped(Place, c, F) # {}
    BY <2>1, Stepwise
  <2> QED BY <2>2 DEF Stepped
<1>4. \A n \in Nat : f[n + 1] = Step(n + 1, f[n])
  BY <1>2, <1>3
<1>5. ASSUME NEW i \in Nat, i # 0 PROVE f[i] = Step(i, f[i - 1])
  <2>1. PICK n \in Nat : i = n + 1 /\ n = i - 1
    BY <1>5
  <2> HIDE DEF Step
  <2> QED BY <1>4, <2>1
<1>6. Is(f)
  BY <1>3, <1>5
<1>7. w = CHOOSE g : Is(g)
  BY DEF Walk
<1> HIDE DEF w
<1>8. Is(w)
  <2> HIDE DEF Is
  <2> QED BY <1>6, <1>7
<1>9. /\ w[0] = c
      /\ \A i \in Nat : w[i + 1] = Step(i + 1, w[i])
      /\ \E g : w = [i \in Nat |-> g[i]]
  <2>1. w = [i \in Nat |-> IF i = 0 THEN c ELSE Step(i, w[i - 1])]
    BY <1>8
  <2> HIDE DEF Step, Is
  <2>2. w[0] = c /\ \A i \in Nat \ {0} : w[i] = Step(i, w[i - 1])
    BY <2>1
  <2>3. ASSUME NEW i \in Nat PROVE w[i + 1] = Step(i + 1, w[i])
    <3>1. PICK n \in Nat \ {0} : n = i + 1 /\ n - 1 = i
      OBVIOUS
    <3> QED BY <2>2, <3>1
  <2>4. w = [i \in Nat |-> w[i]]
    BY <2>1
  <2> QED BY <2>2, <2>3, <2>4
<1> DEFINE Off == {i \in Nat : w[i] \notin Place}
<1>10. ASSUME Off # {} PROVE FALSE
  <2>1. PICK i \in Off : \A y \in Off : i =< y
    BY <1>10, LeastNumber
  <2>2. i \in Nat /\ i # 0 /\ w[i] \notin Place
    BY <1>9, <2>1
  <2>3. PICK n \in Nat : i = n + 1
    BY <2>2
  <2>4. w[n] \in Place
    BY <2>1, <2>3
  <2> HIDE DEF Step
  <2> QED BY <1>1, <1>9, <2>2, <2>3, <2>4
<1>11. w \in [Nat -> Place]
  <2>1. \A i \in Nat : w[i] \in Place
    BY <1>10
  <2> QED BY <1>9, <2>1
<1>12. \A i \in Nat : w[i + 1] = IF w[i] = EOC THEN EOC ELSE IF i + 1 = j THEN 0
                                 ELSE IF w[i] \in Cluster THEN t[w[i]] ELSE EOC
  <2>1. \A i \in Nat : w[i] >= EOC <=> w[i] = EOC
    BY <1>11, Sizes
  <2> QED BY <1>9, <2>1
<1> QED BY <1>9, <1>11, <1>12 DEF w, Goes

\* Along takes the walk in the table of the disk.
LEMMA AlongIsWalk ==
    ASSUME NEW c, NEW k, NEW j
    PROVE  Along(c, k, j) = Walk(fat, c, j)[k]
BY DEF Along, Walk, NextCluster

\* Past the end of a chain there are no clusters.
LEMMA WalkEnds ==
    ASSUME NEW t \in [Cluster -> Place], NEW c \in Place, NEW j, NEW k \in Nat,
           Walk(t, c, j)[k] \notin Cluster
    PROVE  \A i \in Nat : i >= k => Walk(t, c, j)[i] \notin Cluster
<1> DEFINE w == Walk(t, c, j)
           Off == {i \in Nat : i >= k /\ w[i] \in Cluster}
<1>1. \A i \in Nat : w[i + 1] = IF w[i] = EOC THEN EOC ELSE IF i + 1 = j THEN 0
                                ELSE IF w[i] \in Cluster THEN t[w[i]] ELSE EOC
  BY WalkFacts DEF Goes
<1>0. w[k] \notin Cluster
  OBVIOUS
<1> HIDE DEF w
<1>2. ASSUME Off # {} PROVE FALSE
  <2>1. PICK i \in Off : \A y \in Off : i =< y
    BY <1>2, LeastNumber
  <2>2. i \in Nat /\ i >= k /\ i # k /\ w[i] \in Cluster
    BY <1>0, <2>1
  <2>3. PICK n \in Nat : i = n + 1 /\ n >= k
    BY <2>2
  <2>4. w[n] \notin Cluster
    BY <2>1, <2>3
  <2> QED BY <1>1, <2>2, <2>3, <2>4, Sizes
<1> QED BY <1>2 DEF w

\* A walk that fails to read the table ends there.
LEMMA WalkCut ==
    ASSUME NEW t \in [Cluster -> Place], NEW c \in Place, NEW k \in Nat, NEW j \in 1 .. k
    PROVE  Walk(t, c, j)[k] \notin Cluster
<1>1. PICK i \in Nat : j = i + 1
  <2>1. j - 1 \in Nat /\ j = (j - 1) + 1
    OBVIOUS
  <2> QED BY <2>1
<1>2. Walk(t, c, j)[j] \in {0, EOC}
  <2>1. Goes(Walk(t, c, j), t, c, j)
    BY WalkFacts
  <2> QED BY <1>1, <2>1 DEF Goes
<1>3. Walk(t, c, j)[j] \notin Cluster /\ j \in Nat /\ k >= j
  BY <1>2, Sizes
<1> QED BY <1>3, WalkEnds

\* Tables that agree on the clusters of a chain have that chain in common.
LEMMA SameWalk ==
    ASSUME NEW t \in [Cluster -> Place], NEW u \in [Cluster -> Place], NEW c \in Place, NEW j,
           \A i \in Nat : Walk(t, c, j)[i] \in Cluster =>
                            u[Walk(t, c, j)[i]] = t[Walk(t, c, j)[i]]
    PROVE  Walk(u, c, j) = Walk(t, c, j)
<1> DEFINE w == Walk(t, c, j)
           v == Walk(u, c, j)
           Off == {i \in Nat : v[i] # w[i]}
<1>1. /\ w \in [Nat -> Place] /\ w[0] = c
      /\ \A i \in Nat : w[i + 1] = IF w[i] = EOC THEN EOC ELSE IF i + 1 = j THEN 0
                                   ELSE IF w[i] \in Cluster THEN t[w[i]] ELSE EOC
  BY WalkFacts DEF Goes
<1>2. /\ v \in [Nat -> Place] /\ v[0] = c
      /\ \A i \in Nat : v[i + 1] = IF v[i] = EOC THEN EOC ELSE IF i + 1 = j THEN 0
                                   ELSE IF v[i] \in Cluster THEN u[v[i]] ELSE EOC
  BY WalkFacts DEF Goes
<1>3. \A i \in Nat : w[i] \in Cluster => u[w[i]] = t[w[i]]
  OBVIOUS
<1> HIDE DEF v, w
<1>4. ASSUME Off # {} PROVE FALSE
  <2>1. PICK i \in Off : \A y \in Off : i =< y
    BY <1>4, LeastNumber
  <2>2. i \in Nat /\ i # 0 /\ v[i] # w[i]
    BY <1>1, <1>2, <2>1
  <2>3. PICK n \in Nat : i = n + 1
    BY <2>2
  <2>4. v[n] = w[n]
    BY <2>1, <2>3
  <2> QED BY <1>1, <1>2, <1>3, <2>2, <2>3, <2>4
<1>5. \A i \in Nat : v[i] = w[i]
  BY <1>4
<1>6. v = w
  BY <1>1, <1>2, <1>5
<1> QED BY <1>6 DEF v, w

\* The clusters s, linked in their order, are the chain from the first of them.
InOrder(t, k, s) == \A i \in 1 .. k : t[s[i]] = IF i = k THEN EOC ELSE s[i + 1]

LEMMA WalkLaid ==
    ASSUME NEW t \in [Cluster -> Place], NEW k \in Nat \ {0}, NEW s \in [1 .. k -> Cluster],
           InOrder(t, k, s)
    PROVE  /\ \A i \in Nat : i < k => Walk(t, s[1], 0)[i] = s[i + 1]
           /\ \A i \in Nat : Walk(t, s[1], 0)[i] \in Cluster <=> i < k
<1> USE DEF InOrder
<1> DEFINE w == Walk(t, s[1], 0)
           Off == {i \in Nat : i < k /\ w[i] # s[i + 1]}
<1>0. s[1] \in Place /\ 1 \in 1 .. k
  BY DEF Place
<1>1. /\ w[0] = s[1]
      /\ \A i \in Nat : w[i + 1] = IF w[i] = EOC THEN EOC ELSE IF i + 1 = 0 THEN 0
                                   ELSE IF w[i] \in Cluster THEN t[w[i]] ELSE EOC
  <2>1. Goes(w, t, s[1], 0)
    BY <1>0, WalkFacts
  <2> QED BY <2>1 DEF Goes
<1> HIDE DEF w
<1>2. ASSUME Off # {} PROVE FALSE
  <2>1. PICK i \in Off : \A y \in Off : i =< y
    BY <1>2, LeastNumber
  <2>2. i \in Nat /\ i # 0 /\ i < k /\ w[i] # s[i + 1]
    BY <1>1, <2>1
  <2>3. PICK n \in Nat : i = n + 1 /\ n + 1 \in 1 .. k /\ n + 1 # k /\ n < k
    BY <2>2
  <2>4. w[n] = s[n + 1]
    BY <2>1, <2>3
  <2>5. s[n + 1] \in Cluster /\ t[s[n + 1]] = s[n + 1 + 1]
    BY <2>3
  <2>6. w[n + 1] = s[n + 1 + 1]
    <3>1. n + 1 # 0 /\ s[n + 1] # EOC
      BY <2>5, Sizes
    <3> QED BY <1>1, <2>3, <2>4, <2>5, <3>1
  <2> QED BY <2>2, <2>3, <2>6
<1>3. \A i \in Nat : i < k => w[i] = s[i + 1] /\ i + 1 \in 1 .. k
  BY <1>2
<1>4. \A i \in Nat : i < k => w[i] \in Cluster
  BY <1>3
<1>5. w[k] \notin Cluster
  <2>1. PICK n \in Nat : k = n + 1 /\ n < k
    <3>1. k - 1 \in Nat /\ k = (k - 1) + 1 /\ k - 1 < k
      OBVIOUS
    <3> QED BY <3>1
  <2>2. w[n] = s[k] /\ k \in 1 .. k
    BY <1>3, <2>1
  <2>3. s[k] \in Cluster /\ t[s[k]] = EOC
    BY <2>2
  <2> QED BY <1>1, <2>1, <2>2, <2>3, Sizes
<1>6. \A i \in Nat : i >= k => w[i] \notin Cluster
  BY <1>0, <1>5, WalkEnds DEF w
<1>7. \A i \in Nat : w[i] \in Cluster <=> i < k
  BY <1>4, <1>6
<1> QED BY <1>3, <1>7 DEF w
-----------------------------------------------------------------------------
(* Files on the disk *)

\* ChainOf frees what the walk from the entry reaches.
LEMMA ChainIsReached ==
    ASSUME fat \in [Cluster -> Place], NEW e, Linked(fat, e)
    PROVE  ChainOf(e) = Reached(fat, e)
<1> DEFINE w == Walk(fat, e.first, 0)
           k == ClustersFor(e.size)
<1>1. k \in Nat
  BY ClustersForFacts DEF Linked
<1>2. \A i \in Nat : w[i] \in Cluster <=> i < k
  BY DEF Linked
<1>3. ChainOf(e) = {w[i] : i \in 0 .. k - 1}
  BY AlongIsWalk DEF ChainOf
<1>4. Reached(fat, e) = {c \in Cluster : \E i \in Nat : w[i] = c}
  BY DEF Reached
<1> HIDE DEF w, k
<1>5. \A i \in 0 .. k - 1 : i \in Nat /\ i < k
  BY <1>1
<1>6. \A i \in Nat : i < k => i \in 0 .. k - 1
  BY <1>1
<1> QED BY <1>2, <1>3, <1>4, <1>5, <1>6

\* A file has a cluster for each of its bytes.
LEMMA ByteHasCluster ==
    ASSUME NEW t, NEW e, Linked(t, e), NEW pos \in Nat, pos < e.size
    PROVE  /\ pos \div CLUSTER_BYTES \in Nat
           /\ Walk(t, e.first, 0)[pos \div CLUSTER_BYTES] \in Reached(t, e)
           /\ pos % CLUSTER_BYTES \in 0 .. CLUSTER_BYTES - 1
<1>1. pos \div CLUSTER_BYTES \in Nat /\ pos % CLUSTER_BYTES \in 0 .. CLUSTER_BYTES - 1
  BY Sizes, Division
<1>2. e.size \in Nat
  BY DEF Linked
<1>3. pos \div CLUSTER_BYTES < ClustersFor(e.size)
  BY <1>2, ClustersForFacts
<1>4. PICK q \in Nat : q = pos \div CLUSTER_BYTES
  BY <1>1
<1>5. Walk(t, e.first, 0)[q] \in Cluster
  BY <1>3, <1>4 DEF Linked
<1>6. Walk(t, e.first, 0)[q] \in Reached(t, e)
  BY <1>5 DEF Reached
<1> QED BY <1>1, <1>4, <1>6

\* What nothing is written to stays as it is.
Same(S, t, u, x, y) == \A c \in S : u[c] = t[c] /\ y[c] = x[c]

SameFile(e, t, u, x, y) ==
    /\ Walk(u, e.first, 0) = Walk(t, e.first, 0)
    /\ Linked(u, e) /\ Reached(u, e) = Reached(t, e)
    /\ Text(u, y, e) = Text(t, x, e)

LEMMA FileStays ==
    ASSUME NEW t \in [Cluster -> Place], NEW u \in [Cluster -> Place], NEW x, NEW y,
           NEW e, Linked(t, e), Same(Reached(t, e), t, u, x, y)
    PROVE  SameFile(e, t, u, x, y)
<1> USE DEF Same
<1> DEFINE w == Walk(t, e.first, 0)
<1>0. e.first \in Place
  BY DEF Linked, Place
<1>1. \A i \in Nat : w[i] \in Cluster => w[i] \in Reached(t, e)
  BY DEF Reached
<1>2. Walk(u, e.first, 0) = w
  <2>1. PICK c : c = e.first
    OBVIOUS
  <2>2. c \in Place
    BY <1>0, <2>1
  <2>3. \A i \in Nat : Walk(t, c, 0)[i] \in Cluster => u[Walk(t, c, 0)[i]] = t[Walk(t, c, 0)[i]]
    BY <1>1, <2>1
  <2>4. Walk(u, c, 0) = Walk(t, c, 0)
    BY <2>2, <2>3, SameWalk
  <2> QED BY <2>1, <2>4
<1>3. Linked(u, e)
  BY <1>1, <1>2 DEF Linked
<1>4. Reached(u, e) = Reached(t, e)
  BY <1>2 DEF Reached
<1>5. Text(u, y, e) = Text(t, x, e)
  <2>1. ASSUME NEW i \in 1 .. e.size
        PROVE  y[w[(i - 1) \div CLUSTER_BYTES]] = x[w[(i - 1) \div CLUSTER_BYTES]]
    <3>1. PICK pos \in Nat : pos = i - 1 /\ pos < e.size
      BY DEF Linked
    <3>2. w[pos \div CLUSTER_BYTES] \in Reached(t, e)
      BY <3>1, ByteHasCluster
    <3> QED BY <3>1, <3>2
  <2> QED BY <1>2, <2>1 DEF Text
<1> QED BY <1>2, <1>3, <1>4, <1>5 DEF SameFile

\* The clusters taken for a file are free ones, each taken once.
LEMMA TakenFacts ==
    ASSUME NEW t, NEW k \in Nat, NEW s, Taken(s, k, t)
    PROVE  /\ s \in [1 .. k -> Cluster] /\ Len(s) = k /\ DOMAIN s = 1 .. k
           /\ \A i \in 1 .. k : t[s[i]] = 0 /\ Position(s, s[i]) = i
<1>1. s \in [1 .. k -> Cluster] /\ \A i \in 1 .. k : t[s[i]] = 0
  BY DEF Taken
<1>2. DOMAIN s = 1 .. k /\ Len(s) = k
  BY <1>1
<1>3. ASSUME NEW i \in 1 .. k PROVE Position(s, s[i]) = i
  <2>1. \E j \in DOMAIN s : s[j] = s[i]
    BY <1>2
  <2>2. Position(s, s[i]) \in DOMAIN s /\ s[Position(s, s[i])] = s[i]
    BY <2>1 DEF Position
  <2>3. PICK j \in 1 .. k : j = Position(s, s[i])
    BY <1>2, <2>2
  <2>4. PICK a \in Nat : a = s[i]
    <3>1. s[i] \in Cluster
      BY <1>1
    <3> QED BY <3>1, Sizes
  <2>5. s[j] = a
    BY <2>2, <2>3, <2>4
  <2>6. ~(i < j) /\ ~(j < i)
    <3>1. (i < j => s[i] < s[j]) /\ (j < i => s[j] < s[i])
      BY DEF Taken
    <3>2. (i < j => a < a) /\ (j < i => a < a)
      BY <2>4, <2>5, <3>1
    <3> QED BY <3>2
  <2> QED BY <2>3, <2>6
<1> QED BY <1>1, <1>2, <1>3

\* What Laid leaves in the table and in the clusters.
LEMMA LaidFacts ==
    ASSUME NEW t \in [Cluster -> Place], NEW k \in Nat, NEW s, Taken(s, k, t),
           data \in [Cluster -> [Block -> Content]], NEW b \in Seq(Bytes), Laid(s, b, t)
    PROVE  /\ fat' \in [Cluster -> Place] /\ data' \in [Cluster -> [Block -> Content]]
           /\ \A c \in Cluster : t[c] # 0 => fat'[c] = t[c] /\ data'[c] = data[c]
           /\ \A i \in 1 .. k : fat'[s[i]] = IF i = k THEN EOC ELSE s[i + 1]
           /\ \A i \in 1 .. k, j \in Block : (i - 1) * CLUSTER_BYTES + j <= Len(b) =>
                data'[s[i]][j] = b[(i - 1) * CLUSTER_BYTES + j]
<1> DEFINE in(c) == \E i \in 1 .. k : s[i] = c
           at(c) == Position(s, c)
           word(q, i) == IF q * CLUSTER_BYTES + i <= Len(b) THEN b[q * CLUSTER_BYTES + i] ELSE 0
<1>1. /\ s \in [1 .. k -> Cluster] /\ Len(s) = k /\ DOMAIN s = 1 .. k
      /\ \A i \in 1 .. k : t[s[i]] = 0 /\ at(s[i]) = i
  BY TakenFacts
<1>2. fat' = [c \in Cluster |->
                IF ~in(c) THEN t[c] ELSE IF at(c) = k THEN EOC ELSE s[at(c) + 1]]
  BY <1>1 DEF Laid
<1>3. data' = [c \in Cluster |->
                IF ~in(c) THEN data[c] ELSE [i \in Block |-> word(at(c) - 1, i)]]
  BY <1>1 DEF Laid
<1>4. ASSUME NEW q \in Nat, NEW i \in Block PROVE word(q, i) \in Content
  <2>1. PICK m : m = q * CLUSTER_BYTES + i
    OBVIOUS
  <2>2. m \in Nat \ {0}
    <3>1. q * CLUSTER_BYTES \in Nat /\ i \in Nat \ {0}
      BY Sizes DEF Block
    <3> QED BY <2>1, <3>1
  <2>3. m <= Len(b) => b[m] \in Bytes
    BY <2>2
  <2> QED BY <2>1, <2>3 DEF Content
<1>5. \A i \in 1 .. k : i - 1 \in Nat
  OBVIOUS
<1> HIDE DEF at, word
<1>6. \A c \in Cluster : t[c] # 0 => ~in(c)
  BY <1>1
<1>7. fat' \in [Cluster -> Place]
  <2>1. ASSUME NEW c \in Cluster, in(c), at(c) # k PROVE s[at(c) + 1] \in Cluster
    <3>1. PICK i \in 1 .. k : at(c) = i /\ i # k
      BY <1>1, <2>1
    <3>2. i + 1 \in 1 .. k
      BY <3>1
    <3> QED BY <1>1, <3>1, <3>2
  <2>2. \A c \in Cluster : fat'[c] \in Place
    <3> HIDE DEF in
    <3> QED BY <1>2, <2>1 DEF Place
  <2> HIDE DEF in
  <2> QED BY <1>2, <2>2
<1>8. data' \in [Cluster -> [Block -> Content]]
  <2>1. ASSUME NEW c \in Cluster, in(c)
        PROVE  [i \in Block |-> word(at(c) - 1, i)] \in [Block -> Content]
    <3>1. PICK j \in 1 .. k : at(c) = j
      BY <1>1, <2>1
    <3>2. at(c) - 1 \in Nat
      BY <1>5, <3>1
    <3> QED BY <1>4, <3>2
  <2>2. \A c \in Cluster : data'[c] \in [Block -> Content]
    <3> HIDE DEF in
    <3> QED BY <1>3, <2>1
  <2> HIDE DEF in
  <2> QED BY <1>3, <2>2
<1>9. ASSUME NEW c \in Cluster, t[c] # 0 PROVE fat'[c] = t[c] /\ data'[c] = data[c]
  <2>1. ~in(c)
    BY <1>6, <1>9
  <2> HIDE DEF in
  <2> QED BY <1>2, <1>3, <2>1
<1>10. ASSUME NEW i \in 1 .. k
       PROVE  /\ fat'[s[i]] = IF i = k THEN EOC ELSE s[i + 1]
              /\ data'[s[i]] = [j \in Block |-> word(i - 1, j)]
  <2>1. PICK c \in Cluster : c = s[i] /\ in(c) /\ at(c) = i
    BY <1>1
  <2> HIDE DEF in
  <2>2. fat'[c] = IF i = k THEN EOC ELSE s[i + 1]
    BY <1>2, <2>1
  <2>3. data'[c] = [j \in Block |-> word(i - 1, j)]
    BY <1>3, <2>1
  <2> QED BY <2>1, <2>2, <2>3
<1>11. ASSUME NEW i \in 1 .. k, NEW j \in Block, (i - 1) * CLUSTER_BYTES + j <= Len(b)
       PROVE  data'[s[i]][j] = b[(i - 1) * CLUSTER_BYTES + j]
  <2>1. data'[s[i]][j] = word(i - 1, j)
    BY <1>10
  <2> QED BY <1>11, <2>1 DEF word
<1> QED BY <1>7, <1>8, <1>9, <1>10, <1>11

\* The file that Laid makes: it has the clusters taken and the bytes written.
NewEntry(s, b) == [first |-> IF ClustersFor(Len(b)) = 0 THEN 0 ELSE s[1], size |-> Len(b)]

LEMMA NewFile ==
    ASSUME NEW t \in [Cluster -> Place], NEW b \in Seq(Bytes),
           NEW s, Taken(s, ClustersFor(Len(b)), t), Laid(s, b, t),
           data \in [Cluster -> [Block -> Content]]
    PROVE  /\ Linked(fat', NewEntry(s, b)) /\ Text(fat', data', NewEntry(s, b)) = b
           /\ \A c \in Reached(fat', NewEntry(s, b)) : t[c] = 0
<1>1. PICK k, e : k = ClustersFor(Len(b)) /\ e = NewEntry(s, b)
  OBVIOUS
<1>2. e = [first |-> IF k = 0 THEN 0 ELSE s[1], size |-> Len(b)]
  BY <1>1 DEF NewEntry
<1>3. Taken(s, k, t)
  BY <1>1
<1> DEFINE w == Walk(fat', e.first, 0)
<1>4. Len(b) \in Nat /\ k \in Nat /\ (k = 0 <=> Len(b) = 0)
  BY <1>1, ClustersForFacts
<1>5. /\ s \in [1 .. k -> Cluster] /\ \A i \in 1 .. k : t[s[i]] = 0
  BY <1>4, <1>3, TakenFacts
<1>6. /\ fat' \in [Cluster -> Place]
      /\ \A i \in 1 .. k : fat'[s[i]] = IF i = k THEN EOC ELSE s[i + 1]
      /\ \A i \in 1 .. k, j \in Block : (i - 1) * CLUSTER_BYTES + j <= Len(b) =>
           data'[s[i]][j] = b[(i - 1) * CLUSTER_BYTES + j]
  BY <1>4, <1>3, LaidFacts
<1>7. e.size = Len(b) /\ e.first \in Cluster \cup {0}
  BY <1>4, <1>5, <1>2
<1>8. /\ \A i \in Nat : i < k => w[i] = s[i + 1] /\ i + 1 \in 1 .. k
      /\ \A i \in Nat : w[i] \in Cluster <=> i < k
  <2>1. CASE k = 0
    <3>1. PICK c, u : c = 0 /\ u = fat'
      OBVIOUS
    <3>2. c \in Place /\ c \notin Cluster /\ u \in [Cluster -> Place]
      BY <1>6, <3>1, Sizes DEF Place
    <3>3. Walk(u, c, 0)[0] \notin Cluster
      <4>1. Goes(Walk(u, c, 0), u, c, 0)
        BY <3>2, WalkFacts
      <4> QED BY <3>2, <4>1 DEF Goes
    <3>4. \A i \in Nat : i >= 0 => Walk(u, c, 0)[i] \notin Cluster
      BY <3>2, <3>3, WalkEnds
    <3>5. e.first = c
      BY <1>2, <2>1, <3>1
    <3>6. \A i \in Nat : w[i] \notin Cluster
      BY <3>1, <3>4, <3>5
    <3> HIDE DEF w
    <3> QED BY <2>1, <3>6
  <2>2. CASE k # 0
    <3>1. PICK u : u = fat'
      OBVIOUS
    <3>2. u \in [Cluster -> Place] /\ k \in Nat \ {0} /\ InOrder(u, k, s)
      BY <1>4, <1>6, <2>2, <3>1 DEF InOrder
    <3>3. /\ \A i \in Nat : i < k => Walk(u, s[1], 0)[i] = s[i + 1]
          /\ \A i \in Nat : Walk(u, s[1], 0)[i] \in Cluster <=> i < k
      BY <1>5, <3>2, WalkLaid
    <3>4. e.first = s[1]
      BY <1>2, <2>2
    <3>5. \A i \in Nat : i < k => i + 1 \in 1 .. k
      BY <1>4
    <3>6. w = Walk(u, s[1], 0)
      BY <3>1, <3>4
    <3> HIDE DEF w
    <3> QED BY <3>3, <3>5, <3>6
  <2> QED BY <2>1, <2>2
<1>9. \A i \in Nat : w[i] \in Cluster => fat'[w[i]] # 0
  <2>1. ASSUME NEW i \in 1 .. k PROVE fat'[s[i]] # 0
    <3>1. i # k => i + 1 \in 1 .. k
      BY <1>4
    <3>2. i # k => s[i + 1] \in Cluster
      BY <1>5, <3>1
    <3> QED BY <1>6, <3>2, Sizes
  <2> HIDE DEF w
  <2> QED BY <1>8, <2>1
<1>10. Linked(fat', e)
  BY <1>1, <1>4, <1>7, <1>8, <1>9 DEF Linked
<1>11. ASSUME NEW c \in Reached(fat', e) PROVE t[c] = 0
  <2>1. PICK i \in Nat : w[i] = c /\ c \in Cluster
    BY DEF Reached
  <2> HIDE DEF w
  <2> QED BY <1>5, <1>8, <2>1
<1>12. Text(fat', data', e) = b
  <2>1. ASSUME NEW i \in 1 .. Len(b)
        PROVE  data'[w[(i - 1) \div CLUSTER_BYTES]][1 + ((i - 1) % CLUSTER_BYTES)] = b[i]
    <3>1. PICK pos \in Nat : pos = i - 1 /\ pos < Len(b) /\ i = pos + 1
      BY <1>4
    <3>2. PICK q \in Nat, r \in 0 .. CLUSTER_BYTES - 1 :
             q = pos \div CLUSTER_BYTES /\ r = pos % CLUSTER_BYTES /\ pos = CLUSTER_BYTES * q + r
      <4>1. CLUSTER_BYTES \in Nat \ {0}
        BY Sizes
      <4> QED BY <4>1, Division
    <3>3. q < k
      BY <1>1, <1>4, <3>1, <3>2, ClustersForFacts
    <3>4. w[q] = s[q + 1] /\ q + 1 \in 1 .. k
      BY <1>8, <3>3
    <3>5. 1 + r \in Block
      BY <3>2, Sizes DEF Block
    <3>6. PICK a, j : a = q + 1 /\ j = 1 + r
      OBVIOUS
    <3>7. (a - 1) * CLUSTER_BYTES + j = i
      <4>1. a - 1 = q
        BY <3>6
      <4>2. q * CLUSTER_BYTES = CLUSTER_BYTES * q
        BY Sizes
      <4>3. PICK z \in Nat : z = CLUSTER_BYTES * q
        BY Sizes
      <4>4. pos = z + r
        BY <3>2, <4>3
      <4>6. r \in Nat
        BY <3>2, Sizes
      <4>5. z + j = i
        BY <3>1, <3>6, <4>4, <4>6
      <4> QED BY <4>1, <4>2, <4>3, <4>5
    <3>8. data'[s[a]][j] = b[i]
      <4>1. i <= Len(b)
        BY <1>4
      <4>2. a \in 1 .. k /\ j \in Block
        BY <3>4, <3>5, <3>6
      <4> QED BY <1>6, <3>7, <4>1, <4>2
    <3> HIDE DEF w
    <3> QED BY <3>1, <3>2, <3>4, <3>6, <3>8
  <2>2. Text(fat', data', e) = [i \in 1 .. Len(b) |->
            data'[w[(i - 1) \div CLUSTER_BYTES]][1 + ((i - 1) % CLUSTER_BYTES)]]
    BY <1>7 DEF Text
  <2>3. b = [i \in 1 .. Len(b) |-> b[i]]
    OBVIOUS
  <2> HIDE DEF w
  <2> QED BY <2>1, <2>2, <2>3
<1> QED BY <1>1, <1>10, <1>11, <1>12

\* A step that replaces the files R, or loses them, and keeps the others.
Replaced(R) ==
    /\ DiskOK(fat', data', dir')
    /\ \A m \in Names \ R :
          /\ dir'[m] = dir[m]
          /\ dir[m] # NoEntry => /\ Walk(fat', dir[m].first, 0) = Walk(fat, dir[m].first, 0)
                                 /\ Text(fat', data', dir[m]) = Text(fat, data, dir[m])

\* The files other than n are not written to, and n has clusters that were
\* free once it was released.
Untouched(n) ==
    \A m \in Names \ {n} :
        /\ dir'[m] = dir[m]
        /\ dir[m] # NoEntry => Same(Reached(fat, dir[m]), fat, fat', data, data')

Fresh(n) ==
    dir'[n] # NoEntry => /\ Linked(fat', dir'[n])
                         /\ \A c \in Reached(fat', dir'[n]) : Released(n)[c] = 0

LEMMA ReleasedFacts ==
    ASSUME DiskOK(fat, data, dir), NEW n \in Names
    PROVE  /\ Released(n) \in [Cluster -> Place]
           /\ \A m \in Names \ {n} : dir[m] # NoEntry =>
                \A c \in Reached(fat, dir[m]) : Released(n)[c] = fat[c] /\ fat[c] # 0
<1>1. Released(n) \in [Cluster -> Place]
  BY DEF Released, DiskOK, Place
<1>2. ASSUME NEW m \in Names \ {n}, dir[m] # NoEntry, NEW c \in Reached(fat, dir[m])
      PROVE  Released(n)[c] = fat[c] /\ fat[c] # 0
  <2>0. fat \in [Cluster -> Place] /\ Linked(fat, dir[m])
    BY <1>2 DEF DiskOK, Chains
  <2>1. PICK i \in Nat : c = Walk(fat, dir[m].first, 0)[i] /\ c \in Cluster
    BY <1>2 DEF Reached
  <2>2. fat[c] # 0
    BY <2>0, <2>1 DEF Linked
  <2>3. dir[n] # NoEntry => c \notin ChainOf(dir[n])
    <3>1. HAVE dir[n] # NoEntry
    <3>2. Linked(fat, dir[n])
      BY <3>1 DEF DiskOK, Chains
    <3>3. ChainOf(dir[n]) = Reached(fat, dir[n])
      BY <2>0, <3>2, ChainIsReached
    <3>4. Reached(fat, dir[m]) \cap Reached(fat, dir[n]) = {}
      BY <1>2, <3>1 DEF DiskOK, Chains
    <3> QED BY <1>2, <3>3, <3>4
  <2> QED BY <2>1, <2>2, <2>3 DEF Released
<1> QED BY <1>1, <1>2

LEMMA FileReplaced ==
    ASSUME DiskOK(fat, data, dir), NEW n \in Names, Untouched(n), Fresh(n),
           fat' \in [Cluster -> Place], data' \in [Cluster -> [Block -> Content]],
           dir' \in [Names -> [first : Cluster \cup {0, NULL}, size : Nat]]
    PROVE  Replaced({n})
<1>1. ASSUME NEW m \in Names \ {n}, dir[m] # NoEntry
      PROVE  /\ dir'[m] = dir[m] /\ Linked(fat', dir[m])
             /\ Walk(fat', dir[m].first, 0) = Walk(fat, dir[m].first, 0)
             /\ Reached(fat', dir[m]) = Reached(fat, dir[m])
             /\ Text(fat', data', dir[m]) = Text(fat, data, dir[m])
  <2>1. PICK t, u, x, y, e : t = fat /\ u = fat' /\ x = data /\ y = data' /\ e = dir[m]
    OBVIOUS
  <2>2. t \in [Cluster -> Place] /\ u \in [Cluster -> Place] /\ Linked(t, e)
    BY <1>1, <2>1 DEF DiskOK, Chains
  <2>3. Same(Reached(t, e), t, u, x, y)
    BY <1>1, <2>1 DEF Untouched
  <2>4. SameFile(e, t, u, x, y)
    BY <2>2, <2>3, FileStays
  <2>5. dir'[m] = dir[m]
    BY <1>1 DEF Untouched
  <2> QED BY <2>1, <2>4, <2>5 DEF SameFile
<1>2. \A m \in Names \ {n} : dir'[m] = dir[m]
  BY DEF Untouched
<1>3. \A m \in Names : dir'[m] # NoEntry => Linked(fat', dir'[m])
  BY <1>1, <1>2 DEF Fresh
<1>4. ASSUME NEW m \in Names \ {n}, dir'[m] # NoEntry, dir'[n] # NoEntry
      PROVE  Reached(fat', dir'[m]) \cap Reached(fat', dir'[n]) = {}
  <2>1. dir[m] # NoEntry /\ dir'[m] = dir[m]
    BY <1>2, <1>4
  <2>2. Reached(fat', dir'[m]) = Reached(fat, dir[m])
    BY <1>1, <2>1
  <2>3. \A c \in Reached(fat, dir[m]) : Released(n)[c] # 0
    BY <2>1, ReleasedFacts
  <2>4. \A c \in Reached(fat', dir'[n]) : Released(n)[c] = 0
    BY <1>4 DEF Fresh
  <2> QED BY <2>2, <2>3, <2>4
<1>5. ASSUME NEW l \in Names \ {n}, NEW m \in Names \ {n}, l # m,
             dir'[l] # NoEntry, dir'[m] # NoEntry
      PROVE  Reached(fat', dir'[l]) \cap Reached(fat', dir'[m]) = {}
  <2>1. dir[l] # NoEntry /\ dir'[l] = dir[l] /\ dir[m] # NoEntry /\ dir'[m] = dir[m]
    BY <1>2, <1>5
  <2>2. /\ Reached(fat', dir'[l]) = Reached(fat, dir[l])
        /\ Reached(fat', dir'[m]) = Reached(fat, dir[m])
    BY <1>1, <2>1
  <2>3. Reached(fat, dir[l]) \cap Reached(fat, dir[m]) = {}
    BY <1>5, <2>1 DEF DiskOK, Chains
  <2> QED BY <2>2, <2>3
<1>6. Chains(fat', dir')
  <2>1. ASSUME NEW l \in Names, NEW m \in Names, l # m, dir'[l] # NoEntry, dir'[m] # NoEntry
        PROVE  Reached(fat', dir'[l]) \cap Reached(fat', dir'[m]) = {}
    <3>1. CASE l = n
      BY <1>4, <2>1, <3>1
    <3>2. CASE m = n
      BY <1>4, <2>1, <3>2
    <3>3. CASE l # n /\ m # n
      BY <1>5, <2>1, <3>3
    <3> QED BY <3>1, <3>2, <3>3
  <2> QED BY <1>3, <2>1 DEF Chains
<1> QED BY <1>1, <1>2, <1>6 DEF Replaced, DiskOK

\* The clusters laid are none of another file.
LEMMA LaidUntouched ==
    ASSUME DiskOK(fat, data, dir), NEW n \in Names, NEW k \in Nat, NEW s, Taken(s, k, Released(n)),
           NEW b \in Seq(Bytes), Laid(s, b, Released(n)), \A m \in Names \ {n} : dir'[m] = dir[m]
    PROVE  /\ Untouched(n)
           /\ fat' \in [Cluster -> Place] /\ data' \in [Cluster -> [Block -> Content]]
<1>1. data \in [Cluster -> [Block -> Content]] /\ Released(n) \in [Cluster -> Place]
  BY ReleasedFacts DEF DiskOK
<1>2. /\ fat' \in [Cluster -> Place] /\ data' \in [Cluster -> [Block -> Content]]
      /\ \A c \in Cluster : Released(n)[c] # 0 => fat'[c] = Released(n)[c] /\ data'[c] = data[c]
  <2>1. PICK t : t = Released(n)
    OBVIOUS
  <2>2. t \in [Cluster -> Place] /\ Taken(s, k, t) /\ Laid(s, b, t)
    BY <1>1, <2>1
  <2>3. /\ fat' \in [Cluster -> Place] /\ data' \in [Cluster -> [Block -> Content]]
        /\ \A c \in Cluster : t[c] # 0 => fat'[c] = t[c] /\ data'[c] = data[c]
    BY <1>1, <2>2, LaidFacts
  <2> QED BY <2>1, <2>3
<1>3. ASSUME NEW m \in Names \ {n}, dir[m] # NoEntry
      PROVE  Same(Reached(fat, dir[m]), fat, fat', data, data')
  <2>1. ASSUME NEW c \in Reached(fat, dir[m]) PROVE fat'[c] = fat[c] /\ data'[c] = data[c]
    <3>1. Released(n)[c] = fat[c] /\ fat[c] # 0
      BY <1>3, <2>1, ReleasedFacts
    <3>2. c \in Cluster
      BY <2>1 DEF Reached
    <3> QED BY <1>2, <3>1, <3>2
  <2> QED BY <2>1 DEF Same
<1> QED BY <1>2, <1>3 DEF Untouched

\* A write that succeeds replaces the file it is called for, by the bytes it is
\* called with.
LEMMA WroteReplaces ==
    ASSUME DiskOK(fat, data, dir), NEW n \in Names, NEW b \in Seq(Bytes), Wrote(n, b)
    PROVE  /\ Replaced({n}) /\ faults' = faults /\ cwd' = cwd
           /\ dir'[n] # NoEntry /\ Text(fat', data', dir'[n]) = b
<1> DEFINE need == ClustersFor(Len(b))
           table == Released(n)
<1>1. Len(b) \in Nat /\ need \in Nat
  BY ClustersForFacts
<1>2. table \in [Cluster -> Place] /\ data \in [Cluster -> [Block -> Content]]
  BY ReleasedFacts DEF DiskOK
<1>3. dir \in [Names -> [first : Cluster \cup {0, NULL}, size : Nat]]
  BY DEF DiskOK
<1> HIDE DEF need, table
<1>4. PICK s \in [1 .. need -> Cluster] :
         /\ Taken(s, need, table) /\ Laid(s, b, table)
         /\ dir' = [dir EXCEPT ![n] = [first |-> IF need = 0 THEN 0 ELSE s[1], size |-> Len(b)]]
  BY DEF Wrote, need, table
<1>5. PICK e : e = [first |-> IF need = 0 THEN 0 ELSE s[1], size |-> Len(b)]
  OBVIOUS
<1>6. need # 0 => s[1] \in Cluster
  BY <1>1
<1>7. e \in [first : Cluster \cup {0, NULL}, size : Nat]
  BY <1>1, <1>5, <1>6
<1>8. e # NoEntry
  <2>1. e.first \in Nat
    BY <1>5, <1>6, Sizes DEF Cluster
  <2>2. NoEntry.first = NULL /\ NULL \notin Nat
    BY FilesAssumption DEF NoEntry
  <2> QED BY <2>1, <2>2
<1>9. dir' = [dir EXCEPT ![n] = e]
  BY <1>4, <1>5
<1>10. /\ dir' \in [Names -> [first : Cluster \cup {0, NULL}, size : Nat]]
       /\ dir'[n] = e /\ \A m \in Names \ {n} : dir'[m] = dir[m]
  BY <1>3, <1>7, <1>9
<1>11. Linked(fat', e) /\ Text(fat', data', e) = b /\ \A c \in Reached(fat', e) : table[c] = 0
  <2>1. Taken(s, ClustersFor(Len(b)), table) /\ e = NewEntry(s, b)
    BY <1>4, <1>5 DEF need, NewEntry
  <2> QED BY <1>2, <1>4, <2>1, NewFile
<1>12. Fresh(n)
  BY <1>10, <1>11 DEF Fresh, table
<1>13. /\ Untouched(n)
       /\ fat' \in [Cluster -> Place] /\ data' \in [Cluster -> [Block -> Content]]
  BY <1>1, <1>4, <1>10, LaidUntouched DEF table
<1>14. Replaced({n})
  BY <1>10, <1>12, <1>13, FileReplaced
<1>15. faults' = faults /\ cwd' = cwd
  BY DEF Wrote
<1> QED BY <1>8, <1>10, <1>11, <1>14, <1>15

\* One that fails leaves the file as it is, or takes it away.
LEMMA FailsReplaces ==
    ASSUME DiskOK(fat, data, dir), faults \in 0 .. MAXFAULTS, NEW n \in Names,
           NEW b \in Seq(Bytes), NEW R, WriteFails(n, b, R)
    PROVE  /\ R \subseteq {n} /\ Replaced(R) /\ faults' \in 0 .. MAXFAULTS /\ cwd' = cwd
           /\ R # {} => dir'[n] = NoEntry
<1> DEFINE need == ClustersFor(Len(b))
           table == Released(n)
           room == NFree(table)
<1>0. MAXFAULTS \in Nat
  BY FilesAssumption
<1>1. Len(b) \in Nat /\ need \in Nat
  BY ClustersForFacts
<1>2. room \in Nat
  <2>1. IsFiniteSet(Cluster)
    <3>1. 2 \in Int /\ NCLUSTERS + 1 \in Int
      BY Sizes
    <3> QED BY <3>1, FS_Interval DEF Cluster
  <2>2. IsFiniteSet({c \in Cluster : table[c] = 0})
    <3>1. {c \in Cluster : table[c] = 0} \subseteq Cluster
      OBVIOUS
    <3> HIDE DEF table
    <3> QED BY <2>1, <3>1, FS_Subset
  <2> HIDE DEF table
  <2> QED BY <2>2, FS_CardinalityType DEF NFree
<1>3. table \in [Cluster -> Place] /\ data \in [Cluster -> [Block -> Content]]
  BY ReleasedFacts DEF DiskOK
<1>4. dir \in [Names -> [first : Cluster \cup {0, NULL}, size : Nat]]
  BY DEF DiskOK
<1> HIDE DEF need, table, room
<1>5. cwd' = cwd
  BY DEF WriteFails
<1>6. CASE /\ R = {n} /\ dir' = [dir EXCEPT ![n] = NoEntry]
           /\ \/ need > room /\ UNCHANGED faults
              \/ need <= room /\ Fault
           /\ \E k \in IF need > room THEN {room} ELSE {0, need} :
              \E s \in [1 .. k -> Cluster] : Taken(s, k, table) /\ Laid(s, b, table)
  <2>1. PICK k \in IF need > room THEN {room} ELSE {0, need} :
              \E s \in [1 .. k -> Cluster] : Taken(s, k, table) /\ Laid(s, b, table)
    BY <1>6
  <2>2. k \in Nat
    BY <1>1, <1>2
  <2>3. PICK s : Taken(s, k, table) /\ Laid(s, b, table)
    BY <2>1
  <2>4. NoEntry \in [first : Cluster \cup {0, NULL}, size : Nat]
    BY DEF NoEntry
  <2>5. /\ dir' \in [Names -> [first : Cluster \cup {0, NULL}, size : Nat]]
        /\ dir'[n] = NoEntry /\ \A m \in Names \ {n} : dir'[m] = dir[m]
    BY <1>4, <1>6, <2>4
  <2>6. Fresh(n)
    BY <2>5 DEF Fresh
  <2>7. /\ Untouched(n)
        /\ fat' \in [Cluster -> Place] /\ data' \in [Cluster -> [Block -> Content]]
    BY <2>2, <2>3, <2>5, LaidUntouched DEF table
  <2>8. Replaced({n})
    BY <2>5, <2>6, <2>7, FileReplaced
  <2>9. faults' \in 0 .. MAXFAULTS
    BY <1>0, <1>6 DEF Fault
  <2> QED BY <1>6, <1>5, <2>5, <2>8, <2>9
<1>7. CASE R = {} /\ Fault /\ UNCHANGED <<fat, data, dir>>
  <2>1. faults' \in 0 .. MAXFAULTS
    BY <1>0, <1>7 DEF Fault
  <2>2. fat' = fat /\ data' = data /\ dir' = dir
    BY <1>7
  <2>3. Replaced({})
    BY <2>2 DEF Replaced
  <2> QED BY <1>7, <1>5, <2>1, <2>3
<1> QED BY <1>6, <1>7, <1>5 DEF WriteFails, need, table, room

\* So does deleting a file.
LEMMA RemoveReplaces ==
    ASSUME DiskOK(fat, data, dir), NEW n \in Names, fat' = Released(n), data' = data,
           dir' = [dir EXCEPT ![n] = NoEntry]
    PROVE  Replaced({n})
<1>1. data \in [Cluster -> [Block -> Content]]
      /\ dir \in [Names -> [first : Cluster \cup {0, NULL}, size : Nat]]
  BY DEF DiskOK
<1>2. NoEntry \in [first : Cluster \cup {0, NULL}, size : Nat]
  BY DEF NoEntry
<1>3. /\ dir' \in [Names -> [first : Cluster \cup {0, NULL}, size : Nat]]
      /\ dir'[n] = NoEntry /\ \A m \in Names \ {n} : dir'[m] = dir[m]
  BY <1>1, <1>2
<1>4. fat' \in [Cluster -> Place]
  BY ReleasedFacts
<1>5. Fresh(n)
  BY <1>3 DEF Fresh
<1>6. ASSUME NEW m \in Names \ {n}, dir[m] # NoEntry
      PROVE  Same(Reached(fat, dir[m]), fat, fat', data, data')
  BY <1>6, ReleasedFacts DEF Same
<1>7. Untouched(n)
  BY <1>3, <1>6 DEF Untouched
<1> QED BY <1>1, <1>3, <1>4, <1>5, <1>7, FileReplaced
-----------------------------------------------------------------------------
(* Counting descriptors *)

SlotSet(F, p, f, d) == [F EXCEPT ![p][f] = d]
RowSet(F, p, r)     == [F EXCEPT ![p] = r]

LEMMA SlotFacts ==
    ASSUME NEW X, NEW F \in Grid(X), NEW p \in Procs, NEW f \in Fds, NEW d
    PROVE  /\ SlotSet(F, p, f, d)[p][f] = d
           /\ \A q \in Procs, g \in Fds : q # p \/ g # f => SlotSet(F, p, f, d)[q][g] = F[q][g]
           /\ d \in X => SlotSet(F, p, f, d) \in Grid(X)
BY DEF SlotSet, Grid

LEMMA RowFacts ==
    ASSUME NEW X, NEW F \in Grid(X), NEW p \in Procs, NEW r
    PROVE  /\ RowSet(F, p, r)[p] = r
           /\ \A q \in Procs : q # p => RowSet(F, p, r)[q] = F[q]
           /\ r \in [Fds -> X] => RowSet(F, p, r) \in Grid(X)
BY DEF RowSet, Grid

LEMMA UsersFinite ==
    ASSUME NEW S \in SUBSET (Procs \X Fds)
    PROVE  /\ IsFiniteSet(S) /\ Cardinality(S) \in Nat
           /\ Cardinality(S) = 0 <=> S = {}
<1>1. IsFiniteSet(Fds) /\ IsFiniteSet(Procs)
  BY FS_Interval, FilesAssumption DEF Fds
<1>2. IsFiniteSet(Procs \X Fds)
  BY <1>1, FS_Product
<1>3. IsFiniteSet(S)
  BY <1>2, FS_Subset
<1> QED BY <1>3, FS_CardinalityType, FS_EmptySet

LEMMA UsersMember ==
    ASSUME NEW F, NEW w
    PROVE  /\ Users(F, w) \in SUBSET (Procs \X Fds)
           /\ \A p \in Procs, f \in Fds : <<p, f>> \in Users(F, w) <=> Uses(F[p][f], w)
           /\ Tally(F, w) \in Nat
           /\ \A p \in Procs, f \in Fds : Uses(F[p][f], w) => Tally(F, w) # 0
<1>1. Users(F, w) \in SUBSET (Procs \X Fds)
  BY DEF Users
<1>2. \A p \in Procs, f \in Fds : <<p, f>> \in Users(F, w) <=> Uses(F[p][f], w)
  BY DEF Users
<1>3. Tally(F, w) \in Nat /\ (Tally(F, w) = 0 <=> Users(F, w) = {})
  BY <1>1, UsersFinite DEF Tally
<1> QED BY <1>1, <1>2, <1>3

LEMMA SameUsers ==
    ASSUME NEW S \in SUBSET (Procs \X Fds), NEW T \in SUBSET (Procs \X Fds),
           \A p \in Procs, f \in Fds : <<p, f>> \in S <=> <<p, f>> \in T
    PROVE  S = T
OBVIOUS

\* The count changes with what is in a slot.
LEMMA TallySlot ==
    ASSUME NEW X, NEW F \in Grid(X), NEW p \in Procs, NEW f \in Fds, NEW d, NEW w
    PROVE  Tally(SlotSet(F, p, f, d), w) =
             Tally(F, w) - (IF Uses(F[p][f], w) THEN 1 ELSE 0) + (IF Uses(d, w) THEN 1 ELSE 0)
<1> DEFINE G == SlotSet(F, p, f, d)
           h == <<p, f>>
           B == Users(F, w) \ {h}
<1>1. G[p][f] = d /\ \A q \in Procs, g \in Fds : q # p \/ g # f => G[q][g] = F[q][g]
  BY SlotFacts
<1> HIDE DEF G
<1>2. /\ Users(F, w) \in SUBSET (Procs \X Fds) /\ Users(G, w) \in SUBSET (Procs \X Fds)
      /\ \A q \in Procs, g \in Fds : <<q, g>> \in Users(F, w) <=> Uses(F[q][g], w)
      /\ \A q \in Procs, g \in Fds : <<q, g>> \in Users(G, w) <=> Uses(G[q][g], w)
  BY UsersMember
<1>3. h \in Procs \X Fds /\ \A q \in Procs, g \in Fds : <<q, g>> = h <=> q = p /\ g = f
  OBVIOUS
<1>4. h \in Users(F, w) <=> Uses(F[p][f], w)
  BY <1>2
<1> HIDE DEF h
<1>5. IsFiniteSet(Users(F, w)) /\ Cardinality(Users(F, w)) \in Nat
  BY <1>2, UsersFinite
<1>6. /\ IsFiniteSet(B)
      /\ Cardinality(B) = IF h \in Users(F, w) THEN Cardinality(Users(F, w)) - 1
                          ELSE Cardinality(Users(F, w))
  BY <1>5, FS_RemoveElement
<1>7. h \notin B /\ B \in SUBSET (Procs \X Fds)
  BY <1>2
<1>8. \A q \in Procs, g \in Fds : <<q, g>> \in B <=> Uses(F[q][g], w) /\ (q # p \/ g # f)
  BY <1>2, <1>3
<1> HIDE DEF B
<1>9. CASE Uses(d, w)
  <2>1. \A q \in Procs, g \in Fds : <<q, g>> \in Users(G, w) <=> <<q, g>> \in B \cup {h}
    <3> TAKE q \in Procs, g \in Fds
    <3>1. CASE q = p /\ g = f
      BY <1>1, <1>2, <1>3, <1>9, <3>1
    <3>2. CASE ~(q = p /\ g = f)
      BY <1>1, <1>2, <1>3, <1>8, <3>2
    <3> QED BY <3>1, <3>2
  <2>2. B \cup {h} \in SUBSET (Procs \X Fds)
    BY <1>3, <1>7
  <2>3. Users(G, w) = B \cup {h}
    BY <1>2, <2>1, <2>2, SameUsers
  <2>4. Cardinality(B \cup {h}) = Cardinality(B) + 1
    BY <1>6, <1>7, FS_AddElement
  <2> QED BY <1>4, <1>5, <1>6, <1>9, <2>3, <2>4 DEF Tally, G
<1>10. CASE ~Uses(d, w)
  <2>1. \A q \in Procs, g \in Fds : <<q, g>> \in Users(G, w) <=> <<q, g>> \in B
    <3> TAKE q \in Procs, g \in Fds
    <3>1. CASE q = p /\ g = f
      BY <1>1, <1>2, <1>8, <1>10, <3>1
    <3>2. CASE ~(q = p /\ g = f)
      BY <1>1, <1>2, <1>8, <3>2
    <3> QED BY <3>1, <3>2
  <2>2. Users(G, w) = B
    BY <1>2, <1>7, <2>1, SameUsers
  <2> QED BY <1>4, <1>5, <1>6, <1>10, <2>2 DEF Tally, G
<1> QED BY <1>9, <1>10

\* And with what a process is given, that had none.
RowUses(r, w) == {f \in Fds : Uses(r[f], w)}

LEMMA TallyRow ==
    ASSUME NEW X, NEW F \in Grid(X), NEW p \in Procs, NEW r, NEW w, RowUses(F[p], w) = {}
    PROVE  Tally(RowSet(F, p, r), w) = Tally(F, w) + Cardinality(RowUses(r, w))
<1> DEFINE G == RowSet(F, p, r)
           E == RowUses(r, w)
           C == {p} \X E
<1>1. G[p] = r /\ \A q \in Procs : q # p => G[q] = F[q]
  BY RowFacts
<1> HIDE DEF G
<1>2. /\ Users(F, w) \in SUBSET (Procs \X Fds) /\ Users(G, w) \in SUBSET (Procs \X Fds)
      /\ \A q \in Procs, g \in Fds : <<q, g>> \in Users(F, w) <=> Uses(F[q][g], w)
      /\ \A q \in Procs, g \in Fds : <<q, g>> \in Users(G, w) <=> Uses(G[q][g], w)
  BY UsersMember
<1>3. E \in SUBSET Fds /\ \A g \in Fds : g \in E <=> Uses(r[g], w)
  BY DEF RowUses
<1> HIDE DEF E
<1>4. C \in SUBSET (Procs \X Fds) /\ \A q \in Procs, g \in Fds : <<q, g>> \in C <=> q = p /\ g \in E
  BY <1>3
<1>5. IsFiniteSet(Users(F, w)) /\ Cardinality(Users(F, w)) \in Nat /\ IsFiniteSet(C)
  BY <1>2, <1>4, UsersFinite
<1>6. Cardinality(C) = Cardinality(E) /\ Cardinality(E) \in Nat
  <2>1. IsFiniteSet(E) /\ Cardinality(E) \in Nat
    <3>1. IsFiniteSet(Fds)
      BY FS_Interval, FilesAssumption DEF Fds
    <3> QED BY <1>3, <3>1, FS_Subset, FS_CardinalityType
  <2>2. IsFiniteSet({p}) /\ Cardinality({p}) = 1
    BY FS_Singleton
  <2>3. Cardinality({p} \X E) = Cardinality({p}) * Cardinality(E)
    BY <2>1, <2>2, FS_Product
  <2> QED BY <2>1, <2>2, <2>3
<1> HIDE DEF C
<1>7. \A g \in Fds : ~Uses(F[p][g], w)
  BY DEF RowUses
<1>8. \A q \in Procs, g \in Fds : <<q, g>> \in Users(G, w) <=> <<q, g>> \in Users(F, w) \cup C
  <2> TAKE q \in Procs, g \in Fds
  <2>1. CASE q = p
    BY <1>1, <1>2, <1>3, <1>4, <1>7, <2>1
  <2>2. CASE q # p
    BY <1>1, <1>2, <1>4, <2>2
  <2> QED BY <2>1, <2>2
<1>9. Users(G, w) = Users(F, w) \cup C
  <2>1. Users(F, w) \cup C \in SUBSET (Procs \X Fds)
    BY <1>2, <1>4
  <2> QED BY <1>2, <1>8, <2>1, SameUsers
<1>10. Users(F, w) \cap C = {}
  <2>1. \A q \in Procs, g \in Fds : ~(<<q, g>> \in Users(F, w) /\ <<q, g>> \in C)
    BY <1>2, <1>4, <1>7
  <2> QED BY <1>2, <2>1
<1>11. Cardinality(Users(F, w) \cup C) =
         Cardinality(Users(F, w)) + Cardinality(C) - Cardinality(Users(F, w) \cap C)
  BY <1>5, FS_Union
<1>12. Cardinality(Users(F, w) \cap C) = 0
  BY <1>10, FS_EmptySet
<1> QED BY <1>5, <1>6, <1>9, <1>11, <1>12 DEF Tally, G, E

\* What wbuf_unref does to the buffer a slot refers to; the slot is closed.
LEMMA UnrefCounts ==
    ASSUME NEW F \in Grid(Descriptor), NEW W \in [Wbufs -> Buffer], Counts(F, W),
           NEW p \in Procs, NEW f \in Fds
    PROVE  /\ Counts(SlotSet(F, p, f, Closed), UnrefOf(W, F[p][f]))
           /\ UnrefOf(W, F[p][f]) \in [Wbufs -> Buffer]
<1> DEFINE d == F[p][f]
           G == SlotSet(F, p, f, Closed)
           V == UnrefOf(W, d)
<1>1. NoWbuf \in Buffer /\ NoWbuf.refcount = 0
  <2>1. << >> \in Seq(Bytes) /\ Len(<< >>) <= WBUF_CAP
    BY FilesAssumption
  <2> QED BY <2>1 DEF NoWbuf, Buffer
<1>2. Closed.kind = "NONE"
  BY DEF Closed
<1>3. ASSUME NEW w \in Wbufs
      PROVE  /\ Tally(G, w) = Tally(F, w) - (IF Uses(d, w) THEN 1 ELSE 0)
             /\ Tally(F, w) \in Nat /\ (Uses(d, w) => Tally(F, w) # 0)
  <2>1. ~Uses(Closed, w)
    BY <1>2 DEF Uses
  <2>2. Tally(G, w) = Tally(F, w) - (IF Uses(d, w) THEN 1 ELSE 0) + 0
    BY <2>1, TallySlot
  <2>3. Tally(F, w) \in Nat /\ (Uses(d, w) => Tally(F, w) # 0)
    BY UsersMember
  <2> QED BY <2>2, <2>3
<1>4. \A q \in Procs, g \in Fds : G[q][g].kind = "WRITE" => G[q][g].wbuf \in Wbufs
  <2>1. /\ G[p][f] = Closed
        /\ \A q \in Procs, g \in Fds : q # p \/ g # f => G[q][g] = F[q][g]
    BY SlotFacts
  <2> HIDE DEF G
  <2> QED BY <1>2, <2>1 DEF Counts
<1>5. d.kind = "WRITE" => d.wbuf \in Wbufs
  BY DEF Counts
<1>6. \A w \in Wbufs : Exact(W[w], Tally(F, w)) /\ W[w] \in Buffer
  BY DEF Counts
<1> HIDE DEF G
<1>7. CASE d.kind # "WRITE"
  <2>1. V = W /\ \A w \in Wbufs : ~Uses(d, w)
    BY <1>7 DEF UnrefOf, Uses
  <2>2. ASSUME NEW w \in Wbufs PROVE Exact(V[w], Tally(G, w))
    <3>1. Tally(G, w) = Tally(F, w)
      BY <1>3, <2>1
    <3> HIDE DEF d, V
    <3> QED BY <1>6, <2>1, <3>1
  <2> QED BY <1>4, <2>1, <2>2 DEF Counts, G
<1>8. CASE d.kind = "WRITE"
  <2>1. PICK u \in Wbufs : u = d.wbuf
    BY <1>5, <1>8
  <2>2. /\ V[u] = IF W[u].refcount > 1 THEN [W[u] EXCEPT !.refcount = W[u].refcount - 1]
                  ELSE NoWbuf
        /\ \A w \in Wbufs : w # u => V[w] = W[w]
        /\ V = [w \in Wbufs |-> V[w]]
    <3>1. V = Unref(W, u)
      BY <1>8, <2>1 DEF UnrefOf
    <3> HIDE DEF V, d
    <3>2. PICK y : y = IF W[u].refcount > 1 THEN [W[u] EXCEPT !.refcount = W[u].refcount - 1]
                       ELSE NoWbuf
      OBVIOUS
    <3>3. V = [W EXCEPT ![u] = y]
      BY <3>1, <3>2 DEF Unref
    <3> QED BY <3>2, <3>3
  <2>3. \A w \in Wbufs : Uses(d, w) <=> w = u
    BY <1>8, <2>1 DEF Uses
  <2> HIDE DEF d, V
  <2>4. /\ Tally(G, u) = Tally(F, u) - 1 /\ Tally(F, u) \in Nat \ {0}
        /\ W[u].refcount = Tally(F, u) /\ W[u].path \in Paths
    BY <1>3, <1>6, <2>3 DEF Exact
  <2>5. V[u] \in Buffer /\ Exact(V[u], Tally(G, u))
    <3>1. V[u] = IF W[u].refcount > 1 THEN [W[u] EXCEPT !.refcount = W[u].refcount - 1] ELSE NoWbuf
      BY <2>2
    <3>2. CASE W[u].refcount > 1
      <4>1. PICK x, n : x = W[u] /\ n = Tally(F, u)
        OBVIOUS
      <4>2. x \in Buffer /\ n \in Nat /\ n > 1 /\ x.refcount = n /\ x.path \in Paths
        BY <1>6, <2>4, <3>2, <4>1
      <4>3. V[u] = [x EXCEPT !.refcount = n - 1] /\ Tally(G, u) = n - 1
        BY <2>4, <3>1, <3>2, <4>1
      <4>4. n - 1 \in Nat /\ n - 1 # 0
        BY <4>2
      <4>5. [x EXCEPT !.refcount = n - 1] \in Buffer
        BY <4>2, <4>4 DEF Buffer
      <4>6. /\ [x EXCEPT !.refcount = n - 1].refcount = n - 1
            /\ [x EXCEPT !.refcount = n - 1].path = x.path
        BY <4>2 DEF Buffer
      <4> QED BY <4>2, <4>3, <4>4, <4>5, <4>6 DEF Exact
    <3>3. CASE ~(W[u].refcount > 1)
      <4>1. V[u] = NoWbuf /\ Tally(G, u) = 0
        BY <2>4, <3>1, <3>3
      <4> QED BY <1>1, <4>1 DEF Exact
    <3> QED BY <3>2, <3>3
  <2>6. ASSUME NEW w \in Wbufs, w # u PROVE V[w] \in Buffer /\ Exact(V[w], Tally(G, w))
    <3>1. V[w] = W[w]
      BY <2>2, <2>6
    <3>2. Tally(G, w) = Tally(F, w)
      BY <1>3, <2>3, <2>6
    <3> QED BY <1>6, <3>1, <3>2
  <2>7. V \in [Wbufs -> Buffer]
    <3>1. \A w \in Wbufs : V[w] \in Buffer
      BY <2>5, <2>6
    <3> QED BY <2>2, <3>1
  <2>8. Counts(G, V)
    BY <1>4, <2>5, <2>6 DEF Counts
  <2> QED BY <2>7, <2>8 DEF G, V, d
<1> QED BY <1>7, <1>8

\* What wbuf_ref does when a free slot gets the contents of another.
LEMMA RefCounts ==
    ASSUME NEW F \in Grid(Descriptor), NEW W \in [Wbufs -> Buffer], Counts(F, W),
           NEW p \in Procs, NEW f \in Fds, NEW g \in Fds, F[p][g].kind # "WRITE"
    PROVE  /\ Counts(SlotSet(F, p, g, F[p][f]), RefOf(W, F[p][f]))
           /\ RefOf(W, F[p][f]) \in [Wbufs -> Buffer]
<1> DEFINE d == F[p][f]
           G == SlotSet(F, p, g, d)
           V == RefOf(W, d)
<1>1. ASSUME NEW w \in Wbufs
      PROVE  /\ Tally(G, w) = Tally(F, w) + (IF Uses(d, w) THEN 1 ELSE 0)
             /\ Tally(F, w) \in Nat /\ (Uses(d, w) => Tally(F, w) # 0)
  <2>1. ~Uses(F[p][g], w)
    BY DEF Uses
  <2>2. Tally(G, w) = Tally(F, w) - 0 + (IF Uses(d, w) THEN 1 ELSE 0)
    BY <2>1, TallySlot
  <2>3. Tally(F, w) \in Nat /\ (Uses(d, w) => Tally(F, w) # 0)
    BY UsersMember
  <2> QED BY <2>2, <2>3
<1>2. d.kind = "WRITE" => d.wbuf \in Wbufs
  BY DEF Counts
<1>3. \A q \in Procs, h \in Fds : G[q][h].kind = "WRITE" => G[q][h].wbuf \in Wbufs
  <2>1. /\ G[p][g] = d
        /\ \A q \in Procs, h \in Fds : q # p \/ h # g => G[q][h] = F[q][h]
    BY SlotFacts
  <2> HIDE DEF G, d
  <2> QED BY <1>2, <2>1 DEF Counts
<1>4. \A w \in Wbufs : Exact(W[w], Tally(F, w)) /\ W[w] \in Buffer
  BY DEF Counts
<1> HIDE DEF G
<1>5. CASE d.kind # "WRITE"
  <2>1. V = W /\ \A w \in Wbufs : ~Uses(d, w)
    BY <1>5 DEF RefOf, Uses
  <2>2. ASSUME NEW w \in Wbufs PROVE Exact(V[w], Tally(G, w))
    <3>1. Tally(G, w) = Tally(F, w)
      BY <1>1, <2>1
    <3> HIDE DEF d, V
    <3> QED BY <1>4, <2>1, <3>1
  <2> QED BY <1>3, <2>1, <2>2 DEF Counts, G
<1>6. CASE d.kind = "WRITE"
  <2>1. PICK u \in Wbufs : u = d.wbuf
    BY <1>2, <1>6
  <2>2. V = [W EXCEPT ![u] = [W[u] EXCEPT !.refcount = W[u].refcount + 1]]
    BY <1>6, <2>1 DEF RefOf, Ref
  <2>3. \A w \in Wbufs : Uses(d, w) <=> w = u
    BY <1>6, <2>1 DEF Uses
  <2> HIDE DEF d, V
  <2>4. /\ Tally(G, u) = Tally(F, u) + 1 /\ Tally(F, u) \in Nat \ {0}
        /\ W[u].refcount = Tally(F, u) /\ W[u].path \in Paths
    BY <1>1, <1>4, <2>3 DEF Exact
  <2>5. V[u] \in Buffer /\ Exact(V[u], Tally(G, u))
    <3>1. PICK x, n : x = W[u] /\ n = Tally(F, u)
      OBVIOUS
    <3>2. x \in Buffer /\ n \in Nat /\ x.refcount = n /\ x.path \in Paths
      BY <1>4, <2>4, <3>1
    <3>3. V[u] = [x EXCEPT !.refcount = n + 1] /\ Tally(G, u) = n + 1
      BY <2>2, <2>4, <3>1
    <3>4. n + 1 \in Nat /\ n + 1 # 0
      BY <3>2
    <3>5. [x EXCEPT !.refcount = n + 1] \in Buffer
      BY <3>2, <3>4 DEF Buffer
    <3>6. /\ [x EXCEPT !.refcount = n + 1].refcount = n + 1
          /\ [x EXCEPT !.refcount = n + 1].path = x.path
      BY <3>2 DEF Buffer
    <3> QED BY <3>2, <3>3, <3>4, <3>5, <3>6 DEF Exact
  <2>6. ASSUME NEW w \in Wbufs, w # u PROVE V[w] \in Buffer /\ Exact(V[w], Tally(G, w))
    <3>1. V[w] = W[w]
      BY <2>2, <2>6
    <3>2. Tally(G, w) = Tally(F, w)
      BY <1>1, <2>3, <2>6
    <3> QED BY <1>4, <3>1, <3>2
  <2>7. V \in [Wbufs -> Buffer]
    <3>1. \A w \in Wbufs : V[w] \in Buffer
      BY <2>5, <2>6
    <3> QED BY <2>2, <3>1
  <2>8. Counts(G, V)
    BY <1>3, <2>5, <2>6 DEF Counts
  <2> QED BY <2>7, <2>8 DEF G, V, d
<1> QED BY <1>5, <1>6

\* A slot that refers to no buffer, before or after, does not matter.
LEMMA SlotCounts ==
    ASSUME NEW F \in Grid(Descriptor), NEW W, Counts(F, W), NEW p \in Procs, NEW f \in Fds,
           F[p][f].kind # "WRITE", NEW d, d.kind # "WRITE"
    PROVE  Counts(SlotSet(F, p, f, d), W)
<1> DEFINE G == SlotSet(F, p, f, d)
<1>1. ASSUME NEW w \in Wbufs PROVE Tally(G, w) = Tally(F, w)
  <2>1. ~Uses(F[p][f], w) /\ ~Uses(d, w)
    BY DEF Uses
  <2>2. Tally(G, w) = Tally(F, w) - 0 + 0
    BY <2>1, TallySlot
  <2>3. Tally(F, w) \in Nat
    BY UsersMember
  <2> QED BY <2>2, <2>3
<1>2. /\ G[p][f] = d
      /\ \A q \in Procs, g \in Fds : q # p \/ g # f => G[q][g] = F[q][g]
  BY SlotFacts
<1> HIDE DEF G
<1> QED BY <1>1, <1>2 DEF Counts, G
-----------------------------------------------------------------------------
(* Every step preserves the invariant *)

LEMMA Constants ==
    /\ Closed \in Descriptor /\ Tty \in Descriptor /\ Unknown \in Handle /\ NoCall \in Call
    /\ Closed.kind # "WRITE" /\ Tty.kind # "WRITE" /\ Unknown.name = NULL /\ NoCall.op = "none"
    /\ NULL \notin Names /\ NULL \notin Wbufs /\ NULL \notin Procs
    /\ StdFds \in [Fds -> Descriptor] /\ \A f \in Fds : StdFds[f].kind # "WRITE"
<1>1. Closed \in Descriptor /\ Tty \in Descriptor
  BY Sizes DEF Closed, Tty, Descriptor
<1>2. Unknown \in Handle
  BY DEF Unknown, Handle
<1>3. NoCall \in Call
  BY FilesAssumption DEF NoCall, Call, Fds
<1>4. /\ Closed.kind # "WRITE" /\ Tty.kind # "WRITE" /\ Unknown.name = NULL /\ NoCall.op = "none"
      /\ NULL \notin Names /\ NULL \notin Wbufs /\ NULL \notin Procs
  BY FilesAssumption DEF Closed, Tty, Unknown, NoCall
<1>5. StdFds \in [Fds -> Descriptor] /\ \A f \in Fds : StdFds[f].kind # "WRITE"
  BY <1>1, <1>4 DEF StdFds
<1> QED BY <1>1, <1>2, <1>3, <1>4, <1>5

\* After a call other than a read there is nothing to say of reads.
LEMMA NothingReturned ==
    ASSUME Nothing \/ Unwritten
    PROVE  ShortOnlyAtEnd' /\ returned'.bytes = << >>
<1>1. returned'.due = 0 /\ returned'.bytes = << >>
  BY DEF Nothing, Unwritten, NoRead
<1> QED BY <1>1 DEF ShortOnlyAtEnd

LEMMA Resting ==
    ASSUME call' = NoCall, Nothing \/ Unwritten
    PROVE  call' \in Call /\ CallSound' /\ ShortOnlyAtEnd'
<1>1. call'.op = "none" /\ call' \in Call
  BY Constants
<1>2. CallSound'
  BY <1>1 DEF CallSound
<1>3. ShortOnlyAtEnd'
  BY NothingReturned
<1> QED BY <1>1, <1>2, <1>3

\* The descriptors of files that stay keep what they show; the others forget.
LEMMA OutdatedFacts ==
    ASSUME opened \in Grid(Handle), NEW R, R \subseteq Names, Replaced(R)
    PROVE  /\ Outdated(R) \in Grid(Handle)
           /\ \A p \in Procs, f \in Fds : opened[p][f] = Unknown => Outdated(R)[p][f] = Unknown
           /\ \A p \in Procs, f \in Fds : \A d : Keeps(fat, data, dir, d, opened[p][f])
                => Keeps(fat', data', dir', d, Outdated(R)[p][f])
<1>1. \A p \in Procs, f \in Fds :
         Outdated(R)[p][f] = IF opened[p][f].name \in R THEN Unknown ELSE opened[p][f]
  BY DEF Outdated
<1>2. Outdated(R) \in Grid(Handle)
  BY Constants DEF Outdated, Grid
<1>3. \A p \in Procs, f \in Fds : opened[p][f] = Unknown => Outdated(R)[p][f] = Unknown
  BY <1>1
<1>4. ASSUME NEW p \in Procs, NEW f \in Fds, NEW d, Keeps(fat, data, dir, d, opened[p][f])
      PROVE  Keeps(fat', data', dir', d, Outdated(R)[p][f])
  <2>1. CASE opened[p][f].name \in R
    <3>1. Outdated(R)[p][f] = Unknown
      BY <1>1, <2>1
    <3> QED BY <3>1, Constants DEF Keeps
  <2>2. CASE opened[p][f].name \notin R
    <3>1. PICK o : o = opened[p][f] /\ o = Outdated(R)[p][f]
      BY <1>1, <2>2
    <3>2. Keeps(fat, data, dir, d, o) /\ o.name \in Names \cup {NULL} /\ o.name \notin R
      <4>1. opened[p][f] \in Handle
        BY DEF Grid
      <4> QED BY <1>4, <2>2, <3>1, <4>1 DEF Handle
    <3>3. CASE o.name = NULL
      BY <3>1, <3>2, <3>3 DEF Keeps
    <3>4. CASE o.name # NULL
      <4>1. PICK n \in Names \ R : n = o.name
        BY <3>2, <3>4
      <4>2. PICK e : e = dir[n] /\ e = dir'[n]
        BY DEF Replaced
      <4>3. e # NoEntry
        BY <3>2, <3>4, <4>1, <4>2 DEF Keeps
      <4>4. /\ Walk(fat', e.first, 0) = Walk(fat, e.first, 0)
            /\ Text(fat', data', e) = Text(fat, data, e)
        BY <4>2, <4>3 DEF Replaced
      <4>5. Keeps(fat', data', dir', d, o)
        BY <3>2, <3>4, <4>1, <4>2, <4>4 DEF Keeps
      <4> QED BY <3>1, <4>5
    <3> QED BY <3>3, <3>4
  <2> QED BY <2>1, <2>2
<1> QED BY <1>2, <1>3, <1>4

\* A step that leaves the descriptors alone.
LEMMA ReplacedInv ==
    ASSUME IInv, NEW R, R \subseteq Names, Replaced(R), opened' = Outdated(R), Idle, Nothing,
           UNCHANGED <<alive, fds, wbuf, call>>,
           faults' \in 0 .. MAXFAULTS, ops' \in 0 .. MAXOPS
    PROVE  IInv'
<1>1. Types
  BY DEF IInv
<1>2. /\ opened' \in Grid(Handle)
      /\ \A p \in Procs, f \in Fds : opened[p][f] = Unknown => opened'[p][f] = Unknown
      /\ \A p \in Procs, f \in Fds : \A d : Keeps(fat, data, dir, d, opened[p][f])
           => Keeps(fat', data', dir', d, opened'[p][f])
  BY <1>1, OutdatedFacts DEF Types
<1>3. call' \in Call /\ CallSound' /\ ShortOnlyAtEnd'
  BY Resting DEF Idle
<1>4. DiskOK(fat', data', dir')
  BY DEF Replaced
<1>5. Types'
  BY <1>1, <1>2, <1>3 DEF Types
<1>6. Handles'
  BY <1>2 DEF IInv, Handles
<1>7. Counts(fds', wbuf') /\ DeadEmpty'
  BY <1>2 DEF IInv, DeadEmpty
<1> QED BY <1>3, <1>4, <1>5, <1>6, <1>7 DEF IInv

LEMMA CountedType ==
    ASSUME Types, Counted
    PROVE  ops' \in 0 .. MAXOPS
<1>1. MAXOPS \in Nat /\ ops \in 0 .. MAXOPS /\ ops < MAXOPS /\ ops' = ops + 1
  BY FilesAssumption DEF Types, Counted
<1> QED BY <1>1

LEMMA RmfileInv ==
    ASSUME IInv, NEW n \in Names, sys_rmfile(n)
    PROVE  IInv'
<1>1. Replaced({n})
  BY RemoveReplaces DEF IInv, sys_rmfile
<1>2. ops' \in 0 .. MAXOPS /\ faults' \in 0 .. MAXFAULTS
  BY CountedType DEF IInv, Types, sys_rmfile
<1>3. /\ opened' = Outdated({n}) /\ Idle /\ Nothing /\ UNCHANGED <<alive, fds, wbuf, call>>
      /\ {n} \subseteq Names
  BY DEF sys_rmfile
<1> QED BY <1>1, <1>2, <1>3, ReplacedInv

LEMMA WritefileInv ==
    ASSUME IInv, NEW n \in Names, NEW b \in WRITES, sys_writefile(n, b)
    PROVE  IInv'
<1>1. PICK R \in SUBSET {n} : /\ (R = {n} /\ Wrote(n, b)) \/ WriteFails(n, b, R)
                              /\ opened' = Outdated(R)
  BY DEF sys_writefile
<1>2. b \in Seq(Bytes) /\ R \subseteq Names
  BY FilesAssumption
<1>3. DiskOK(fat, data, dir) /\ faults \in 0 .. MAXFAULTS
  BY DEF IInv, Types
<1>4. Replaced(R) /\ faults' \in 0 .. MAXFAULTS
  BY <1>1, <1>2, <1>3, WroteReplaces, FailsReplaces
<1>5. ops' \in 0 .. MAXOPS
  BY CountedType DEF IInv, sys_writefile
<1>6. Idle /\ Nothing /\ UNCHANGED <<alive, fds, wbuf, call>>
  BY DEF sys_writefile
<1> QED BY <1>1, <1>2, <1>4, <1>5, <1>6, ReplacedInv

LEMMA ChdirInv ==
    ASSUME IInv, NEW d \in Cwds, sys_chdir(d)
    PROVE  IInv'
<1>1. fat' = fat /\ data' = data /\ dir' = dir /\ opened' = opened /\ faults' = faults
  BY DEF sys_chdir
<1>2. Replaced({}) /\ opened' = Outdated({})
  BY <1>1 DEF Replaced, Outdated, IInv, Types, Grid
<1>3. ops' \in 0 .. MAXOPS /\ faults' \in 0 .. MAXFAULTS
  BY <1>1, CountedType DEF IInv, Types, sys_chdir
<1>4. Idle /\ Nothing /\ UNCHANGED <<alive, fds, wbuf, call>> /\ {} \subseteq Names
  BY DEF sys_chdir
<1> QED BY <1>2, <1>3, <1>4, ReplacedInv
-----------------------------------------------------------------------------

\* A descriptor of a write buffer, and the buffer.
LEMMA BufferThere ==
    ASSUME IInv, NEW p \in Procs, NEW f \in Fds, fds[p][f].kind = "WRITE"
    PROVE  /\ fds[p][f].wbuf \in Wbufs /\ wbuf[fds[p][f].wbuf].path \in Paths
           /\ wbuf[fds[p][f].wbuf].buf \in Seq(Bytes)
           /\ wbuf[fds[p][f].wbuf].refcount = Tally(fds, fds[p][f].wbuf)
<1>1. PICK w \in Wbufs : w = fds[p][f].wbuf
  BY DEF IInv, Counts
<1>2. wbuf[w] \in Buffer /\ Exact(wbuf[w], Tally(fds, w))
  BY DEF IInv, Types, Counts
<1>3. Tally(fds, w) # 0
  <2>1. Uses(fds[p][f], w)
    BY <1>1 DEF Uses
  <2> QED BY <2>1, UsersMember
<1> QED BY <1>1, <1>2, <1>3 DEF Exact, Buffer

\* The last close writes the buffer's file, or loses the buffer.
LEMMA CommitsReplaces ==
    ASSUME IInv, NEW p \in Procs, NEW f \in Fds, NEW R \in SUBSET Names, Commits(fds[p][f], R)
    PROVE  Replaced(R) /\ faults' \in 0 .. MAXFAULTS /\ cwd' = cwd /\ (Nothing \/ Unwritten)
<1>1. DiskOK(fat, data, dir) /\ faults \in 0 .. MAXFAULTS
  BY DEF IInv, Types
<1>2. CASE LastOf(fds[p][f])
  <2>1. PICK x, n : x = wbuf[fds[p][f].wbuf] /\ n = FileAt[cwd][x.path]
    OBVIOUS
  <2>2. x.buf \in Seq(Bytes)
    BY <1>2, <2>1, BufferThere DEF LastOf
  <2>3. Commit(x, R)
    BY <1>2, <2>1 DEF Commits
  <2>4. CASE n \in Names /\ R = {n} /\ Wrote(n, x.buf) /\ Nothing
    BY <1>1, <2>2, <2>4, WroteReplaces
  <2>5. CASE n \in Names /\ WriteFails(n, x.buf, R) /\ Unwritten
    BY <1>1, <2>2, <2>5, FailsReplaces
  <2>6. CASE n = NULL /\ R = {} /\ UNCHANGED <<store, faults>> /\ Unwritten
    <3>1. R = {} /\ fat' = fat /\ data' = data /\ dir' = dir /\ faults' = faults /\ cwd' = cwd
      BY <2>6 DEF store
    <3> QED BY <1>1, <2>6, <3>1 DEF Replaced
  <2> QED BY <2>1, <2>3, <2>4, <2>5, <2>6 DEF Commit
<1>3. CASE ~LastOf(fds[p][f])
  <2>1. /\ R = {} /\ fat' = fat /\ data' = data /\ dir' = dir /\ faults' = faults /\ cwd' = cwd
        /\ Nothing
    BY <1>3 DEF Commits, store
  <2> QED BY <1>1, <2>1 DEF Replaced
<1> QED BY <1>2, <1>3

\* A step that changes one slot of a process.
LEMMA SlotInv ==
    ASSUME IInv, NEW R \in SUBSET Names, Replaced(R), NEW p \in alive, NEW f \in Fds,
           NEW d \in Descriptor, fds' = SlotSet(fds, p, f, d),
           NEW o \in Handle, opened' = SlotSet(Outdated(R), p, f, o),
           Keeps(fat', data', dir', d, o),
           wbuf' \in [Wbufs -> Buffer], Counts(fds', wbuf'),
           call' \in Call, CallSound', ShortOnlyAtEnd', UNCHANGED alive,
           faults' \in 0 .. MAXFAULTS, ops' \in 0 .. MAXOPS
    PROVE  IInv'
<1>1. Types /\ Handles /\ DeadEmpty
  BY DEF IInv
<1>2. fds \in Grid(Descriptor) /\ opened \in Grid(Handle) /\ p \in Procs
  BY <1>1 DEF Types
<1>3. /\ Outdated(R) \in Grid(Handle)
      /\ \A q \in Procs, g \in Fds : opened[q][g] = Unknown => Outdated(R)[q][g] = Unknown
      /\ \A q \in Procs, g \in Fds : \A c : Keeps(fat, data, dir, c, opened[q][g])
           => Keeps(fat', data', dir', c, Outdated(R)[q][g])
  BY <1>2, OutdatedFacts
<1>4. /\ fds'[p][f] = d /\ fds' \in Grid(Descriptor)
      /\ \A q \in Procs, g \in Fds : q # p \/ g # f => fds'[q][g] = fds[q][g]
  BY <1>2, SlotFacts
<1>5. /\ opened'[p][f] = o /\ opened' \in Grid(Handle)
      /\ \A q \in Procs, g \in Fds : q # p \/ g # f => opened'[q][g] = Outdated(R)[q][g]
  BY <1>2, <1>3, SlotFacts
<1>6. Types'
  BY <1>1, <1>4, <1>5 DEF Types
<1>7. Handles'
  <2>1. ASSUME NEW q \in Procs, NEW g \in Fds
        PROVE  Keeps(fat', data', dir', fds'[q][g], opened'[q][g])
    <3>1. CASE q = p /\ g = f
      BY <1>4, <1>5, <3>1
    <3>2. CASE ~(q = p /\ g = f)
      <4>1. fds'[q][g] = fds[q][g] /\ opened'[q][g] = Outdated(R)[q][g]
        BY <1>4, <1>5, <3>2
      <4>2. Keeps(fat, data, dir, fds[q][g], opened[q][g])
        BY <1>1 DEF Handles
      <4> QED BY <1>3, <4>1, <4>2
    <3> QED BY <3>1, <3>2
  <2> QED BY <2>1 DEF Handles
<1>8. DeadEmpty'
  <2>1. ASSUME NEW q \in Procs \ alive', NEW g \in Fds
        PROVE  fds'[q][g].kind # "WRITE" /\ opened'[q][g] = Unknown
    <3>1. q # p /\ fds[q][g].kind # "WRITE" /\ opened[q][g] = Unknown
      BY <1>1 DEF DeadEmpty
    <3> QED BY <1>3, <1>4, <1>5, <3>1
  <2> QED BY <2>1 DEF DeadEmpty
<1> QED BY <1>6, <1>7, <1>8 DEF IInv, Replaced

\* A step that writes no file.
LEMMA NothingReplaced ==
    ASSUME IInv, UNCHANGED store
    PROVE  /\ Replaced({}) /\ Outdated({}) = opened
           /\ fat' = fat /\ data' = data /\ dir' = dir
<1>1. fat' = fat /\ data' = data /\ dir' = dir
  BY DEF store
<1>2. Replaced({})
  BY <1>1 DEF Replaced, IInv
<1>3. Outdated({}) = opened
  BY DEF Outdated, IInv, Types, Grid
<1> QED BY <1>1, <1>2, <1>3

LEMMA CloseInv ==
    ASSUME IInv, NEW p \in Procs, NEW f \in Fds, sys_close(p, f)
    PROVE  IInv'
<1>1. PICK R \in SUBSET Names : /\ Commits(fds[p][f], R)
                                /\ opened' = SlotSet(Outdated(R), p, f, Unknown)
  BY DEF sys_close, SlotSet
<1>2. Replaced(R) /\ faults' \in 0 .. MAXFAULTS /\ (Nothing \/ Unwritten)
  BY <1>1, CommitsReplaces
<1>3. fds' = SlotSet(fds, p, f, Closed) /\ wbuf' = UnrefOf(wbuf, fds[p][f])
  BY DEF sys_close, SlotSet
<1>4. /\ fds \in Grid(Descriptor) /\ wbuf \in [Wbufs -> Buffer] /\ Counts(fds, wbuf)
      /\ ops \in 0 .. MAXOPS
  BY DEF IInv, Types
<1>5. Counts(fds', wbuf') /\ wbuf' \in [Wbufs -> Buffer]
  BY <1>3, <1>4, UnrefCounts
<1>6. p \in alive /\ call' = NoCall /\ UNCHANGED alive /\ UNCHANGED ops
  BY DEF sys_close, Idle
<1>7. call' \in Call /\ CallSound' /\ ShortOnlyAtEnd'
  BY <1>2, <1>6, Resting
<1>8. Closed \in Descriptor /\ Unknown \in Handle /\ Keeps(fat', data', dir', Closed, Unknown)
  BY Constants DEF Keeps
<1>9. ops' \in 0 .. MAXOPS
  BY <1>4, <1>6
<1> QED BY <1>1, <1>2, <1>3, <1>5, <1>6, <1>7, <1>8, <1>9, SlotInv

LEMMA Dup2Inv ==
    ASSUME IInv, NEW p \in Procs, NEW f \in Fds, NEW g \in Fds, sys_dup2(p, f, g)
    PROVE  IInv'
<1>1. PICK R \in SUBSET Names : /\ Commits(fds[p][g], R)
                                /\ opened' = SlotSet(Outdated(R), p, g, Outdated(R)[p][f])
  BY DEF sys_dup2, SlotSet
<1>2. Replaced(R) /\ faults' \in 0 .. MAXFAULTS /\ (Nothing \/ Unwritten)
  BY <1>1, CommitsReplaces
<1>3. PICK d : d = fds[p][f]
  OBVIOUS
<1>4. /\ fds' = SlotSet(fds, p, g, d)
      /\ wbuf' = RefOf(UnrefOf(wbuf, fds[p][g]), d)
  BY <1>3 DEF sys_dup2, SlotSet
<1>5. /\ fds \in Grid(Descriptor) /\ opened \in Grid(Handle) /\ wbuf \in [Wbufs -> Buffer]
      /\ Counts(fds, wbuf) /\ ops \in 0 .. MAXOPS
  BY DEF IInv, Types
<1>6. d \in Descriptor
  BY <1>3, <1>5 DEF Grid
<1>7. /\ p \in alive /\ f # g /\ call' = NoCall /\ UNCHANGED alive /\ UNCHANGED ops
  BY DEF sys_dup2, Idle
<1>8. Counts(fds', wbuf') /\ wbuf' \in [Wbufs -> Buffer]
  <2>1. PICK F, W : F = SlotSet(fds, p, g, Closed) /\ W = UnrefOf(wbuf, fds[p][g])
    OBVIOUS
  <2>2. Counts(F, W) /\ W \in [Wbufs -> Buffer]
    BY <1>5, <2>1, UnrefCounts
  <2>3. Closed \in Descriptor /\ Closed.kind # "WRITE"
    BY Constants
  <2>4. /\ F \in Grid(Descriptor) /\ F[p][g] = Closed
        /\ \A q \in Procs, h \in Fds : q # p \/ h # g => F[q][h] = fds[q][h]
    BY <1>5, <2>1, <2>3, SlotFacts
  <2>5. F[p][f] = d /\ F[p][g].kind # "WRITE"
    BY <1>3, <1>7, <2>3, <2>4
  <2>6. Counts(SlotSet(F, p, g, F[p][f]), RefOf(W, F[p][f])) /\ RefOf(W, F[p][f]) \in [Wbufs -> Buffer]
    BY <2>2, <2>4, <2>5, RefCounts
  <2>7. SlotSet(F, p, g, d) = SlotSet(fds, p, g, d)
    BY <1>5, <2>1 DEF SlotSet, Grid
  <2> QED BY <1>4, <2>1, <2>5, <2>6, <2>7
<1>9. call' \in Call /\ CallSound' /\ ShortOnlyAtEnd'
  BY <1>2, <1>7, Resting
<1>10. PICK o : o = Outdated(R)[p][f]
  OBVIOUS
<1>11. o \in Handle /\ Keeps(fat', data', dir', d, o)
  <2>1. /\ Outdated(R) \in Grid(Handle)
        /\ \A c : Keeps(fat, data, dir, c, opened[p][f]) => Keeps(fat', data', dir', c, o)
    BY <1>2, <1>5, <1>10, OutdatedFacts
  <2>2. Keeps(fat, data, dir, d, opened[p][f])
    BY <1>3 DEF IInv, Handles
  <2> QED BY <1>10, <2>1, <2>2 DEF Grid
<1>12. ops' \in 0 .. MAXOPS /\ opened' = SlotSet(Outdated(R), p, g, o)
  BY <1>1, <1>5, <1>7, <1>10
<1> QED BY <1>2, <1>4, <1>6, <1>7, <1>8, <1>9, <1>11, <1>12, SlotInv

\* What is written to is not opened for reading.
LEMMA WritableUnknown ==
    ASSUME IInv, NEW p \in Procs, NEW f \in Fds, fds[p][f].kind # "READ"
    PROVE  opened[p][f] = Unknown
BY DEF IInv, Handles, Keeps

LEMMA ExitTurnInv ==
    ASSUME IInv, ExitTurn
    PROVE  IInv'
<1>1. PICK p, f : /\ p = call.p /\ f \in Fds /\ fds[p][f].kind = "WRITE"
                  /\ wbuf' = UnrefOf(wbuf, fds[p][f])
                  /\ fds' = SlotSet(fds, p, f, Closed)
                  /\ \E R \in SUBSET Names : Commits(fds[p][f], R) /\ opened' = Outdated(R)
  BY DEF ExitTurn, FirstWritable, SlotSet
<1>2. call.op = "exit" /\ UNCHANGED <<alive, call, ops>>
  BY DEF ExitTurn
<1>3. /\ fds \in Grid(Descriptor) /\ opened \in Grid(Handle) /\ wbuf \in [Wbufs -> Buffer]
      /\ Counts(fds, wbuf) /\ ops \in 0 .. MAXOPS /\ call \in Call /\ alive \subseteq Procs
  BY DEF IInv, Types
<1>4. p \in alive /\ p \in Procs
  BY <1>1, <1>2, <1>3 DEF IInv, CallSound
<1>5. PICK R \in SUBSET Names : Commits(fds[p][f], R) /\ opened' = Outdated(R)
  BY <1>1
<1>6. Replaced(R) /\ faults' \in 0 .. MAXFAULTS /\ (Nothing \/ Unwritten)
  BY <1>1, <1>4, <1>5, CommitsReplaces
<1>7. Counts(fds', wbuf') /\ wbuf' \in [Wbufs -> Buffer]
  BY <1>1, <1>3, <1>4, UnrefCounts
<1>8. opened' = SlotSet(Outdated(R), p, f, Unknown)
  <2>1. opened[p][f] = Unknown
    BY <1>1, <1>4, WritableUnknown
  <2>2. PICK O : O = Outdated(R)
    OBVIOUS
  <2>3. O[p][f] = Unknown /\ O \in Grid(Handle)
    BY <1>1, <1>3, <1>4, <1>6, <2>1, <2>2, OutdatedFacts
  <2>4. O = SlotSet(O, p, f, Unknown)
    BY <1>1, <1>4, <2>3 DEF SlotSet, Grid
  <2> QED BY <1>5, <2>2, <2>4
<1>9. CallSound' /\ ShortOnlyAtEnd' /\ call' \in Call
  <2>1. call' = call /\ alive' = alive
    BY <1>2
  <2>2. CallSound'
    BY <1>1, <1>2, <1>4, <2>1 DEF CallSound
  <2>3. ShortOnlyAtEnd'
    BY <1>6, NothingReturned
  <2> QED BY <1>3, <2>1, <2>2, <2>3
<1>10. Closed \in Descriptor /\ Unknown \in Handle /\ Keeps(fat', data', dir', Closed, Unknown)
  BY Constants DEF Keeps
<1>11. ops' \in 0 .. MAXOPS /\ f \in Fds /\ UNCHANGED alive
  BY <1>1, <1>2, <1>3
<1> QED BY <1>1, <1>4, <1>6, <1>7, <1>8, <1>9, <1>10, <1>11, SlotInv
-----------------------------------------------------------------------------

\* The contents of a file are as many bytes as its size.
LEMMA TextFacts ==
    ASSUME DiskOK(fat, data, dir), NEW n \in Names, dir[n] # NoEntry
    PROVE  /\ Text(fat, data, dir[n]) \in Seq(Content)
           /\ Len(Text(fat, data, dir[n])) = dir[n].size
           /\ Contents(dir[n]) = Text(fat, data, dir[n])
           /\ Linked(fat, dir[n]) /\ dir[n].size \in Nat /\ dir[n].first \in Cluster \cup {0}
           /\ dir[n].first \in Place
<1>1. Linked(fat, dir[n])
  BY DEF DiskOK, Chains
<1>2. PICK e : e = dir[n]
  OBVIOUS
<1>3. Linked(fat, e) /\ e.size \in Nat /\ e.first \in Cluster \cup {0} /\ e.first \in Place
  BY <1>1, <1>2 DEF Linked, Place
<1>4. Contents(e) = Text(fat, data, e)
  BY AlongIsWalk DEF Contents, Text
<1>5. Text(fat, data, e) \in [1 .. e.size -> Content]
  <2>1. ASSUME NEW i \in 1 .. e.size
        PROVE  data[Walk(fat, e.first, 0)[(i - 1) \div CLUSTER_BYTES]][1 + ((i - 1) % CLUSTER_BYTES)]
                 \in Content
    <3>1. PICK pos \in Nat : pos = i - 1 /\ pos < e.size
      BY <1>3
    <3>2. PICK c, j : /\ c = Walk(fat, e.first, 0)[pos \div CLUSTER_BYTES]
                      /\ j = 1 + (pos % CLUSTER_BYTES)
      OBVIOUS
    <3>3. c \in Cluster
      BY <1>3, <3>1, <3>2, ByteHasCluster DEF Reached
    <3>4. j \in Block
      <4>1. PICK r \in 0 .. CLUSTER_BYTES - 1 : r = pos % CLUSTER_BYTES
        BY <1>3, <3>1, ByteHasCluster
      <4> QED BY <3>2, <4>1, Sizes DEF Block
    <3>5. data[c][j] \in Content
      BY <3>3, <3>4 DEF DiskOK
    <3> QED BY <3>1, <3>2, <3>5
  <2> QED BY <2>1 DEF Text
<1>6. Text(fat, data, e) \in Seq(Content) /\ Len(Text(fat, data, e)) = e.size
  BY <1>3, <1>5
<1> QED BY <1>2, <1>3, <1>4, <1>6

LEMMA OpenReadInv ==
    ASSUME IInv, NEW p \in Procs, NEW f \in Fds, NEW n \in Names,
           Idle, Counted, Nothing, p \in alive, fds[p][f].kind = "NONE", OpenRead(p, f, n),
           UNCHANGED <<store, alive, call, faults>>
    PROVE  IInv'
<1>1. PICK e, d, o : /\ e = dir[n]
                     /\ d = [Closed EXCEPT !.kind = "READ", !.first_cluster = e.first,
                                           !.cur_cluster = e.first, !.size = e.size]
                     /\ o = [name |-> n, bytes |-> Contents(e), cut |-> FALSE]
  OBVIOUS
<1>2. /\ dir[n] # NoEntry /\ fds' = SlotSet(fds, p, f, d)
      /\ opened' = SlotSet(opened, p, f, o) /\ wbuf' = wbuf
  BY <1>1 DEF OpenRead, SlotSet
<1>3. /\ Text(fat, data, e) \in Seq(Content) /\ Contents(e) = Text(fat, data, e)
      /\ e.size \in Nat /\ e.first \in Cluster \cup {0} /\ e.first \in Place
  BY <1>1, <1>2, TextFacts DEF IInv
<1>4. fat' = fat /\ data' = data /\ dir' = dir /\ Replaced({}) /\ opened = Outdated({})
  BY NothingReplaced
<1>5. /\ d.kind = "READ" /\ d.first_cluster = e.first /\ d.cur_cluster = e.first
      /\ d.size = e.size /\ d.pos = 0 /\ d.cluster_offset = 0
      /\ d \in Descriptor
  <2>1. d = [kind |-> "READ", wbuf |-> NULL, first_cluster |-> e.first,
             cur_cluster |-> e.first, cluster_offset |-> 0, pos |-> 0, size |-> e.size]
    BY <1>1 DEF Closed
  <2>2. 0 \in 0 .. CLUSTER_BYTES - 1 /\ e.first \in Cluster \cup {0, EOC}
    BY <1>3, Sizes
  <2> QED BY <1>3, <2>1, <2>2 DEF Descriptor
<1>6. o \in Handle /\ o.name = n /\ o.bytes = Text(fat, data, e) /\ o.cut = FALSE
  BY <1>1, <1>3 DEF Handle
<1>7. 0 \div CLUSTER_BYTES = 0 /\ 0 % CLUSTER_BYTES = 0
  BY Sizes
<1>8. Walk(fat, e.first, 0)[0] = e.first
  <2>1. fat \in [Cluster -> Place]
    BY DEF IInv, DiskOK
  <2>2. Goes(Walk(fat, e.first, 0), fat, e.first, 0)
    BY <1>3, <2>1, WalkFacts
  <2> QED BY <2>2 DEF Goes
<1>9. Keeps(fat', data', dir', d, o)
  BY <1>1, <1>2, <1>4, <1>5, <1>6, <1>7, <1>8, Constants DEF Keeps
<1>10. Counts(fds', wbuf') /\ wbuf' \in [Wbufs -> Buffer]
  <2>1. fds \in Grid(Descriptor) /\ Counts(fds, wbuf) /\ wbuf \in [Wbufs -> Buffer]
    BY DEF IInv, Types
  <2>2. fds[p][f].kind # "WRITE" /\ d.kind # "WRITE"
    BY <1>5
  <2> QED BY <1>2, <2>1, <2>2, SlotCounts
<1>11. call' \in Call /\ CallSound' /\ ShortOnlyAtEnd'
  BY Resting DEF Idle
<1>12. ops' \in 0 .. MAXOPS /\ faults' \in 0 .. MAXFAULTS
  BY CountedType DEF IInv, Types
<1> QED BY <1>2, <1>4, <1>5, <1>6, <1>9, <1>10, <1>11, <1>12, SlotInv

LEMMA OpenWriteInv ==
    ASSUME IInv, NEW p \in Procs, NEW f \in Fds, NEW q \in Paths,
           Idle, Counted, Nothing, p \in alive, fds[p][f].kind = "NONE", OpenWrite(p, f, q),
           UNCHANGED <<store, alive, call, faults>>
    PROVE  IInv'
<1>0. PICK n \in Paths : n = Cut[q]
  BY FilesAssumption
<1>1. PICK w \in Wbufs : /\ wbuf[w] = NoWbuf
                         /\ wbuf' = [wbuf EXCEPT ![w] = [path |-> n, buf |-> << >>, refcount |-> 1]]
                         /\ fds' = [fds EXCEPT ![p][f] = [Closed EXCEPT !.kind = "WRITE", !.wbuf = w]]
  BY <1>0 DEF OpenWrite
<1>2. PICK d, x : /\ d = [Closed EXCEPT !.kind = "WRITE", !.wbuf = w]
                  /\ x = [path |-> n, buf |-> << >>, refcount |-> 1]
  OBVIOUS
<1>3. /\ fds' = SlotSet(fds, p, f, d) /\ wbuf' = [wbuf EXCEPT ![w] = x] /\ opened' = opened
  BY <1>1, <1>2 DEF OpenWrite, SlotSet
<1>4. d \in Descriptor /\ d.kind = "WRITE" /\ d.wbuf = w
  <2>1. d = [kind |-> "WRITE", wbuf |-> w, first_cluster |-> 0,
             cur_cluster |-> 0, cluster_offset |-> 0, pos |-> 0, size |-> 0]
    BY <1>2 DEF Closed
  <2>2. 0 \in 0 .. CLUSTER_BYTES - 1
    BY Sizes
  <2> QED BY <2>1, <2>2 DEF Descriptor
<1>5. x \in Buffer /\ x.refcount = 1 /\ x.path = n
  <2>1. << >> \in Seq(Bytes) /\ Len(<< >>) <= WBUF_CAP
    BY FilesAssumption
  <2> QED BY <1>2, <2>1 DEF Buffer
<1>6. fat' = fat /\ data' = data /\ dir' = dir /\ Replaced({}) /\ opened = Outdated({})
  BY NothingReplaced
<1>7. /\ fds \in Grid(Descriptor) /\ opened \in Grid(Handle) /\ Counts(fds, wbuf)
      /\ wbuf \in [Wbufs -> Buffer]
  BY DEF IInv, Types
<1>8. opened[p][f] = Unknown
  BY WritableUnknown
<1>9. opened' = SlotSet(Outdated({}), p, f, Unknown)
  BY <1>3, <1>6, <1>7, <1>8 DEF SlotSet, Grid
<1>10. Unknown \in Handle /\ Keeps(fat', data', dir', d, Unknown)
  BY Constants DEF Keeps
<1>11. wbuf' \in [Wbufs -> Buffer]
  BY <1>3, <1>5, <1>7
<1>12. Counts(fds', wbuf')
  <2>1. ASSUME NEW v \in Wbufs
        PROVE  /\ Tally(fds', v) = Tally(fds, v) + (IF Uses(d, v) THEN 1 ELSE 0)
               /\ Tally(fds, v) \in Nat /\ Exact(wbuf[v], Tally(fds, v))
    <3>1. ~Uses(fds[p][f], v)
      BY DEF Uses
    <3>2. Tally(fds', v) = Tally(fds, v) - 0 + (IF Uses(d, v) THEN 1 ELSE 0)
      BY <1>3, <1>7, <3>1, TallySlot
    <3>3. Tally(fds, v) \in Nat
      BY UsersMember
    <3> QED BY <1>7, <3>2, <3>3 DEF Counts
  <2>2. Exact(wbuf'[w], Tally(fds', w))
    <3>1. Tally(fds, w) = 0
      BY <1>1, <2>1 DEF Exact, NoWbuf
    <3>2. Tally(fds', w) = 1 /\ wbuf'[w] = x
      BY <1>3, <1>4, <1>7, <2>1, <3>1 DEF Uses
    <3> QED BY <1>5, <3>2 DEF Exact
  <2>3. ASSUME NEW v \in Wbufs, v # w PROVE Exact(wbuf'[v], Tally(fds', v))
    <3>1. wbuf'[v] = wbuf[v] /\ ~Uses(d, v)
      BY <1>3, <1>4, <1>7, <2>3 DEF Uses
    <3>2. Tally(fds', v) = Tally(fds, v) /\ Exact(wbuf[v], Tally(fds, v))
      BY <2>1, <3>1
    <3> QED BY <3>1, <3>2
  <2>4. \A r \in Procs, g \in Fds : fds'[r][g].kind = "WRITE" => fds'[r][g].wbuf \in Wbufs
    <3>1. /\ fds'[p][f] = d
          /\ \A r \in Procs, g \in Fds : r # p \/ g # f => fds'[r][g] = fds[r][g]
      BY <1>3, <1>7, SlotFacts
    <3> QED BY <1>4, <1>7, <3>1 DEF Counts
  <2> QED BY <2>2, <2>3, <2>4 DEF Counts
<1>13. call' \in Call /\ CallSound' /\ ShortOnlyAtEnd'
  BY Resting DEF Idle
<1>14. ops' \in 0 .. MAXOPS /\ faults' \in 0 .. MAXFAULTS
  BY CountedType DEF IInv, Types
<1> QED BY <1>3, <1>4, <1>6, <1>9, <1>10, <1>11, <1>12, <1>13, <1>14, SlotInv

LEMMA OpenInv ==
    ASSUME IInv, NEW p \in Procs, NEW q \in Paths, sys_open(p, q)
    PROVE  IInv'
<1>1. PICK f \in Fds : /\ fds[p][f].kind = "NONE"
                       /\ (\E n \in Names : OpenRead(p, f, n)) \/ OpenWrite(p, f, q)
  BY DEF sys_open, LowestClosed
<1>2. Idle /\ Counted /\ Nothing /\ p \in alive /\ UNCHANGED <<store, alive, call, faults>>
  BY DEF sys_open
<1>3. CASE \E n \in Names : OpenRead(p, f, n)
  BY <1>1, <1>2, <1>3, OpenReadInv
<1>4. CASE OpenWrite(p, f, q)
  BY <1>1, <1>2, <1>4, OpenWriteInv
<1> QED BY <1>1, <1>3, <1>4
-----------------------------------------------------------------------------

\* The position after lseek, and the place of the walk from the start.
LEMMA LseekInv ==
    ASSUME IInv, NEW p \in Procs, NEW f \in Fds, NEW offset \in OFFSETS, NEW whence \in 0 .. 2,
           sys_lseek(p, f, offset, whence)
    PROVE  IInv'
<1>1. PICK d, o, pos : d = fds[p][f] /\ o = opened[p][f] /\ pos = Base(d, whence) + offset
  OBVIOUS
<1>2. PICK q : q = pos \div CLUSTER_BYTES
  OBVIOUS
<1>3. PICK j \in 0 .. q :
         /\ fds' = [fds EXCEPT ![p][f] = Sought(fds[p][f], pos, j)]
         /\ opened' = [opened EXCEPT ![p][f].cut = (j # 0 /\ opened[p][f].name # NULL)]
         /\ IF j = 0 THEN UNCHANGED faults ELSE Fault
  BY <1>1, <1>2 DEF sys_lseek
<1>4. /\ Idle /\ Nothing /\ p \in alive /\ d.kind = "READ" /\ pos >= 0
      /\ UNCHANGED <<store, alive, wbuf, call, ops>>
  BY <1>1 DEF sys_lseek
<1>5. /\ fds \in Grid(Descriptor) /\ opened \in Grid(Handle) /\ Counts(fds, wbuf)
      /\ wbuf \in [Wbufs -> Buffer] /\ fat \in [Cluster -> Place]
      /\ faults \in 0 .. MAXFAULTS /\ ops \in 0 .. MAXOPS
  BY DEF IInv, Types, DiskOK
<1>6. d \in Descriptor /\ o \in Handle /\ Keeps(fat, data, dir, d, o)
  BY <1>1, <1>5 DEF Grid, IInv, Handles
<1>7. pos \in Nat
  <2>1. offset \in Int /\ d.pos \in Nat /\ d.size \in Nat
    BY <1>6, FilesAssumption DEF Descriptor
  <2>2. Base(d, whence) \in Nat
    <3>1. whence = 0 \/ whence = 1 \/ whence = 2
      OBVIOUS
    <3> QED BY <2>1, <3>1 DEF Base
  <2>3. PICK a \in Nat : a = Base(d, whence)
    BY <2>2
  <2> QED BY <1>1, <1>4, <2>1, <2>3
<1>8. q \in Nat /\ pos % CLUSTER_BYTES \in 0 .. CLUSTER_BYTES - 1
  BY <1>2, <1>7, Sizes, Division
<1>9. PICK e, g : /\ g = Walk(fat, d.first_cluster, j)[q]
                  /\ e = [d EXCEPT !.pos = pos, !.cluster_offset = pos % CLUSTER_BYTES,
                                   !.cur_cluster = g]
  OBVIOUS
<1>10. fds' = SlotSet(fds, p, f, e)
  <2>1. Sought(fds[p][f], pos, j) = e
    BY <1>1, <1>2, <1>9, AlongIsWalk DEF Sought
  <2> QED BY <1>3, <2>1 DEF SlotSet
<1>11. d.first_cluster \in Place
  BY <1>6 DEF Descriptor, Place
<1>12. g \in Place
  <2>1. PICK c \in Place : c = d.first_cluster
    BY <1>11
  <2>2. Goes(Walk(fat, c, j), fat, c, j)
    BY <1>5, WalkFacts
  <2> QED BY <1>8, <1>9, <2>1, <2>2 DEF Goes
<1>13. /\ e \in Descriptor /\ e.kind = "READ" /\ e.size = d.size
       /\ e.first_cluster = d.first_cluster /\ e.pos = pos
       /\ e.cluster_offset = pos % CLUSTER_BYTES /\ e.cur_cluster = g
  <2>1. PICK r \in 0 .. CLUSTER_BYTES - 1 : r = pos % CLUSTER_BYTES
    BY <1>8
  <2>2. e = [d EXCEPT !.pos = pos, !.cluster_offset = r, !.cur_cluster = g]
    BY <1>9, <2>1
  <2>3. /\ e \in Descriptor /\ e.kind = d.kind /\ e.size = d.size
        /\ e.first_cluster = d.first_cluster /\ e.pos = pos
        /\ e.cluster_offset = r /\ e.cur_cluster = g
    BY <1>6, <1>7, <1>12, <2>2 DEF Descriptor, Place
  <2> QED BY <1>4, <2>1, <2>3
<1>14. PICK u : u = [o EXCEPT !.cut = (j # 0 /\ o.name # NULL)]
  OBVIOUS
<1>15. /\ u \in Handle /\ u.name = o.name /\ u.bytes = o.bytes
       /\ u.cut <=> (j # 0 /\ o.name # NULL)
  BY <1>6, <1>14 DEF Handle
<1>16. opened' = SlotSet(opened, p, f, u)
  BY <1>1, <1>3, <1>14 DEF SlotSet
<1>17. fat' = fat /\ data' = data /\ dir' = dir /\ Replaced({}) /\ opened = Outdated({})
  BY <1>4, NothingReplaced
<1>18. Keeps(fat, data, dir, e, u)
  <2>1. CASE o.name = NULL
    <3>1. o = Unknown /\ o.cut = FALSE
      BY <1>6, <2>1 DEF Keeps, Unknown
    <3>2. u = Unknown
      <4>1. u.cut = FALSE
        BY <1>15, <2>1 DEF Handle
      <4>2. u = [name |-> u.name, bytes |-> u.bytes, cut |-> u.cut]
        BY <1>15 DEF Handle
      <4>3. o.name = NULL /\ o.bytes = << >>
        BY <3>1 DEF Unknown
      <4> QED BY <1>15, <4>1, <4>2, <4>3 DEF Unknown
    <3> QED BY <3>2, Constants DEF Keeps
  <2>2. CASE o.name # NULL
    <3>1. PICK x : x = dir[o.name]
      OBVIOUS
    <3>2. /\ x # NoEntry /\ d.size = x.size /\ d.first_cluster = x.first
          /\ o.bytes = Text(fat, data, x)
      BY <1>6, <2>2, <3>1 DEF Keeps
    <3>3. j = 0 => g = Walk(fat, x.first, 0)[q]
      BY <1>9, <3>2
    <3>4. j # 0 => g \notin Cluster
      <4>1. HAVE j # 0
      <4>2. j \in 1 .. q
        BY <1>8, <4>1
      <4>3. PICK c \in Place : c = d.first_cluster
        BY <1>11
      <4>4. Walk(fat, c, j)[q] \notin Cluster
        BY <1>5, <1>8, <4>2, WalkCut
      <4> QED BY <1>9, <4>3, <4>4
    <3> QED BY <1>2, <1>13, <1>15, <2>2, <3>1, <3>2, <3>3, <3>4 DEF Keeps
  <2> QED BY <2>1, <2>2
<1>19. Counts(fds', wbuf') /\ wbuf' \in [Wbufs -> Buffer]
  <2>1. fds[p][f].kind # "WRITE" /\ e.kind # "WRITE" /\ wbuf' = wbuf
    BY <1>1, <1>4, <1>13
  <2> QED BY <1>5, <1>10, <2>1, SlotCounts
<1>20. call' = NoCall /\ UNCHANGED alive
  BY <1>4 DEF Idle
<1>21. call' \in Call /\ CallSound' /\ ShortOnlyAtEnd'
  BY <1>4, <1>20, Resting
<1>22. faults' \in 0 .. MAXFAULTS /\ ops' \in 0 .. MAXOPS
  <2>1. MAXFAULTS \in Nat /\ (faults' = faults \/ (faults < MAXFAULTS /\ faults' = faults + 1))
    BY <1>3, FilesAssumption DEF Fault
  <2> QED BY <1>4, <1>5, <2>1
<1>23. Keeps(fat', data', dir', e, u) /\ opened' = SlotSet(Outdated({}), p, f, u)
  BY <1>16, <1>17, <1>18
<1> QED BY <1>4, <1>10, <1>13, <1>15, <1>17, <1>19, <1>20, <1>21, <1>22, <1>23, SlotInv

\* A step of a call that changes no descriptor and no file.
LEMMA CallInv ==
    ASSUME IInv, UNCHANGED <<store, alive, fds, wbuf, opened>>, call' \in Call, CallSound',
           ShortOnlyAtEnd', faults' \in 0 .. MAXFAULTS, ops' \in 0 .. MAXOPS
    PROVE  IInv'
<1>1. fat' = fat /\ data' = data /\ dir' = dir
  BY DEF store
<1>2. Types'
  BY DEF IInv, Types
<1>3. DiskOK(fat', data', dir') /\ Counts(fds', wbuf')
  BY <1>1 DEF IInv
<1>4. Handles' /\ DeadEmpty'
  BY <1>1 DEF IInv, Handles, DeadEmpty
<1> QED BY <1>2, <1>3, <1>4 DEF IInv

LEMMA ReadInv ==
    ASSUME IInv, NEW p \in Procs, NEW f \in Fds, NEW len \in LENS, sys_read_fd(p, f, len)
    PROVE  IInv'
<1>1. /\ Nothing /\ p \in alive /\ fds[p][f].kind = "READ"
      /\ call' = [NoCall EXCEPT !.op = "read", !.p = p, !.fd = f, !.len = len,
                                !.from = fds[p][f].pos]
      /\ UNCHANGED <<store, alive, fds, wbuf, opened, faults, ops>>
  BY DEF sys_read_fd
<1>2. len \in Nat /\ len > 0
  BY FilesAssumption
<1>3. PICK d, o : d = fds[p][f] /\ o = opened[p][f]
  OBVIOUS
<1>4. d \in Descriptor /\ o \in Handle /\ d.kind = "READ" /\ d.pos \in Nat
  BY <1>1, <1>3 DEF IInv, Types, Grid, Descriptor
<1>5. call' = [op |-> "read", p |-> p, fd |-> f, len |-> len, from |-> d.pos,
               got |-> << >>, failed |-> FALSE]
  BY <1>1, <1>3 DEF NoCall
<1>6. call' \in Call
  <2>1. << >> \in Seq(Content)
    OBVIOUS
  <2> QED BY <1>2, <1>4, <1>5, <2>1 DEF Call
<1>7. /\ fds'[p][f] = d /\ opened'[p][f] = o /\ p \in alive'
      /\ call'.op = "read" /\ call'.p = p /\ call'.fd = f /\ call'.len = len
      /\ call'.from = d.pos /\ call'.got = << >>
  <2>1. fds'[p][f] = d /\ opened'[p][f] = o /\ p \in alive'
    BY <1>1, <1>3
  <2>2. /\ call'.op = "read" /\ call'.p = p /\ call'.fd = f /\ call'.len = len
        /\ call'.from = d.pos /\ call'.got = << >>
    BY <1>5
  <2> QED BY <2>1, <2>2
<1>8. d.pos + Len(<< >>) = d.pos /\ Len(<< >>) <= len
  BY <1>2, <1>4
<1>9. o.name # NULL => << >> = SubSeq(o.bytes, d.pos + 1, d.pos)
  <2>1. PICK x \in Nat : x = d.pos
    BY <1>4
  <2>2. o.bytes \in Seq(Content)
    BY <1>4 DEF Handle
  <2>3. << >> = SubSeq(o.bytes, x + 1, x)
    BY <2>1, <2>2
  <2> QED BY <2>1, <2>3
<1>10. CallSound'
  BY <1>2, <1>4, <1>7, <1>8, <1>9 DEF CallSound
<1>11. ShortOnlyAtEnd'
  BY <1>1 DEF Nothing, ShortOnlyAtEnd
<1>12. faults' \in 0 .. MAXFAULTS /\ ops' \in 0 .. MAXOPS
  BY <1>1 DEF IInv, Types
<1> QED BY <1>1, <1>6, <1>10, <1>11, <1>12, CallInv

LEMMA ReadFailsInv ==
    ASSUME IInv, ReadFails
    PROVE  IInv'
<1>1. /\ call.op = "read" /\ Fault /\ call' = [call EXCEPT !.failed = TRUE]
      /\ UNCHANGED <<store, alive, fds, wbuf, opened, returned, ops>>
  BY DEF ReadFails
<1>2. call \in Call
  BY DEF IInv, Types
<1>3. /\ call' \in Call /\ call'.op = call.op /\ call'.p = call.p /\ call'.fd = call.fd
      /\ call'.len = call.len /\ call'.from = call.from /\ call'.got = call.got
  BY <1>1, <1>2 DEF Call
<1>4. CallSound'
  BY <1>1, <1>3 DEF CallSound, IInv
<1>5. ShortOnlyAtEnd'
  BY <1>1 DEF ShortOnlyAtEnd, IInv
<1>6. faults' \in 0 .. MAXFAULTS /\ ops' \in 0 .. MAXOPS
  <2>1. MAXFAULTS \in Nat /\ faults \in 0 .. MAXFAULTS /\ ops \in 0 .. MAXOPS
    BY FilesAssumption DEF IInv, Types
  <2> QED BY <1>1, <2>1 DEF Fault
<1> QED BY <1>1, <1>3, <1>4, <1>5, <1>6, CallInv

LEMMA ExitInv ==
    ASSUME IInv, NEW p \in Procs, process_exit(p)
    PROVE  IInv'
<1>1. /\ Nothing /\ p \in alive /\ call' = [NoCall EXCEPT !.op = "exit", !.p = p]
      /\ UNCHANGED <<store, alive, fds, wbuf, opened, faults, ops>>
  BY DEF process_exit
<1>2. call' \in Call /\ call'.op = "exit" /\ call'.p = p
  <2>1. NoCall \in Call
    BY Constants
  <2> QED BY <1>1, <2>1 DEF Call
<1>3. CallSound'
  BY <1>1, <1>2 DEF CallSound
<1>4. ShortOnlyAtEnd'
  BY <1>1 DEF Nothing, ShortOnlyAtEnd
<1>5. faults' \in 0 .. MAXFAULTS /\ ops' \in 0 .. MAXOPS
  BY <1>1 DEF IInv, Types
<1> QED BY <1>1, <1>2, <1>3, <1>4, <1>5, CallInv

\* A read that was not cut short got all that was asked for or all there is.
LEMMA ReadReturnsInv ==
    ASSUME IInv, ReadReturns
    PROVE  IInv'
<1>1. PICK d, o : d = fds[call.p][call.fd] /\ o = opened[call.p][call.fd]
  OBVIOUS
<1>2. /\ call.op = "read" /\ ~MoreToRead /\ call' = NoCall
      /\ returned' = IF o.name = NULL THEN NoRead
                     ELSE [bytes |-> call.got, due |-> Least(call.len, Len(o.bytes) - call.from),
                           failed |-> call.failed \/ o.cut, lost |-> FALSE]
      /\ UNCHANGED <<store, alive, fds, wbuf, opened, faults, ops>>
  BY <1>1 DEF ReadReturns
<1>3. /\ call \in Call /\ fds \in Grid(Descriptor) /\ opened \in Grid(Handle)
      /\ faults \in 0 .. MAXFAULTS /\ ops \in 0 .. MAXOPS /\ alive \subseteq Procs
      /\ DiskOK(fat, data, dir) /\ Handles /\ CallSound
  BY DEF IInv, Types
<1>4. call.p \in Procs /\ call.fd \in Fds
  BY <1>2, <1>3 DEF CallSound, Call
<1>5. d \in Descriptor /\ o \in Handle /\ Keeps(fat, data, dir, d, o)
  BY <1>1, <1>3, <1>4 DEF Grid, Handles
<1>6. PICK len, from, got, n : len = call.len /\ from = call.from /\ got = call.got /\ n = Len(got)
  OBVIOUS
<1>7. len \in Nat /\ from \in Nat /\ got \in Seq(Content) /\ n \in Nat
  BY <1>3, <1>6 DEF Call
<1>8. PICK pos, size : pos = d.pos /\ size = d.size
  OBVIOUS
<1>9. pos \in Nat /\ size \in Nat
  BY <1>5, <1>8 DEF Descriptor
<1>10. /\ d.kind = "READ" /\ len > 0 /\ from + n = pos /\ n <= len
       /\ got # << >> => pos <= size
  BY <1>1, <1>2, <1>3, <1>6, <1>8 DEF CallSound
<1>11. got # << >> <=> n # 0
  BY <1>6, <1>7
<1>12. ~(n < len /\ pos < size /\ d.cur_cluster >= 2 /\ d.cur_cluster < EOC /\ ~call.failed)
  BY <1>1, <1>2, <1>6, <1>8 DEF MoreToRead, Current
<1>13. ShortOnlyAtEnd'
  <2>1. CASE o.name = NULL
    BY <1>2, <2>1 DEF ShortOnlyAtEnd
  <2>2. CASE o.name # NULL /\ (call.failed \/ o.cut)
    BY <1>2, <2>2 DEF ShortOnlyAtEnd
  <2>3. CASE o.name # NULL /\ ~call.failed /\ ~o.cut
    <3>1. PICK nm \in Names : nm = o.name
      BY <1>5, <2>3 DEF Handle
    <3>2. PICK e : e = dir[nm]
      OBVIOUS
    <3>3. /\ e # NoEntry /\ size = e.size /\ o.bytes = Text(fat, data, e)
          /\ d.cur_cluster = Walk(fat, e.first, 0)[pos \div CLUSTER_BYTES]
      BY <1>5, <1>8, <2>3, <3>1, <3>2 DEF Keeps
    <3>4. Len(o.bytes) = size /\ Linked(fat, e)
      BY <1>3, <3>1, <3>2, <3>3, TextFacts
    <3>5. pos < size => d.cur_cluster >= 2 /\ d.cur_cluster < EOC
      <4>1. HAVE pos < size
      <4>2. d.cur_cluster \in Cluster
        BY <1>9, <3>3, <3>4, <4>1, ByteHasCluster DEF Reached
      <4> QED BY <4>2, Sizes
    <3>6. n = len \/ pos >= size
      BY <1>7, <1>9, <1>10, <1>12, <2>3, <3>5
    <3>7. n = IF Least(len, size - from) > 0 THEN Least(len, size - from) ELSE 0
      BY <1>7, <1>9, <1>10, <1>11, <3>6 DEF Least
    <3>8. returned'.bytes = got /\ returned'.due = Least(len, size - from)
      BY <1>2, <1>6, <2>3, <3>4
    <3> QED BY <1>6, <3>7, <3>8 DEF ShortOnlyAtEnd
  <2> QED BY <2>1, <2>2, <2>3
<1>14. call' \in Call /\ CallSound'
  <2>1. call'.op = "none" /\ call' \in Call
    BY <1>2, Constants
  <2> QED BY <1>2, <2>1 DEF CallSound
<1>15. faults' \in 0 .. MAXFAULTS /\ ops' \in 0 .. MAXOPS
  BY <1>2, <1>3
<1> QED BY <1>2, <1>13, <1>14, <1>15, CallInv

\* file_write adds to the buffer no more than it has room for.
LEMMA WriteInv ==
    ASSUME IInv, NEW p \in Procs, NEW f \in Fds, NEW b \in WRITES, sys_write_fd(p, f, b)
    PROVE  IInv'
<1>1. PICK w : w = fds[p][f].wbuf
  OBVIOUS
<1>2. /\ Idle /\ Nothing /\ fds[p][f].kind = "WRITE" /\ wbuf' = Appended(w, b)
      /\ UNCHANGED <<store, alive, fds, call, opened, faults, ops>>
  BY <1>1 DEF sys_write_fd
<1>3. /\ Types /\ Counts(fds, wbuf) /\ wbuf \in [Wbufs -> Buffer]
  BY DEF IInv, Types
<1>4. w \in Wbufs
  BY <1>1, <1>2, <1>3 DEF Counts
<1>5. PICK x, c, y : /\ x = wbuf[w]
                     /\ c = x.buf \o SubSeq(b, 1, Least(Len(b), WBUF_CAP - Len(x.buf)))
                     /\ y = [x EXCEPT !.buf = c]
  OBVIOUS
<1>6. x \in Buffer /\ x.buf \in Seq(Bytes) /\ Len(x.buf) <= WBUF_CAP
  BY <1>3, <1>4, <1>5 DEF Buffer
<1>7. c \in Seq(Bytes) /\ Len(c) <= WBUF_CAP
  <2>1. b \in Seq(Bytes) /\ WBUF_CAP \in Nat
    BY FilesAssumption
  <2>2. PICK m : m = Least(Len(b), WBUF_CAP - Len(x.buf))
    OBVIOUS
  <2>3. PICK a \in Seq(Bytes) : a = x.buf
    BY <1>6
  <2>4. m \in Nat /\ m <= Len(b) /\ Len(a) + m <= WBUF_CAP
    <3>1. PICK j \in Nat, k \in Nat : j = Len(a) /\ k = Len(b)
      BY <2>1
    <3>2. j <= WBUF_CAP /\ m = Least(k, WBUF_CAP - j)
      BY <1>6, <2>2, <2>3, <3>1
    <3>3. m \in Nat /\ m <= k /\ j + m <= WBUF_CAP
      BY <2>1, <3>2 DEF Least
    <3> QED BY <3>1, <3>3
  <2>5. SubSeq(b, 1, m) \in Seq(Bytes) /\ Len(SubSeq(b, 1, m)) = m
    BY <2>1, <2>4
  <2>6. PICK z \in Seq(Bytes) : z = SubSeq(b, 1, m) /\ Len(z) = m
    BY <2>5
  <2>7. c = a \o z
    BY <1>5, <2>2, <2>3, <2>6
  <2>8. Len(a \o z) = Len(a) + Len(z) /\ a \o z \in Seq(Bytes)
    OBVIOUS
  <2> QED BY <2>4, <2>6, <2>7, <2>8
<1>8. y \in Buffer /\ y.refcount = x.refcount /\ y.path = x.path
  BY <1>5, <1>6, <1>7 DEF Buffer
<1>9. wbuf' = [wbuf EXCEPT ![w] = y]
  BY <1>2, <1>3, <1>4, <1>5 DEF Appended
<1>10. wbuf' \in [Wbufs -> Buffer]
  BY <1>3, <1>8, <1>9
<1>11. Counts(fds, wbuf')
  <2>1. Tally(fds, w) # 0
    <3>1. Uses(fds[p][f], w)
      BY <1>1, <1>2 DEF Uses
    <3> QED BY <3>1, UsersMember
  <2>2. Exact(x, Tally(fds, w))
    BY <1>3, <1>4, <1>5 DEF Counts
  <2>3. Exact(wbuf'[w], Tally(fds, w))
    BY <1>3, <1>4, <1>8, <1>9, <2>1, <2>2 DEF Exact
  <2>4. \A v \in Wbufs : v # w => wbuf'[v] = wbuf[v]
    BY <1>3, <1>9
  <2> QED BY <1>3, <2>3, <2>4 DEF Counts
<1>12. call' \in Call /\ CallSound' /\ ShortOnlyAtEnd'
  BY <1>2, Resting DEF Idle
<1>13. fat' = fat /\ data' = data /\ dir' = dir /\ fds' = fds /\ opened' = opened /\ alive' = alive
  BY <1>2 DEF store
<1>14. Types'
  BY <1>2, <1>3, <1>10, <1>12 DEF Types
<1>15. DiskOK(fat', data', dir') /\ Counts(fds', wbuf')
  BY <1>11, <1>13 DEF IInv
<1>16. Handles' /\ DeadEmpty'
  BY <1>13 DEF IInv, Handles, DeadEmpty
<1> QED BY <1>12, <1>14, <1>15, <1>16 DEF IInv
-----------------------------------------------------------------------------

\* A step that gives a process a new table.
LEMMA RowInv ==
    ASSUME IInv, UNCHANGED store, NEW p \in Procs,
           NEW r \in [Fds -> Descriptor], fds' = RowSet(fds, p, r),
           NEW s \in [Fds -> Handle], opened' = RowSet(opened, p, s),
           \A f \in Fds : Keeps(fat, data, dir, r[f], s[f]),
           p \in alive' \/ \A f \in Fds : r[f].kind # "WRITE" /\ s[f] = Unknown,
           alive' \subseteq Procs, alive \ {p} \subseteq alive',
           wbuf' \in [Wbufs -> Buffer], Counts(fds', wbuf'), call' = NoCall, Nothing,
           faults' = faults, ops' \in 0 .. MAXOPS
    PROVE  IInv'
<1>1. Types /\ Handles /\ DeadEmpty /\ DiskOK(fat, data, dir)
  BY DEF IInv
<1>2. fds \in Grid(Descriptor) /\ opened \in Grid(Handle)
  BY <1>1 DEF Types
<1>3. fat' = fat /\ data' = data /\ dir' = dir
  BY DEF store
<1>4. fds'[p] = r /\ fds' \in Grid(Descriptor) /\ \A q \in Procs : q # p => fds'[q] = fds[q]
  BY <1>2, RowFacts
<1>5. opened'[p] = s /\ opened' \in Grid(Handle) /\ \A q \in Procs : q # p => opened'[q] = opened[q]
  BY <1>2, RowFacts
<1>6. call' \in Call /\ CallSound' /\ ShortOnlyAtEnd'
  BY Resting
<1>7. Types'
  BY <1>1, <1>4, <1>5, <1>6 DEF Types
<1>8. Handles'
  <2>1. ASSUME NEW q \in Procs, NEW f \in Fds
        PROVE  Keeps(fat', data', dir', fds'[q][f], opened'[q][f])
    <3>1. CASE q = p
      BY <1>3, <1>4, <1>5, <3>1
    <3>2. CASE q # p
      BY <1>1, <1>3, <1>4, <1>5, <3>2 DEF Handles
    <3> QED BY <3>1, <3>2
  <2> QED BY <2>1 DEF Handles
<1>9. DeadEmpty'
  <2>1. ASSUME NEW q \in Procs \ alive', NEW f \in Fds
        PROVE  fds'[q][f].kind # "WRITE" /\ opened'[q][f] = Unknown
    <3>1. CASE q = p
      BY <1>4, <1>5, <3>1
    <3>2. CASE q # p
      <4>1. q \in Procs \ alive
        BY <3>2
      <4> QED BY <1>1, <1>4, <1>5, <3>2, <4>1 DEF DeadEmpty
    <3> QED BY <3>1, <3>2
  <2> QED BY <2>1 DEF DeadEmpty
<1> QED BY <1>1, <1>3, <1>6, <1>7, <1>8, <1>9 DEF IInv

\* A table without buffers, in the place of another.
LEMMA PlainRow ==
    ASSUME NEW F \in Grid(Descriptor), NEW W, Counts(F, W), NEW p \in Procs, NEW r,
           \A f \in Fds : r[f].kind # "WRITE" /\ F[p][f].kind # "WRITE"
    PROVE  Counts(RowSet(F, p, r), W)
<1> DEFINE G == RowSet(F, p, r)
<1>1. ASSUME NEW w \in Wbufs PROVE Tally(G, w) = Tally(F, w)
  <2>0. RowUses(F[p], w) = {}
    BY DEF RowUses, Uses
  <2>1. RowUses(r, w) = {}
    BY DEF RowUses, Uses
  <2>2. Tally(G, w) = Tally(F, w) + Cardinality(RowUses(r, w))
    <3> HIDE DEF G
    <3>1. Tally(RowSet(F, p, r), w) = Tally(F, w) + Cardinality(RowUses(r, w))
      BY <2>0, TallyRow
    <3> QED BY <3>1 DEF G
  <2>3. Tally(F, w) \in Nat
    BY UsersMember
  <2> QED BY <2>1, <2>2, <2>3, FS_EmptySet
<1>2. G[p] = r /\ \A q \in Procs : q # p => G[q] = F[q]
  BY RowFacts
<1> HIDE DEF G
<1> QED BY <1>1, <1>2 DEF Counts, G

LEMMA CreateInv ==
    ASSUME IInv, NEW p \in Procs, process_create(p)
    PROVE  IInv'
<1>1. /\ call' = NoCall /\ Nothing /\ p \notin alive /\ alive' = alive \cup {p}
      /\ fds' = RowSet(fds, p, StdFds) /\ wbuf' = wbuf /\ opened' = opened
      /\ UNCHANGED store /\ faults' = faults /\ ops' = ops
  BY DEF process_create, Idle, RowSet
<1>2. /\ fds \in Grid(Descriptor) /\ opened \in Grid(Handle) /\ Counts(fds, wbuf)
      /\ wbuf \in [Wbufs -> Buffer] /\ alive \subseteq Procs /\ ops \in 0 .. MAXOPS
  BY DEF IInv, Types
<1>3. PICK s : s = [f \in Fds |-> Unknown]
  OBVIOUS
<1>4. s \in [Fds -> Handle] /\ \A f \in Fds : s[f] = Unknown
  BY <1>3, Constants
<1>5. opened' = RowSet(opened, p, s)
  <2>1. \A f \in Fds : opened[p][f] = Unknown
    BY <1>1 DEF IInv, DeadEmpty
  <2>2. opened[p] = s
    BY <1>2, <1>3, <2>1 DEF Grid
  <2> QED BY <1>1, <1>2, <2>2 DEF RowSet, Grid
<1>6. StdFds \in [Fds -> Descriptor] /\ \A f \in Fds : StdFds[f].kind # "WRITE"
  BY Constants
<1>7. \A f \in Fds : Keeps(fat, data, dir, StdFds[f], s[f])
  BY <1>4, Constants DEF Keeps
<1>8. Counts(fds', wbuf') /\ wbuf' \in [Wbufs -> Buffer]
  <2>1. \A f \in Fds : StdFds[f].kind # "WRITE" /\ fds[p][f].kind # "WRITE"
    BY <1>1, <1>6 DEF IInv, DeadEmpty
  <2> QED BY <1>1, <1>2, <2>1, PlainRow
<1>9. p \in alive' /\ alive' \subseteq Procs /\ alive \ {p} \subseteq alive' /\ ops' \in 0 .. MAXOPS
  BY <1>1, <1>2
<1> QED BY <1>1, <1>4, <1>5, <1>6, <1>7, <1>8, <1>9, RowInv

LEMMA ExitEndsInv ==
    ASSUME IInv, ExitEnds
    PROVE  IInv'
<1>1. PICK p, s : p = call.p /\ s = [f \in Fds |-> Unknown]
  OBVIOUS
<1>2. /\ call' = NoCall /\ Nothing /\ call.op = "exit" /\ alive' = alive \ {p}
      /\ fds' = RowSet(fds, p, StdFds) /\ wbuf' = wbuf /\ opened' = RowSet(opened, p, s)
      /\ \A f \in Fds : fds[p][f].kind # "WRITE"
      /\ UNCHANGED store /\ faults' = faults /\ ops' = ops
  BY <1>1 DEF ExitEnds, RowSet
<1>3. /\ fds \in Grid(Descriptor) /\ Counts(fds, wbuf)
      /\ wbuf \in [Wbufs -> Buffer] /\ alive \subseteq Procs /\ ops \in 0 .. MAXOPS
  BY DEF IInv, Types
<1>4. p \in Procs
  BY <1>1, <1>2, <1>3 DEF IInv, CallSound
<1>5. s \in [Fds -> Handle] /\ \A f \in Fds : s[f] = Unknown
  BY <1>1, Constants
<1>6. StdFds \in [Fds -> Descriptor] /\ \A f \in Fds : StdFds[f].kind # "WRITE"
  BY Constants
<1>7. \A f \in Fds : Keeps(fat, data, dir, StdFds[f], s[f])
  BY <1>5, Constants DEF Keeps
<1>8. Counts(fds', wbuf') /\ wbuf' \in [Wbufs -> Buffer]
  <2>1. \A f \in Fds : StdFds[f].kind # "WRITE" /\ fds[p][f].kind # "WRITE"
    BY <1>2, <1>6
  <2> QED BY <1>2, <1>3, <1>4, <2>1, PlainRow
<1>9. /\ \A f \in Fds : StdFds[f].kind # "WRITE" /\ s[f] = Unknown
      /\ alive' \subseteq Procs /\ alive \ {p} \subseteq alive' /\ ops' \in 0 .. MAXOPS
  BY <1>2, <1>3, <1>5, <1>6
<1> QED BY <1>2, <1>4, <1>5, <1>6, <1>7, <1>8, <1>9, RowInv

\* process_fork copies the table, and each copy counts.
LEMMA ForkInv ==
    ASSUME IInv, NEW p \in Procs, NEW c \in Procs, process_fork(p, c)
    PROVE  IInv'
<1>1. /\ call' = NoCall /\ Nothing /\ Counted /\ p \in alive /\ c \notin alive
      /\ alive' = alive \cup {c} /\ fds' = RowSet(fds, c, fds[p])
      /\ opened' = RowSet(opened, c, opened[p]) /\ UNCHANGED store /\ faults' = faults
  BY DEF process_fork, Idle, RowSet
<1>2. wbuf' = [w \in Wbufs |->
                 [wbuf[w] EXCEPT !.refcount = wbuf[w].refcount + Cardinality(RowUses(fds[p], w))]]
  BY DEF process_fork, RowUses, Uses
<1>3. /\ fds \in Grid(Descriptor) /\ opened \in Grid(Handle) /\ Counts(fds, wbuf)
      /\ wbuf \in [Wbufs -> Buffer] /\ alive \subseteq Procs
  BY DEF IInv, Types
<1>4. fds[p] \in [Fds -> Descriptor] /\ opened[p] \in [Fds -> Handle]
  BY <1>3 DEF Grid
<1>5. \A f \in Fds : Keeps(fat, data, dir, fds[p][f], opened[p][f])
  BY DEF IInv, Handles
<1>6. ASSUME NEW w \in Wbufs
      PROVE  wbuf'[w] \in Buffer /\ Exact(wbuf'[w], Tally(fds', w))
  <2>1. PICK x, n, k : x = wbuf[w] /\ n = Tally(fds, w) /\ k = Cardinality(RowUses(fds[p], w))
    OBVIOUS
  <2>2. x \in Buffer /\ Exact(x, n) /\ n \in Nat
    BY <1>3, <2>1, UsersMember DEF Counts
  <2>3. RowUses(fds[p], w) \in SUBSET Fds
    BY DEF RowUses
  <2>4. IsFiniteSet(RowUses(fds[p], w))
    <3>1. IsFiniteSet(Fds)
      BY FS_Interval, FilesAssumption DEF Fds
    <3> QED BY <2>3, <3>1, FS_Subset
  <2>5. k \in Nat /\ (k = 0 <=> RowUses(fds[p], w) = {})
    BY <2>1, <2>4, FS_CardinalityType, FS_EmptySet
  <2>6. k # 0 => n # 0
    <3>1. HAVE k # 0
    <3>2. PICK f \in Fds : Uses(fds[p][f], w)
      BY <2>5, <3>1 DEF RowUses
    <3> QED BY <2>1, <3>2, UsersMember
  <2>7. Tally(fds', w) = n + k
    <3>1. RowUses(fds[c], w) = {}
      BY <1>1 DEF RowUses, Uses, IInv, DeadEmpty
    <3>2. PICK r : r = fds[p]
      OBVIOUS
    <3>3. Tally(RowSet(fds, c, r), w) = Tally(fds, w) + Cardinality(RowUses(r, w))
      BY <1>3, <3>1, TallyRow
    <3> QED BY <1>1, <2>1, <3>2, <3>3
  <2>8. wbuf'[w] = [x EXCEPT !.refcount = x.refcount + k]
    BY <1>2, <2>1
  <2>9. x.refcount = n
    BY <2>2 DEF Exact
  <2>10. n + k \in Nat
    BY <2>2, <2>5
  <2>11. wbuf'[w] = [x EXCEPT !.refcount = n + k]
    BY <2>8, <2>9
  <2>12. /\ wbuf'[w] \in Buffer /\ wbuf'[w].refcount = n + k /\ wbuf'[w].path = x.path
    BY <2>2, <2>10, <2>11 DEF Buffer
  <2>13. CASE n # 0
    <3>1. n + k # 0 /\ x.path \in Paths
      BY <2>2, <2>5, <2>13 DEF Exact
    <3> QED BY <2>7, <2>12, <3>1 DEF Exact
  <2>14. CASE n = 0
    <3>1. k = 0 /\ n + k = 0
      BY <2>5, <2>6, <2>14
    <3>2. wbuf'[w] = x
      BY <2>2, <2>9, <2>11, <2>14, <3>1 DEF Buffer
    <3> QED BY <2>2, <2>7, <2>12, <2>14, <3>1, <3>2
  <2> QED BY <2>13, <2>14
<1>7. wbuf' \in [Wbufs -> Buffer]
  <2>1. \A w \in Wbufs : wbuf'[w] \in Buffer
    BY <1>6
  <2>2. wbuf' = [w \in Wbufs |-> wbuf'[w]]
    BY <1>2
  <2> QED BY <2>1, <2>2
<1>8. Counts(fds', wbuf')
  <2>1. fds'[c] = fds[p] /\ \A q \in Procs : q # c => fds'[q] = fds[q]
    BY <1>1, <1>3, RowFacts
  <2>2. \A q \in Procs, f \in Fds : fds'[q][f].kind = "WRITE" => fds'[q][f].wbuf \in Wbufs
    BY <1>3, <2>1 DEF Counts
  <2> QED BY <1>6, <2>2 DEF Counts
<1>9. /\ c \in alive' /\ alive' \subseteq Procs /\ alive \ {c} \subseteq alive'
      /\ ops' \in 0 .. MAXOPS
  BY <1>1, <1>3, CountedType DEF IInv
<1>10. PICK r, s : r = fds[p] /\ s = opened[p]
  OBVIOUS
<1>11. /\ r \in [Fds -> Descriptor] /\ fds' = RowSet(fds, c, r)
       /\ s \in [Fds -> Handle] /\ opened' = RowSet(opened, c, s)
       /\ \A f \in Fds : Keeps(fat, data, dir, r[f], s[f])
  BY <1>1, <1>4, <1>5, <1>10
<1> QED BY <1>1, <1>7, <1>8, <1>9, <1>11, RowInv
-----------------------------------------------------------------------------
(* One turn of the loop of file_read *)

Match(x, off, b, pos, n) == \A i \in 1 .. n : x[off + i] = b[pos + i]

\* Bytes of x put after a part of b make a longer part of b.
Continues(b, from, pos, x, off, n) ==
    SubSeq(b, from + 1, pos) \o SubSeq(x, off + 1, off + n) = SubSeq(b, from + 1, pos + n)

\* Copying on from where a part of b ends gives a longer part of b.
LEMMA Joined ==
    ASSUME NEW b \in Seq(Content), NEW x \in Seq(Content), NEW from \in Nat, NEW pos \in Nat,
           NEW off \in Nat, NEW n \in Nat, from <= pos, pos + n <= Len(b), off + n <= Len(x),
           Match(x, off, b, pos, n)
    PROVE  Continues(b, from, pos, x, off, n)
<1>1. PICK v, w : v = SubSeq(x, off + 1, off + n) /\ w = SubSeq(b, pos + 1, pos + n)
  OBVIOUS
<1>2. v \in Seq(Content) /\ Len(v) = n /\ \A i \in 1 .. n : v[i] = x[off + i]
  <2>1. \A i \in off + 1 .. off + n : x[i] \in Content
    OBVIOUS
  <2>2. PICK k, l : k = off + 1 /\ l = off + n /\ k \in Int /\ l \in Int
    OBVIOUS
  <2>3. /\ SubSeq(x, k, l) \in Seq(Content) /\ Len(SubSeq(x, k, l)) = IF k <= l THEN l - k + 1 ELSE 0
        /\ \A i \in 1 .. l - k + 1 : SubSeq(x, k, l)[i] = x[k + i - 1]
    BY <2>1, <2>2, SubSeqProperties
  <2>4. l - k + 1 = n /\ (~(k <= l) => n = 0) /\ \A i \in 1 .. n : k + i - 1 = off + i
    BY <2>2
  <2> QED BY <1>1, <2>2, <2>3, <2>4
<1>3. w \in Seq(Content) /\ Len(w) = n /\ \A i \in 1 .. n : w[i] = b[pos + i]
  <2>1. \A i \in pos + 1 .. pos + n : b[i] \in Content
    OBVIOUS
  <2>2. PICK k, l : k = pos + 1 /\ l = pos + n /\ k \in Int /\ l \in Int
    OBVIOUS
  <2>3. /\ SubSeq(b, k, l) \in Seq(Content) /\ Len(SubSeq(b, k, l)) = IF k <= l THEN l - k + 1 ELSE 0
        /\ \A i \in 1 .. l - k + 1 : SubSeq(b, k, l)[i] = b[k + i - 1]
    BY <2>1, <2>2, SubSeqProperties
  <2>4. l - k + 1 = n /\ (~(k <= l) => n = 0) /\ \A i \in 1 .. n : k + i - 1 = pos + i
    BY <2>2
  <2> QED BY <1>1, <2>2, <2>3, <2>4
<1>4. v = w
  <2>1. Len(v) = Len(w) /\ \A i \in 1 .. Len(v) : v[i] = w[i]
    BY <1>2, <1>3 DEF Match
  <2> QED BY <1>2, <1>3, <2>1, SeqEqual
<1>5. SubSeq(b, from + 1, pos) \o w = SubSeq(b, from + 1, pos + n)
  <2>1. PICK m, l : m = from + 1 /\ l = pos + n
    OBVIOUS
  <2>2. m \in 1 .. Len(b) + 1 /\ pos \in m - 1 .. Len(b) /\ l \in pos .. Len(b)
    BY <2>1
  <2>3. SubSeq(b, m, pos) \o SubSeq(b, pos + 1, l) = SubSeq(b, m, l)
    BY <2>2, ConcatAdjacentSubSeq
  <2> QED BY <1>1, <2>1, <2>3
<1> QED BY <1>1, <1>4, <1>5 DEF Continues

\* The bytes of a file from a position to the end of its cluster are together.
LEMMA ClusterMatches ==
    ASSUME NEW t, NEW x, NEW e, Linked(t, e), NEW pos \in Nat, NEW n \in Nat,
           pos + n <= e.size, (pos % CLUSTER_BYTES) + n <= CLUSTER_BYTES
    PROVE  Match(x[Walk(t, e.first, 0)[pos \div CLUSTER_BYTES]], pos % CLUSTER_BYTES,
                 Text(t, x, e), pos, n)
<1>1. PICK w, y, q, r : /\ w = Walk(t, e.first, 0) /\ y = Text(t, x, e)
                        /\ q = pos \div CLUSTER_BYTES /\ r = pos % CLUSTER_BYTES
  OBVIOUS
<1>2. CLUSTER_BYTES \in Nat \ {0} /\ q \in Nat /\ r \in 0 .. CLUSTER_BYTES - 1
      /\ r + n <= CLUSTER_BYTES
  <2>1. CLUSTER_BYTES \in Nat \ {0}
    BY Sizes
  <2>2. q \in Nat /\ r \in 0 .. CLUSTER_BYTES - 1
    BY <1>1, <2>1, Division
  <2>3. r + n <= CLUSTER_BYTES
    BY <1>1
  <2> QED BY <2>1, <2>2, <2>3
<1>3. e.size \in Nat
  BY DEF Linked
<1>4. ASSUME NEW i \in 1 .. n PROVE x[w[q]][r + i] = y[pos + i]
  <2>1. PICK k \in Nat : i = k + 1 /\ k < n
    <3>1. i - 1 \in Nat /\ i = (i - 1) + 1 /\ i - 1 < n
      OBVIOUS
    <3> QED BY <3>1
  <2>2. (pos % CLUSTER_BYTES) + k < CLUSTER_BYTES
    BY <1>1, <1>2, <2>1
  <2>3. (pos + k) \div CLUSTER_BYTES = q /\ (pos + k) % CLUSTER_BYTES = r + k
    BY <1>1, <2>2, StepWithin
  <2>4. PICK m : m = pos + i
    OBVIOUS
  <2>5. m \in 1 .. e.size /\ m - 1 = pos + k
    BY <1>3, <2>1, <2>4
  <2>6. y[m] = x[w[(m - 1) \div CLUSTER_BYTES]][1 + ((m - 1) % CLUSTER_BYTES)]
    BY <1>1, <2>5 DEF Text
  <2>7. y[m] = x[w[q]][1 + (r + k)]
    BY <2>3, <2>5, <2>6
  <2>8. 1 + (r + k) = r + i
    BY <1>2, <2>1
  <2> QED BY <2>4, <2>7, <2>8
<1> QED BY <1>1, <1>4 DEF Match

\* The descriptor after n bytes of its cluster.
LEMMA AdvancedFacts ==
    ASSUME NEW d \in Descriptor, NEW n \in Nat \ {0}, d.cluster_offset + n <= CLUSTER_BYTES,
           NEW c \in Place
    PROVE  /\ Advanced(d, n, c) \in Descriptor
           /\ Advanced(d, n, c).kind = d.kind /\ Advanced(d, n, c).size = d.size
           /\ Advanced(d, n, c).first_cluster = d.first_cluster
           /\ Advanced(d, n, c).pos = d.pos + n
           /\ d.cluster_offset + n = CLUSTER_BYTES =>
                /\ Advanced(d, n, c).cluster_offset = 0 /\ Advanced(d, n, c).cur_cluster = c
           /\ d.cluster_offset + n # CLUSTER_BYTES =>
                /\ Advanced(d, n, c).cluster_offset = d.cluster_offset + n
                /\ Advanced(d, n, c).cur_cluster = d.cur_cluster
<1>1. PICK off, pos, m : off = d.cluster_offset /\ pos = d.pos /\ m = CLUSTER_BYTES
  OBVIOUS
<1>2. /\ m \in Nat \ {0} /\ off \in 0 .. m - 1 /\ pos \in Nat /\ off + n <= m
  BY <1>1, Sizes DEF Descriptor
<1>3. pos + n \in Nat /\ (off + n >= m <=> off + n = m) /\ 0 \in 0 .. m - 1
      /\ (off + n # m => off + n \in 0 .. m - 1)
  BY <1>2
<1>4. c \in Cluster \cup {0, EOC}
  BY DEF Place
<1>5. CASE off + n = m
  <2>1. PICK e : e = [d EXCEPT !.pos = pos + n, !.cur_cluster = c, !.cluster_offset = 0]
    OBVIOUS
  <2>2. Advanced(d, n, c) = e
    BY <1>1, <1>3, <1>5, <2>1 DEF Advanced
  <2>3. /\ e.kind = d.kind /\ e.size = d.size /\ e.first_cluster = d.first_cluster
        /\ e.pos = pos + n /\ e.cluster_offset = 0 /\ e.cur_cluster = c
    BY <2>1 DEF Descriptor
  <2>4. 0 \in 0 .. CLUSTER_BYTES - 1
    BY Sizes
  <2>5. e \in Descriptor
    BY <1>3, <1>4, <2>1, <2>4 DEF Descriptor
  <2> QED BY <1>1, <1>5, <2>2, <2>3, <2>5
<1>6. CASE off + n # m
  <2>1. PICK e, k : k = off + n /\ e = [d EXCEPT !.pos = pos + n, !.cluster_offset = k]
    OBVIOUS
  <2>2. Advanced(d, n, c) = e
    <3>1. ~(d.cluster_offset + n >= CLUSTER_BYTES)
      BY <1>1, <1>3, <1>6
    <3> QED BY <1>1, <2>1, <3>1 DEF Advanced
  <2>3. /\ e.kind = d.kind /\ e.size = d.size /\ e.first_cluster = d.first_cluster
        /\ e.pos = pos + n /\ e.cluster_offset = k /\ e.cur_cluster = d.cur_cluster
    BY <2>1 DEF Descriptor
  <2>4. k \in 0 .. CLUSTER_BYTES - 1
    BY <1>1, <1>3, <1>6, <2>1
  <2>5. e \in Descriptor
    BY <1>3, <2>1, <2>4 DEF Descriptor
  <2> QED BY <1>1, <1>6, <2>1, <2>2, <2>3, <2>5
<1> QED BY <1>5, <1>6

\* The cached place follows the position.
LEMMA PlaceAdvances ==
    ASSUME NEW t \in [Cluster -> Place], NEW e, e.first \in Place, NEW pos \in Nat,
           NEW n \in Nat \ {0}, (pos % CLUSTER_BYTES) + n <= CLUSTER_BYTES,
           Walk(t, e.first, 0)[pos \div CLUSTER_BYTES] \in Cluster
    PROVE  /\ (pos % CLUSTER_BYTES) + n = CLUSTER_BYTES =>
                /\ (pos + n) % CLUSTER_BYTES = 0
                /\ Walk(t, e.first, 0)[(pos + n) \div CLUSTER_BYTES] =
                     t[Walk(t, e.first, 0)[pos \div CLUSTER_BYTES]]
           /\ (pos % CLUSTER_BYTES) + n # CLUSTER_BYTES =>
                /\ (pos + n) % CLUSTER_BYTES = (pos % CLUSTER_BYTES) + n
                /\ Walk(t, e.first, 0)[(pos + n) \div CLUSTER_BYTES] =
                     Walk(t, e.first, 0)[pos \div CLUSTER_BYTES]
<1>1. PICK w, c, q, r : /\ c = e.first /\ w = Walk(t, e.first, 0)
                        /\ q = pos \div CLUSTER_BYTES /\ r = pos % CLUSTER_BYTES
  OBVIOUS
<1>2. CLUSTER_BYTES \in Nat \ {0}
  BY Sizes
<1>3. q \in Nat /\ r \in 0 .. CLUSTER_BYTES - 1
  BY <1>1, <1>2, Division
<1>4. Goes(w, t, c, 0)
  BY <1>1, WalkFacts
<1>5. w[q + 1] = t[w[q]]
  <2>1. w[q] \in Cluster /\ w[q] # EOC /\ q + 1 # 0
    BY <1>1, <1>3, Sizes
  <2> QED BY <1>3, <1>4, <2>1 DEF Goes
<1>6. (pos % CLUSTER_BYTES) + n = CLUSTER_BYTES =>
        (pos + n) \div CLUSTER_BYTES = q + 1 /\ (pos + n) % CLUSTER_BYTES = 0
  BY <1>1, StepAcross
<1>7. (pos % CLUSTER_BYTES) + n # CLUSTER_BYTES =>
        (pos + n) \div CLUSTER_BYTES = q /\ (pos + n) % CLUSTER_BYTES = r + n
  <2>1. HAVE (pos % CLUSTER_BYTES) + n # CLUSTER_BYTES
  <2>2. r + n < CLUSTER_BYTES
    BY <1>1, <1>2, <1>3, <2>1
  <2> QED BY <1>1, <2>2, StepWithin
<1> QED BY <1>1, <1>5, <1>6, <1>7

\* What a turn copies, and how much.
LEMMA TurnFacts ==
    ASSUME IInv, call.op = "read", MoreToRead
    PROVE  /\ call.p \in Procs /\ call.p \in alive /\ call.fd \in Fds /\ Current \in Descriptor
           /\ Current.cur_cluster \in Cluster /\ ThisTurn \in Nat \ {0}
           /\ Len(call.got) + ThisTurn <= call.len
           /\ Current.cluster_offset + ThisTurn <= CLUSTER_BYTES
           /\ Current.pos + ThisTurn <= Current.size
           /\ data[Current.cur_cluster] \in Seq(Content)
           /\ Len(data[Current.cur_cluster]) = CLUSTER_BYTES
           /\ Copied(Current, ThisTurn) \in Seq(Content)
           /\ Len(Copied(Current, ThisTurn)) = ThisTurn
<1>1. call.p \in Procs /\ call.p \in alive /\ call.fd \in Fds
  BY DEF IInv, Types, CallSound, Call
<1>2. Current \in Descriptor
  BY <1>1 DEF IInv, Types, Grid, Current
<1>3. PICK g, len, off, pos, size, m :
        /\ g = Len(call.got) /\ len = call.len /\ off = Current.cluster_offset
        /\ pos = Current.pos /\ size = Current.size /\ m = CLUSTER_BYTES
  OBVIOUS
<1>4. g \in Nat /\ len \in Nat
  BY <1>3 DEF IInv, Types, Call
<1>5. m \in Nat \ {0} /\ off \in 0 .. m - 1 /\ pos \in Nat /\ size \in Nat
  BY <1>2, <1>3, Sizes DEF Descriptor
<1>6. g < len /\ pos < size
  BY <1>3 DEF MoreToRead
<1>7. PICK n : n = ThisTurn
  OBVIOUS
<1>8. n = Least(Least(len - g, m - off), size - pos)
  BY <1>3, <1>7 DEF ThisTurn
<1>9. n \in Nat \ {0} /\ g + n <= len /\ off + n <= m /\ pos + n <= size
  BY <1>4, <1>5, <1>6, <1>8 DEF Least
<1>10. Current.cur_cluster \in Cluster
  <2>1. Current.cur_cluster \in Place
    BY <1>2 DEF Descriptor, Place
  <2> QED BY <2>1, Sizes DEF MoreToRead
<1>11. PICK x : x = data[Current.cur_cluster]
  OBVIOUS
<1>12. x \in Seq(Content) /\ Len(x) = m
  <2>1. x \in [1 .. CLUSTER_BYTES -> Content]
    BY <1>10, <1>11 DEF IInv, DiskOK, Block
  <2> QED BY <1>3, <1>5, <2>1
<1>13. SubSeq(x, off + 1, off + n) \in Seq(Content) /\ Len(SubSeq(x, off + 1, off + n)) = n
  <2>1. PICK k, l : k = off + 1 /\ l = off + n /\ k \in Int /\ l \in Int
    BY <1>5, <1>9
  <2>2. \A i \in k .. l : x[i] \in Content
    BY <1>5, <1>9, <1>12, <2>1
  <2>3. SubSeq(x, k, l) \in Seq(Content) /\ Len(SubSeq(x, k, l)) = IF k <= l THEN l - k + 1 ELSE 0
    BY <2>1, <2>2, SubSeqProperties
  <2>4. k <= l /\ l - k + 1 = n
    BY <1>5, <1>9, <2>1
  <2> QED BY <2>1, <2>3, <2>4
<1>14. Copied(Current, n) = SubSeq(x, off + 1, off + n)
  BY <1>3, <1>11 DEF Copied
<1> QED BY <1>1, <1>2, <1>3, <1>7, <1>9, <1>10, <1>11, <1>12, <1>13, <1>14

LEMMA ReadTurnInv ==
    ASSUME IInv, ReadTurn
    PROVE  IInv'
<1>1. PICK p, f, d, o, n : /\ p = call.p /\ f = call.fd /\ d = Current /\ n = ThisTurn
                           /\ o = opened[call.p][call.fd]
  OBVIOUS
<1>2. /\ call.op = "read" /\ MoreToRead /\ call' = [call EXCEPT !.got = call.got \o Copied(d, n)]
      /\ UNCHANGED <<store, alive, wbuf, returned, ops>>
  BY <1>1 DEF ReadTurn
<1>3. \/ /\ fds' = [fds EXCEPT ![p][f] = Advanced(d, n, NextCluster(d.cur_cluster))]
         /\ UNCHANGED <<opened, faults>>
      \/ /\ d.cluster_offset + n >= CLUSTER_BYTES /\ Fault
         /\ fds' = [fds EXCEPT ![p][f] = Advanced(d, n, 0)]
         /\ opened' = [opened EXCEPT ![p][f].cut = (o.name # NULL)]
  BY <1>1 DEF ReadTurn
<1>4. /\ p \in Procs /\ p \in alive /\ f \in Fds /\ d \in Descriptor
      /\ d.cur_cluster \in Cluster /\ n \in Nat \ {0}
      /\ Len(call.got) + n <= call.len /\ d.cluster_offset + n <= CLUSTER_BYTES
      /\ d.pos + n <= d.size
      /\ data[d.cur_cluster] \in Seq(Content) /\ Len(data[d.cur_cluster]) = CLUSTER_BYTES
      /\ Copied(d, n) \in Seq(Content) /\ Len(Copied(d, n)) = n
  BY <1>1, <1>2, TurnFacts
<1>5. /\ call \in Call /\ fds \in Grid(Descriptor) /\ opened \in Grid(Handle)
      /\ wbuf \in [Wbufs -> Buffer] /\ Counts(fds, wbuf) /\ DiskOK(fat, data, dir)
      /\ fat \in [Cluster -> Place]
      /\ faults \in 0 .. MAXFAULTS /\ ops \in 0 .. MAXOPS /\ CallSound /\ Handles /\ ShortOnlyAtEnd
  BY DEF IInv, Types, DiskOK
<1>6. d = fds[p][f] /\ o = opened[p][f]
  BY <1>1 DEF Current
<1>7. o \in Handle /\ Keeps(fat, data, dir, d, o)
  BY <1>4, <1>5, <1>6 DEF Grid, Handles
<1>8. o.name # NULL => ~o.cut
  BY <1>4, <1>7 DEF Keeps
<1>9. fat' = fat /\ data' = data /\ dir' = dir /\ Replaced({}) /\ opened = Outdated({})
  BY <1>2, NothingReplaced
<1>10. PICK c, u : /\ c \in Place /\ fds' = SlotSet(fds, p, f, Advanced(d, n, c))
                   /\ u \in Handle /\ opened' = SlotSet(opened, p, f, u)
                   /\ u.name = o.name /\ u.bytes = o.bytes /\ (o.name = NULL => u = Unknown)
                   /\ o.name # NULL /\ ~u.cut => c = fat[d.cur_cluster]
                   /\ o.name # NULL /\ u.cut =>
                        c = 0 /\ d.cluster_offset + n >= CLUSTER_BYTES
                   /\ faults' \in 0 .. MAXFAULTS
  <2>1. CASE /\ fds' = [fds EXCEPT ![p][f] = Advanced(d, n, NextCluster(d.cur_cluster))]
             /\ UNCHANGED <<opened, faults>>
    <3>1. PICK c : c = fat[d.cur_cluster]
      OBVIOUS
    <3>2. c \in Place /\ NextCluster(d.cur_cluster) = c
      BY <1>4, <1>5, <3>1 DEF NextCluster
    <3>3. fds' = SlotSet(fds, p, f, Advanced(d, n, c))
      BY <2>1, <3>2 DEF SlotSet
    <3>4. opened' = SlotSet(opened, p, f, o)
      BY <1>4, <1>5, <1>6, <2>1 DEF SlotSet, Grid
    <3>5. o.name = NULL => o = Unknown
      BY <1>7 DEF Keeps
    <3>6. faults' \in 0 .. MAXFAULTS
      BY <1>5, <2>1
    <3> QED BY <1>7, <1>8, <3>1, <3>2, <3>3, <3>4, <3>5, <3>6
  <2>2. CASE /\ d.cluster_offset + n >= CLUSTER_BYTES /\ Fault
             /\ fds' = [fds EXCEPT ![p][f] = Advanced(d, n, 0)]
             /\ opened' = [opened EXCEPT ![p][f].cut = (o.name # NULL)]
    <3>1. PICK u : u = [o EXCEPT !.cut = (o.name # NULL)]
      OBVIOUS
    <3>2. /\ u \in Handle /\ u.name = o.name /\ u.bytes = o.bytes /\ (u.cut <=> o.name # NULL)
      BY <1>7, <3>1 DEF Handle
    <3>3. opened' = SlotSet(opened, p, f, u)
      BY <1>6, <2>2, <3>1 DEF SlotSet
    <3>4. o.name = NULL => u = Unknown
      <4>1. HAVE o.name = NULL
      <4>2. o = Unknown
        BY <1>7, <4>1 DEF Keeps
      <4>3. o.bytes = << >>
        BY <4>2 DEF Unknown
      <4>4. u.cut = FALSE
        BY <3>2, <4>1 DEF Handle
      <4>5. u = [name |-> u.name, bytes |-> u.bytes, cut |-> u.cut]
        BY <3>2 DEF Handle
      <4> QED BY <3>2, <4>1, <4>3, <4>4, <4>5 DEF Unknown
    <3>5. fds' = SlotSet(fds, p, f, Advanced(d, n, 0)) /\ 0 \in Place
      BY <2>2 DEF SlotSet, Place
    <3>6. faults' \in 0 .. MAXFAULTS
      <4>1. MAXFAULTS \in Nat /\ faults < MAXFAULTS /\ faults' = faults + 1
        BY <2>2, FilesAssumption DEF Fault
      <4> QED BY <1>5, <4>1
    <3> QED BY <2>2, <3>2, <3>3, <3>4, <3>5, <3>6
  <2> QED BY <1>3, <2>1, <2>2
<1>11. PICK e : e = Advanced(d, n, c)
  OBVIOUS
<1>12. /\ e \in Descriptor /\ e.kind = d.kind /\ e.size = d.size
       /\ e.first_cluster = d.first_cluster /\ e.pos = d.pos + n
       /\ d.cluster_offset + n = CLUSTER_BYTES => e.cluster_offset = 0 /\ e.cur_cluster = c
       /\ d.cluster_offset + n # CLUSTER_BYTES =>
            e.cluster_offset = d.cluster_offset + n /\ e.cur_cluster = d.cur_cluster
  BY <1>4, <1>10, <1>11, AdvancedFacts
<1>13. d.pos \in Nat /\ d.kind = "READ" /\ d.cluster_offset \in Nat /\ CLUSTER_BYTES \in Nat
  <2>1. d.kind = "READ"
    BY <1>1, <1>2, <1>5, <1>6 DEF CallSound
  <2>2. d.pos \in Nat /\ d.cluster_offset \in Nat
    BY <1>4, Sizes DEF Descriptor
  <2> QED BY <2>1, <2>2, Sizes
<1>14. Keeps(fat, data, dir, e, u)
  <2>1. CASE o.name = NULL
    BY <1>10, <2>1, Constants DEF Keeps
  <2>2. CASE o.name # NULL
    <3>1. PICK x : x = dir[o.name]
      OBVIOUS
    <3>2. /\ x # NoEntry /\ d.size = x.size /\ d.first_cluster = x.first
          /\ o.bytes = Text(fat, data, x) /\ d.cluster_offset = d.pos % CLUSTER_BYTES
          /\ d.cur_cluster = Walk(fat, x.first, 0)[d.pos \div CLUSTER_BYTES]
      BY <1>7, <1>8, <2>2, <3>1 DEF Keeps
    <3>3. x.first \in Place
      BY <1>4, <3>2 DEF Descriptor, Place
    <3>4. PICK pos \in Nat : pos = d.pos
      BY <1>13
    <3>5. /\ (pos % CLUSTER_BYTES) + n <= CLUSTER_BYTES
          /\ Walk(fat, x.first, 0)[pos \div CLUSTER_BYTES] \in Cluster
      BY <1>4, <3>2, <3>4
    <3>6. /\ (pos % CLUSTER_BYTES) + n = CLUSTER_BYTES =>
               /\ (pos + n) % CLUSTER_BYTES = 0
               /\ Walk(fat, x.first, 0)[(pos + n) \div CLUSTER_BYTES] =
                    fat[Walk(fat, x.first, 0)[pos \div CLUSTER_BYTES]]
          /\ (pos % CLUSTER_BYTES) + n # CLUSTER_BYTES =>
               /\ (pos + n) % CLUSTER_BYTES = (pos % CLUSTER_BYTES) + n
               /\ Walk(fat, x.first, 0)[(pos + n) \div CLUSTER_BYTES] =
                    Walk(fat, x.first, 0)[pos \div CLUSTER_BYTES]
      BY <1>4, <1>5, <3>3, <3>5, PlaceAdvances
    <3>7. /\ d.cluster_offset + n = CLUSTER_BYTES =>
               /\ (d.pos + n) % CLUSTER_BYTES = 0
               /\ Walk(fat, x.first, 0)[(d.pos + n) \div CLUSTER_BYTES] = fat[d.cur_cluster]
          /\ d.cluster_offset + n # CLUSTER_BYTES =>
               /\ (d.pos + n) % CLUSTER_BYTES = d.cluster_offset + n
               /\ Walk(fat, x.first, 0)[(d.pos + n) \div CLUSTER_BYTES] = d.cur_cluster
      BY <3>2, <3>4, <3>6
    <3>8. e.cluster_offset = e.pos % CLUSTER_BYTES
      BY <1>12, <3>7
    <3>9. ~u.cut => e.cur_cluster = Walk(fat, x.first, 0)[e.pos \div CLUSTER_BYTES]
      BY <1>10, <1>12, <2>2, <3>7
    <3>10. u.cut => e.cur_cluster \notin Cluster
      <4>1. HAVE u.cut
      <4>2. c = 0 /\ d.cluster_offset + n = CLUSTER_BYTES
        <5>1. c = 0 /\ d.cluster_offset + n >= CLUSTER_BYTES
          BY <1>10, <2>2, <4>1
        <5>2. PICK a \in Nat, m \in Nat : a = d.cluster_offset /\ m = CLUSTER_BYTES
          BY <1>13
        <5>3. a + n >= m /\ a + n <= m
          BY <1>4, <5>1, <5>2
        <5>4. a + n = m
          BY <1>4, <5>3
        <5> QED BY <5>1, <5>2, <5>4
      <4>3. 0 \notin Cluster
        BY Sizes
      <4> QED BY <1>12, <4>2, <4>3
    <3>11. e.kind = "READ" /\ e.size = x.size /\ e.first_cluster = x.first /\ u.bytes = Text(fat, data, x)
      BY <1>10, <1>12, <1>13, <3>2
    <3> QED BY <1>10, <2>2, <3>1, <3>2, <3>8, <3>9, <3>10, <3>11 DEF Keeps
  <2> QED BY <2>1, <2>2
<1>15. PICK got, new : got = call.got /\ new = call.got \o Copied(d, n)
  OBVIOUS
<1>16. /\ got \in Seq(Content) /\ new \in Seq(Content) /\ Len(new) = Len(got) + n
       /\ Len(got) \in Nat
  <2>1. got \in Seq(Content) /\ Len(got) \in Nat
    BY <1>5, <1>15 DEF Call
  <2>2. PICK v \in Seq(Content) : v = Copied(d, n) /\ Len(v) = n
    BY <1>4
  <2>3. got \o v \in Seq(Content) /\ Len(got \o v) = Len(got) + Len(v)
    BY <2>1, ConcatProperties
  <2> QED BY <1>15, <2>1, <2>2, <2>3
<1>17. /\ call' \in Call /\ call'.op = "read" /\ call'.p = p /\ call'.fd = f
       /\ call'.len = call.len /\ call'.from = call.from /\ call'.got = new
  <2>1. call' = [call EXCEPT !.got = new]
    BY <1>2, <1>15
  <2> QED BY <1>1, <1>2, <1>5, <1>16, <2>1 DEF Call
<1>18. fds'[p][f] = e /\ opened'[p][f] = u
  BY <1>4, <1>5, <1>10, <1>11, SlotFacts
<1>19. /\ call.len > 0 /\ call.from + Len(got) = d.pos
       /\ o.name # NULL => got = SubSeq(o.bytes, call.from + 1, d.pos)
  BY <1>1, <1>2, <1>5, <1>6, <1>15 DEF CallSound
<1>20. /\ call.from + Len(new) = e.pos /\ Len(new) <= call.len /\ e.pos <= e.size
  <2>1. call.from \in Nat
    BY <1>5 DEF Call
  <2>2. call.from + Len(new) = e.pos
    BY <1>4, <1>12, <1>13, <1>16, <1>19, <2>1
  <2> QED BY <1>4, <1>12, <1>15, <1>16, <2>2
<1>21. o.name # NULL => new = SubSeq(o.bytes, call.from + 1, e.pos)
  <2>1. HAVE o.name # NULL
  <2>2. PICK nm \in Names : nm = o.name
    BY <1>7, <2>1 DEF Handle
  <2>3. PICK x, b, y : x = dir[nm] /\ b = o.bytes /\ y = data[d.cur_cluster]
    OBVIOUS
  <2>4. /\ x # NoEntry /\ d.size = x.size /\ b = Text(fat, data, x)
        /\ d.cluster_offset = d.pos % CLUSTER_BYTES
        /\ d.cur_cluster = Walk(fat, x.first, 0)[d.pos \div CLUSTER_BYTES]
    BY <1>7, <1>8, <2>1, <2>2, <2>3 DEF Keeps
  <2>5. b \in Seq(Content) /\ Len(b) = x.size /\ Linked(fat, x)
    BY <1>5, <2>2, <2>3, <2>4, TextFacts
  <2>6. PICK pos \in Nat, off \in Nat, from \in Nat :
           pos = d.pos /\ off = d.cluster_offset /\ from = call.from
    BY <1>5, <1>13 DEF Call
  <2>7. pos + n <= x.size /\ (pos % CLUSTER_BYTES) + n <= CLUSTER_BYTES
    BY <1>4, <2>4, <2>6
  <2>8. Match(data[Walk(fat, x.first, 0)[pos \div CLUSTER_BYTES]], pos % CLUSTER_BYTES,
              Text(fat, data, x), pos, n)
    BY <1>4, <2>5, <2>7, ClusterMatches
  <2>9. Match(y, off, b, pos, n)
    BY <2>3, <2>4, <2>6, <2>8
  <2>10. from <= pos
    BY <1>13, <1>16, <1>19, <2>6
  <2>11. y \in Seq(Content) /\ off + n <= Len(y) /\ pos + n <= Len(b) /\ n \in Nat
    BY <1>4, <2>3, <2>5, <2>6, <2>7
  <2>12. SubSeq(b, from + 1, pos) \o SubSeq(y, off + 1, off + n) = SubSeq(b, from + 1, pos + n)
    <3>1. b \in Seq(Content) /\ y \in Seq(Content) /\ n \in Nat
      BY <2>5, <2>11
    <3>2. from <= pos /\ pos + n <= Len(b) /\ off + n <= Len(y)
      BY <2>10, <2>11
    <3>3. Continues(b, from, pos, y, off, n)
      BY <2>9, <3>1, <3>2, Joined
    <3> QED BY <3>3 DEF Continues
  <2>13. got = SubSeq(b, from + 1, pos) /\ Copied(d, n) = SubSeq(y, off + 1, off + n)
    BY <1>19, <2>1, <2>3, <2>6 DEF Copied
  <2> QED BY <1>12, <1>15, <2>3, <2>6, <2>12, <2>13
<1>22. CallSound'
  <2>1. p \in alive'
    BY <1>2, <1>4
  <2>2. e.kind = "READ"
    BY <1>12, <1>13
  <2>3. u.name # NULL => new = SubSeq(u.bytes, call.from + 1, e.pos)
    BY <1>10, <1>21
  <2> QED BY <1>17, <1>18, <1>19, <1>20, <2>1, <2>2, <2>3 DEF CallSound
<1>23. ShortOnlyAtEnd' /\ UNCHANGED alive /\ ops' \in 0 .. MAXOPS
  BY <1>2, <1>5 DEF ShortOnlyAtEnd
<1>24. Counts(fds', wbuf') /\ wbuf' \in [Wbufs -> Buffer]
  <2>1. fds[p][f].kind # "WRITE" /\ e.kind # "WRITE" /\ wbuf' = wbuf
    BY <1>2, <1>6, <1>12, <1>13
  <2> QED BY <1>4, <1>5, <1>10, <1>11, <2>1, SlotCounts
<1>25. Keeps(fat', data', dir', e, u) /\ opened' = SlotSet(Outdated({}), p, f, u)
  BY <1>9, <1>10, <1>14
<1>26. /\ fds' = SlotSet(fds, p, f, e) /\ u \in Handle /\ faults' \in 0 .. MAXFAULTS
       /\ call' \in Call
  BY <1>10, <1>11, <1>17
<1> QED BY <1>4, <1>9, <1>12, <1>22, <1>23, <1>24, <1>25, <1>26, SlotInv
-----------------------------------------------------------------------------
(* The theorems *)

LEMMA InitInv == Init => IInv
<1> SUFFICES ASSUME Init PROVE IInv
  OBVIOUS
<1>1. /\ fat = [c \in Cluster |-> 0] /\ data = [c \in Cluster |-> [i \in Block |-> 0]]
      /\ dir = [n \in Names |-> NoEntry] /\ fds = [p \in Procs |-> StdFds]
      /\ wbuf = [w \in Wbufs |-> NoWbuf] /\ call = NoCall /\ returned = NoRead
      /\ opened = [p \in Procs |-> [f \in Fds |-> Unknown]] /\ faults = 0 /\ ops = 0
      /\ alive \subseteq Procs
  BY DEF Init
<1>2. DiskOK(fat, data, dir)
  <2>1. fat \in [Cluster -> Place] /\ data \in [Cluster -> [Block -> Content]]
    BY <1>1 DEF Place, Content
  <2>2. dir \in [Names -> [first : Cluster \cup {0, NULL}, size : Nat]]
    BY <1>1 DEF NoEntry
  <2>3. Chains(fat, dir)
    BY <1>1 DEF Chains
  <2> QED BY <2>1, <2>2, <2>3 DEF DiskOK
<1>3. NoWbuf \in Buffer /\ NoWbuf.refcount = 0
  <2>1. << >> \in Seq(Bytes) /\ Len(<< >>) <= WBUF_CAP
    BY FilesAssumption
  <2> QED BY <2>1 DEF NoWbuf, Buffer
<1>4. fds \in Grid(Descriptor) /\ \A p \in Procs, f \in Fds : fds[p][f].kind # "WRITE"
  BY <1>1, Constants DEF Grid
<1>5. opened \in Grid(Handle) /\ \A p \in Procs, f \in Fds : opened[p][f] = Unknown
  BY <1>1, Constants DEF Grid
<1>6. Types
  <2>1. 0 \in 0 .. MAXFAULTS /\ 0 \in 0 .. MAXOPS
    BY FilesAssumption
  <2>2. wbuf \in [Wbufs -> Buffer] /\ call \in Call
    BY <1>1, <1>3, Constants
  <2> QED BY <1>1, <1>4, <1>5, <2>1, <2>2 DEF Types
<1>7. Handles
  BY <1>5, Constants DEF Handles, Keeps
<1>8. Counts(fds, wbuf)
  <2>1. ASSUME NEW w \in Wbufs PROVE Exact(wbuf[w], Tally(fds, w))
    <3>1. Users(fds, w) = {}
      BY <1>4 DEF Users, Uses
    <3>2. Tally(fds, w) = 0
      BY <3>1, FS_EmptySet DEF Tally
    <3>3. wbuf[w] = NoWbuf
      BY <1>1
    <3> QED BY <1>3, <3>2, <3>3 DEF Exact
  <2> QED BY <1>4, <2>1 DEF Counts
<1>9. DeadEmpty
  BY <1>4, <1>5 DEF DeadEmpty
<1>10. CallSound
  BY <1>1, Constants DEF CallSound
<1>11. ShortOnlyAtEnd
  BY <1>1 DEF ShortOnlyAtEnd
<1> QED BY <1>2, <1>6, <1>7, <1>8, <1>9, <1>10, <1>11 DEF IInv

LEMMA StepInv == IInv /\ [Next]_vars => IInv'
<1> SUFFICES ASSUME IInv, [Next]_vars PROVE IInv'
  OBVIOUS
<1>1. ASSUME NEW n \in Names, sys_rmfile(n) PROVE IInv'
  BY <1>1, RmfileInv
<1>2. ASSUME NEW n \in Names, NEW b \in WRITES, sys_writefile(n, b) PROVE IInv'
  BY <1>2, WritefileInv
<1>3. ASSUME NEW p \in Procs, NEW q \in Paths, sys_open(p, q) PROVE IInv'
  BY <1>3, OpenInv
<1>4. ASSUME NEW p \in Procs, NEW f \in Fds, NEW len \in LENS, sys_read_fd(p, f, len) PROVE IInv'
  BY <1>4, ReadInv
<1>5. ASSUME NEW p \in Procs, NEW f \in Fds, NEW o \in OFFSETS, NEW whence \in 0 .. 2,
             sys_lseek(p, f, o, whence)
      PROVE  IInv'
  BY <1>5, LseekInv
<1>6. ASSUME NEW p \in Procs, NEW f \in Fds, NEW b \in WRITES, sys_write_fd(p, f, b) PROVE IInv'
  BY <1>6, WriteInv
<1>7. ASSUME NEW p \in Procs, NEW f \in Fds, sys_close(p, f) PROVE IInv'
  BY <1>7, CloseInv
<1>8. ASSUME NEW p \in Procs, NEW f \in Fds, NEW g \in Fds, sys_dup2(p, f, g) PROVE IInv'
  BY <1>8, Dup2Inv
<1>9. CASE ReadTurn
  BY <1>9, ReadTurnInv
<1>10. CASE ReadFails
  BY <1>10, ReadFailsInv
<1>11. CASE ReadReturns
  BY <1>11, ReadReturnsInv
<1>12. CASE ExitTurn
  BY <1>12, ExitTurnInv
<1>13. CASE ExitEnds
  BY <1>13, ExitEndsInv
<1>14. ASSUME NEW p \in Procs, process_create(p) PROVE IInv'
  BY <1>14, CreateInv
<1>15. ASSUME NEW p \in Procs, process_exit(p) PROVE IInv'
  BY <1>15, ExitInv
<1>16. ASSUME NEW p \in Procs, NEW c \in Procs, process_fork(p, c) PROVE IInv'
  BY <1>16, ForkInv
<1>17. CASE UNCHANGED vars
  <2>1. /\ UNCHANGED <<store, alive, fds, wbuf, opened>> /\ call' = call /\ returned' = returned
        /\ faults' = faults /\ ops' = ops
    BY <1>17 DEF vars, store
  <2>2. CallSound' /\ ShortOnlyAtEnd'
    BY <2>1 DEF IInv, CallSound, ShortOnlyAtEnd
  <2>3. call' \in Call /\ faults' \in 0 .. MAXFAULTS /\ ops' \in 0 .. MAXOPS
    BY <2>1 DEF IInv, Types
  <2> QED BY <2>1, <2>2, <2>3, CallInv
<1>18. ASSUME NEW d \in Cwds, sys_chdir(d) PROVE IInv'
  BY <1>18, ChdirInv
<1> QED BY <1>1, <1>2, <1>3, <1>4, <1>5, <1>6, <1>7, <1>8, <1>9, <1>10, <1>11, <1>12, <1>13,
           <1>14, <1>15, <1>16, <1>17, <1>18 DEF Next

\* The inductive invariant: chains are whole, allocated and disjoint, each
\* descriptor keeps the place and the contents of the file it was opened on,
\* buffers know how many descriptors refer to them, and a read in progress has
\* got the bytes from where it began to the descriptor's position.
THEOREM Invariance == Spec => []IInv
<1>1. Init => IInv
  BY InitInv
<1>2. IInv /\ [Next]_vars => IInv'
  BY StepInv
<1> QED BY <1>1, <1>2, PTL DEF Spec

\* The current directory is one of the directories: sys_chdir alone changes it.
DirectoryKept == cwd \in Cwds

LEMMA DirectoryInv == DirectoryKept /\ [Next]_vars => DirectoryKept'
<1> SUFFICES ASSUME DirectoryKept, [Next]_vars PROVE DirectoryKept'
  OBVIOUS
<1>1. ASSUME NEW d, NEW R, Commits(d, R) PROVE cwd' = cwd
  BY <1>1 DEF Commits, Commit, Wrote, WriteFails, store
<1>2. ASSUME NEW n \in Names, NEW b \in WRITES, sys_writefile(n, b) PROVE cwd' = cwd
  BY <1>2 DEF sys_writefile, Wrote, WriteFails
<1>3. ASSUME NEW p \in Procs, NEW f \in Fds, sys_close(p, f) PROVE cwd' = cwd
  BY <1>1, <1>3 DEF sys_close
<1>4. ASSUME NEW p \in Procs, NEW f \in Fds, NEW g \in Fds, sys_dup2(p, f, g) PROVE cwd' = cwd
  BY <1>1, <1>4 DEF sys_dup2
<1>5. CASE ExitTurn
  <2>1. cwd' = cwd
    BY <1>1, <1>5 DEF ExitTurn
  <2> QED BY <2>1 DEF DirectoryKept
<1>6. ASSUME NEW d \in Cwds, sys_chdir(d) PROVE cwd' \in Cwds
  BY <1>6 DEF sys_chdir
<1>7. CASE UNCHANGED cwd
  BY <1>7 DEF DirectoryKept
<1>8. ASSUME NEW n \in Names, sys_rmfile(n) PROVE UNCHANGED cwd
  BY <1>8 DEF sys_rmfile
<1>9. ASSUME NEW p \in Procs, NEW q \in Paths, sys_open(p, q) PROVE UNCHANGED cwd
  BY <1>9 DEF sys_open, store
<1>10. ASSUME NEW p \in Procs, NEW f \in Fds, NEW len \in LENS, sys_read_fd(p, f, len)
       PROVE  UNCHANGED cwd
  BY <1>10 DEF sys_read_fd, store
<1>11. ASSUME NEW p \in Procs, NEW f \in Fds, NEW o \in OFFSETS, NEW whence \in 0 .. 2,
              sys_lseek(p, f, o, whence)
       PROVE  UNCHANGED cwd
  BY <1>11 DEF sys_lseek, store
<1>12. ASSUME NEW p \in Procs, NEW f \in Fds, NEW b \in WRITES, sys_write_fd(p, f, b)
       PROVE  UNCHANGED cwd
  BY <1>12 DEF sys_write_fd, store
<1>13. ReadTurn \/ ReadFails \/ ReadReturns \/ ExitEnds => UNCHANGED cwd
  BY DEF ReadTurn, ReadFails, ReadReturns, ExitEnds, store
<1>14. ASSUME NEW p \in Procs, NEW c \in Procs,
              process_create(p) \/ process_exit(p) \/ process_fork(p, c)
       PROVE  UNCHANGED cwd
  BY <1>14 DEF process_create, process_exit, process_fork, store
<1>15. UNCHANGED vars => UNCHANGED cwd
  BY DEF vars, store
<1> QED BY <1>2, <1>3, <1>4, <1>5, <1>6, <1>7, <1>8, <1>9, <1>10, <1>11, <1>12, <1>13, <1>14,
           <1>15 DEF Next, DirectoryKept

\* Every variable of the open files keeps its type: file_read and sys_lseek
\* leave a cached place within a cluster, file_write keeps within WBUF_CAP.
THEOREM TypeCorrect == Spec => []TypeOK
<1>1. IInv /\ DirectoryKept => TypeOK
  <2> SUFFICES ASSUME IInv, DirectoryKept PROVE TypeOK
    OBVIOUS
  <2>1. DiskOK(fat, data, dir) /\ Types
    BY DEF IInv
  <2>2. /\ fat \in [Cluster -> Cluster \cup {0, EOC}] /\ data \in [Cluster -> [Block -> Content]]
        /\ dir \in [Names -> [first : Cluster \cup {0, NULL}, size : Nat]]
    BY <2>1 DEF DiskOK, Place
  <2>3. ASSUME NEW w \in Wbufs
        PROVE  /\ wbuf[w].path \in Paths \cup {NULL} /\ wbuf[w].refcount \in Nat
               /\ wbuf[w].buf \in Seq(Bytes) /\ Len(wbuf[w].buf) <= WBUF_CAP
    BY <2>1 DEF Types, Buffer
  <2>4. call.op \in {"none", "read", "exit"} /\ call.got \in Seq(Content)
    BY <2>1 DEF Types, Call
  <2>5. opened \in [Procs -> [Fds -> [name : Names \cup {NULL}, bytes : Seq(Content), cut : BOOLEAN]]]
    BY <2>1 DEF Types, Grid, Handle
  <2>6. /\ alive \subseteq Procs /\ fds \in [Procs -> [Fds -> Descriptor]]
        /\ faults \in 0 .. MAXFAULTS /\ ops \in 0 .. MAXOPS
    BY <2>1 DEF Types, Grid
  <2> QED BY <2>2, <2>3, <2>4, <2>5, <2>6 DEF TypeOK, DirectoryKept
<1>2. Init => DirectoryKept
  BY DEF Init, DirectoryKept
<1>3. DirectoryKept /\ [Next]_vars => DirectoryKept'
  BY DirectoryInv
<1> QED BY <1>1, <1>2, <1>3, Invariance, PTL DEF Spec

\* The cached cluster and offset of a descriptor are those of its position in
\* the chain of its file, after any sequence of reads, seeks, dup2 and fork,
\* for files and clusters of any size.
THEOREM CachesExact == Spec => []CacheExact
<1>1. IInv => CacheExact
  <2> SUFFICES ASSUME IInv, NEW p \in Procs, NEW f \in Fds,
                      opened[p][f].name # NULL, ~opened[p][f].cut
               PROVE  /\ fds[p][f].kind = "READ" /\ fds[p][f].size = dir[opened[p][f].name].size
                      /\ fds[p][f].cluster_offset = fds[p][f].pos % CLUSTER_BYTES
                      /\ fds[p][f].cur_cluster =
                           Along(dir[opened[p][f].name].first, fds[p][f].pos \div CLUSTER_BYTES, 0)
    BY DEF CacheExact
  <2>1. Keeps(fat, data, dir, fds[p][f], opened[p][f])
    BY DEF IInv, Handles
  <2> QED BY <2>1, AlongIsWalk DEF Keeps
<1> QED BY <1>1, Invariance, PTL

\* A read that meets no disk error is short only at the end of the file.
THEOREM ShortReadsOnlyAtEnd == Spec => []ShortOnlyAtEnd
<1>1. IInv => ShortOnlyAtEnd
  BY DEF IInv
<1> QED BY <1>1, Invariance, PTL
-----------------------------------------------------------------------------
(* The open files implement OpenFiles *)

\* The files, handles and buffers of OpenFiles, as functions of the state.
FilesOf(t, x, D) == [n \in Names |-> IF D[n] = NoEntry THEN {} ELSE {Text(t, x, D[n])}]

Shown(o, pos) == [name |-> o.name, bytes |-> o.bytes, pos |-> IF o.name = NULL THEN 0 ELSE pos]
PlaceOf(F, C, p, f) == IF C.op = "read" /\ C.p = p /\ C.fd = f THEN C.from ELSE F[p][f].pos
HandlesOf(F, O, C) ==
    [h \in Procs \X Fds |-> Shown(O[h[1]][h[2]], PlaceOf(F, C, h[1], h[2]))]

BufferOf(x, S) == [path |-> x.path, bytes |-> x.buf, by |-> S]
BuffersOf(F, W) == [w \in Wbufs |-> BufferOf(W[w], Users(F, w))]

LEMMA FilesMapped ==
    /\ FileMap = FilesOf(fat, data, dir) /\ FileMap' = FilesOf(fat', data', dir')
<1>1. \A e : Contents(e) = Text(fat, data, e)
  BY AlongIsWalk DEF Contents, Text
<1>2. \A c, k, j : Along(c, k, j)' = Walk(fat', c, j)[k]
  BY DEF Along, Walk, NextCluster
<1>3. \A n : Contents(dir[n])' = Text(fat', data', dir'[n])
  BY <1>2 DEF Contents, Text
<1> QED BY <1>1, <1>3 DEF FileMap, FilesOf

LEMMA HandlesMapped ==
    HandleMap = HandlesOf(fds, opened, call) /\ HandleMap' = HandlesOf(fds', opened', call')
<1>1. ASSUME NEW C, NEW h \in Procs \X Fds
      PROVE  <<C.p, C.fd>> = h <=> C.p = h[1] /\ C.fd = h[2]
  OBVIOUS
<1> QED BY <1>1 DEF HandleMap, HandlesOf, Shown, PlaceOf

LEMMA BuffersMapped ==
    BufferMap = BuffersOf(fds, wbuf) /\ BufferMap' = BuffersOf(fds', wbuf')
BY DEF BufferMap, BuffersOf, BufferOf, Users, Uses

\* Nothing is promised of a descriptor whose file has been replaced.
LEMMA LeftShown ==
    ASSUME NEW R, NEW p \in Procs, NEW f \in Fds, NEW pos
    PROVE  /\ Shown(Unknown, pos) = Promise!Void
           /\ Shown(Outdated(R)[p][f], pos) = Promise!Left(Shown(opened[p][f], pos), R)
<1>1. Shown(Unknown, pos) = Promise!Void
  BY DEF Shown, Unknown, Promise!Void
<1>2. Outdated(R)[p][f] = IF opened[p][f].name \in R THEN Unknown ELSE opened[p][f]
  BY DEF Outdated
<1>3. Shown(opened[p][f], pos).name = opened[p][f].name
  BY DEF Shown
<1> QED BY <1>1, <1>2, <1>3 DEF Promise!Left

\* A buffer nobody refers to is unused.
LEMMA UnusedBuffer ==
    ASSUME NEW F, NEW W, Counts(F, W), NEW w \in Wbufs
    PROVE  /\ Users(F, w) = {} => BufferOf(W[w], Users(F, w)) = Promise!Unused
           /\ Users(F, w) = {} <=> Tally(F, w) = 0
           /\ Users(F, w) # {} => W[w].path \in Paths
<1>1. Exact(W[w], Tally(F, w))
  BY DEF Counts
<1>2. Users(F, w) \in SUBSET (Procs \X Fds)
  BY UsersMember
<1>3. Users(F, w) = {} <=> Tally(F, w) = 0
  BY <1>2, UsersFinite DEF Tally
<1>4. Users(F, w) = {} => W[w] = NoWbuf
  BY <1>1, <1>3 DEF Exact
<1>5. BufferOf(NoWbuf, {}) = Promise!Unused
  BY DEF BufferOf, NoWbuf, Promise!Unused
<1>6. Users(F, w) # {} => W[w].path \in Paths
  BY <1>1, <1>3 DEF Exact
<1> QED BY <1>3, <1>4, <1>5, <1>6

\* The parts of Arrange.
Gone == {b \in Wbufs : BufferMap[b].by # {} /\ BufferMap'[b].by = {}}

BuffersSettle(p) ==
    \A b \in Wbufs :
        IF BufferMap'[b].by = {} THEN BufferMap'[b] = Promise!Unused
        ELSE /\ BufferMap'[b].path = BufferMap[b].path
             /\ BufferMap'[b].bytes = BufferMap[b].bytes /\ BufferMap[b].by # {}
             /\ \A h \in Procs \X Fds :
                   h[1] # p => (h \in BufferMap'[b].by <=> h \in BufferMap[b].by)

FilesCommit(R) ==
    /\ FileMap' = [n \in Names |-> IF n \in R THEN FileMap'[n] ELSE FileMap[n]]
    /\ \/ /\ returned'.lost = FALSE
          /\ R = {FileAt[cwd][BufferMap[b].path] : b \in Gone} /\ R \subseteq Names
          /\ \A b \in Gone : FileMap'[FileAt[cwd][BufferMap[b].path]] = {BufferMap[b].bytes}
       \/ /\ returned'.lost = TRUE /\ Gone # {}
          /\ R \subseteq {FileAt[cwd][BufferMap[b].path] : b \in Gone}
          /\ \A n \in R : FileMap'[n] = {}

HandlesSettle(p, R) ==
    \A h \in Procs \X Fds :
        \/ HandleMap'[h] = Promise!Left(HandleMap[h], R)
        \/ h[1] = p /\ (\/ HandleMap'[h] = Promise!Void
                        \/ \E g \in Procs \X Fds : HandleMap'[h] = Promise!Left(HandleMap[g], R))

LEMMA Settled ==
    ASSUME NEW p \in Procs, NEW R \in SUBSET Names, cwd' = cwd, returned'.bytes = << >>,
           BuffersSettle(p), FilesCommit(R), HandlesSettle(p, R),
           DOMAIN HandleMap' = Procs \X Fds, DOMAIN BufferMap' = Wbufs
    PROVE  Promise!Next
<1>1. \E S \in SUBSET Names : FilesCommit(S) /\ HandlesSettle(p, S)
  OBVIOUS
<1>2. Promise!Arrange(p)
  BY <1>1, Zenon DEF Promise!Arrange, Promise!Handles, Promise!Committed, Promise!NoneRead,
                     FilesCommit, HandlesSettle, BuffersSettle, Gone
<1> QED BY <1>2 DEF Promise!Next

\* What a step of process p does to the buffers, to its own descriptors and to
\* those of others, when it replaces the files R.
BuffersKept ==
    \A w \in Wbufs : Users(fds', w) # {} =>
        /\ Users(fds, w) # {} /\ wbuf'[w].path = wbuf[w].path /\ wbuf'[w].buf = wbuf[w].buf
OthersKept(p, R) ==
    \A q \in Procs, f \in Fds : q # p =>
        /\ opened'[q][f] = Outdated(R)[q][f] /\ fds'[q][f] = fds[q][f]
OwnRearranged(p, R) ==
    \A f \in Fds : \/ opened'[p][f] = Unknown
                   \/ \E q \in Procs, g \in Fds : /\ opened'[p][f] = Outdated(R)[q][g]
                                                  /\ fds'[p][f].pos = fds[q][g].pos
Emptied(w) == Users(fds, w) # {} /\ Users(fds', w) = {}
Saved(w, n, R) ==
    /\ Nothing /\ n \in Names /\ R = {n}
    /\ dir'[n] # NoEntry /\ Text(fat', data', dir'[n]) = wbuf[w].buf
Dropped(n, R) == Unwritten /\ R \subseteq {n} /\ \A m \in R : dir'[m] = NoEntry
Committed(R) ==
    \/ Nothing /\ R = {} /\ \A w \in Wbufs : ~Emptied(w)
    \/ \E w \in Wbufs :
          /\ \A v \in Wbufs : Emptied(v) <=> v = w
          /\ Saved(w, FileAt[cwd][wbuf[w].path], R) \/ Dropped(FileAt[cwd][wbuf[w].path], R)

LEMMA Told ==
    /\ Nothing => returned'.bytes = << >> /\ returned'.lost = FALSE
    /\ Unwritten => returned'.bytes = << >> /\ returned'.lost = TRUE
BY DEF Nothing, Unwritten, NoRead

LEMMA ArrangeStep ==
    ASSUME Counts(fds, wbuf), Counts(fds', wbuf'), NEW p \in Procs, NEW R \in SUBSET Names,
           cwd' = cwd, Replaced(R), call.op # "read", call'.op # "read",
           BuffersKept, OthersKept(p, R), OwnRearranged(p, R), Committed(R)
    PROVE  Promise!Next
<1>1. PICK was, now : was = BufferMap /\ now = BufferMap'
  OBVIOUS
<1>2. PICK old, new : old = HandleMap /\ new = HandleMap'
  OBVIOUS
<1>3. PICK F, G : F = FileMap /\ G = FileMap'
  OBVIOUS
<1>4. /\ DOMAIN was = Wbufs /\ DOMAIN now = Wbufs
      /\ \A w \in Wbufs : /\ was[w] = BufferOf(wbuf[w], Users(fds, w))
                          /\ now[w] = BufferOf(wbuf'[w], Users(fds', w))
  BY <1>1, BuffersMapped DEF BuffersOf
<1>5. \A w \in Wbufs : /\ was[w].by = Users(fds, w) /\ was[w].path = wbuf[w].path
                       /\ was[w].bytes = wbuf[w].buf
                       /\ now[w].by = Users(fds', w) /\ now[w].path = wbuf'[w].path
                       /\ now[w].bytes = wbuf'[w].buf
  BY <1>4 DEF BufferOf
<1>6. /\ DOMAIN new = Procs \X Fds
      /\ \A q \in Procs, f \in Fds : /\ old[<<q, f>>] = Shown(opened[q][f], fds[q][f].pos)
                                     /\ new[<<q, f>>] = Shown(opened'[q][f], fds'[q][f].pos)
  BY <1>2, HandlesMapped DEF HandlesOf, PlaceOf
<1>7. /\ DOMAIN F = Names /\ DOMAIN G = Names
      /\ F = FilesOf(fat, data, dir) /\ G = FilesOf(fat', data', dir')
  BY <1>3, FilesMapped DEF FilesOf
<1>8. returned'.bytes = << >>
  BY Told DEF Committed, Saved, Dropped
<1>9. ASSUME NEW w \in Wbufs, now[w].by = {}
      PROVE  now[w] = Promise!Unused
  BY <1>4, <1>5, <1>9, UnusedBuffer
<1>10. ASSUME NEW w \in Wbufs, now[w].by # {}
       PROVE  /\ now[w].path = was[w].path /\ now[w].bytes = was[w].bytes /\ was[w].by # {}
              /\ \A h \in Procs \X Fds : h[1] # p => (h \in now[w].by <=> h \in was[w].by)
  <2>1. /\ now[w].path = was[w].path /\ now[w].bytes = was[w].bytes /\ was[w].by # {}
    BY <1>5, <1>10 DEF BuffersKept
  <2>2. ASSUME NEW q \in Procs, NEW f \in Fds, q # p
        PROVE  <<q, f>> \in now[w].by <=> <<q, f>> \in was[w].by
    <3>1. fds'[q][f] = fds[q][f]
      BY <2>2 DEF OthersKept
    <3> QED BY <1>5, <3>1, UsersMember
  <2> QED BY <2>1, <2>2
<1>11. ASSUME NEW n \in Names, n \notin R
       PROVE  G[n] = F[n]
  BY <1>7, <1>11 DEF FilesOf, Replaced
<1>12. G = [n \in Names |-> IF n \in R THEN G[n] ELSE F[n]]
  <2>1. G = [n \in Names |-> G[n]]
    BY <1>7 DEF FilesOf
  <2>2. \A n \in Names : G[n] = IF n \in R THEN G[n] ELSE F[n]
    BY <1>11
  <2> HIDE DEF FilesOf
  <2> QED BY <2>1, <2>2
<1>13. PICK gone : gone = {b \in Wbufs : was[b].by # {} /\ now[b].by = {}}
  OBVIOUS
<1>14. \A w \in Wbufs : w \in gone <=> Emptied(w)
  BY <1>5, <1>13 DEF Emptied
<1>15. \/ /\ returned'.lost = FALSE
          /\ R = {FileAt[cwd][was[b].path] : b \in gone} /\ R \subseteq Names
          /\ \A b \in gone : G[FileAt[cwd][was[b].path]] = {was[b].bytes}
       \/ /\ returned'.lost = TRUE /\ gone # {}
          /\ R \subseteq {FileAt[cwd][was[b].path] : b \in gone}
          /\ \A n \in R : G[n] = {}
  <2>1. CASE Nothing /\ R = {} /\ \A w \in Wbufs : ~Emptied(w)
    <3>1. gone = {}
      BY <1>13, <1>14, <2>1
    <3> QED BY <2>1, <3>1, Told
  <2>2. CASE \E w \in Wbufs :
                /\ \A v \in Wbufs : Emptied(v) <=> v = w
                /\ \/ Saved(w, FileAt[cwd][wbuf[w].path], R)
                   \/ Dropped(FileAt[cwd][wbuf[w].path], R)
    <3>1. PICK w \in Wbufs : /\ \A v \in Wbufs : Emptied(v) <=> v = w
                             /\ \/ Saved(w, FileAt[cwd][wbuf[w].path], R)
                                \/ Dropped(FileAt[cwd][wbuf[w].path], R)
      BY <2>2
    <3>2. PICK n : n = FileAt[cwd][wbuf[w].path]
      OBVIOUS
    <3>3. gone = {w} /\ FileAt[cwd][was[w].path] = n /\ was[w].bytes = wbuf[w].buf
      BY <1>5, <1>13, <1>14, <3>1, <3>2
    <3>4. CASE Saved(w, n, R)
      <4>1. G[n] = {was[w].bytes} /\ n \in Names /\ R = {n}
        BY <1>7, <3>3, <3>4 DEF FilesOf, Saved
      <4>2. returned'.lost = FALSE
        BY <3>4, Told DEF Saved
      <4> QED BY <3>3, <4>1, <4>2
    <3>5. CASE Dropped(n, R)
      <4>1. \A m \in R : G[m] = {}
        BY <1>7, <3>5 DEF FilesOf, Dropped
      <4>2. returned'.lost = TRUE /\ R \subseteq {n}
        BY <3>5, Told DEF Dropped
      <4> QED BY <3>3, <4>1, <4>2
    <3> QED BY <3>1, <3>2, <3>4, <3>5
  <2> QED BY <2>1, <2>2 DEF Committed
<1>16. ASSUME NEW q \in Procs, NEW f \in Fds
       PROVE  \/ new[<<q, f>>] = Promise!Left(old[<<q, f>>], R)
              \/ q = p /\ (\/ new[<<q, f>>] = Promise!Void
                           \/ \E g \in Procs \X Fds : new[<<q, f>>] = Promise!Left(old[g], R))
  <2>1. CASE q # p
    <3>1. opened'[q][f] = Outdated(R)[q][f] /\ fds'[q][f] = fds[q][f]
      BY <2>1 DEF OthersKept
    <3>2. PICK v : v = fds[q][f].pos
      OBVIOUS
    <3>3. Shown(Outdated(R)[q][f], v) = Promise!Left(Shown(opened[q][f], v), R)
      BY LeftShown
    <3>4. old[<<q, f>>] = Shown(opened[q][f], v) /\ new[<<q, f>>] = Shown(Outdated(R)[q][f], v)
      BY <1>6, <3>1, <3>2
    <3> QED BY <3>3, <3>4
  <2>2. CASE q = p /\ opened'[q][f] = Unknown
    <3>1. PICK v : v = fds'[q][f].pos
      OBVIOUS
    <3>2. Shown(Unknown, v) = Promise!Void
      BY LeftShown
    <3>3. new[<<q, f>>] = Shown(Unknown, v)
      BY <1>6, <2>2, <3>1
    <3> QED BY <2>2, <3>2, <3>3
  <2>3. CASE q = p /\ opened'[q][f] # Unknown
    <3>1. PICK r \in Procs, g \in Fds : opened'[q][f] = Outdated(R)[r][g] /\ fds'[q][f].pos = fds[r][g].pos
      BY <2>3 DEF OwnRearranged
    <3>2. PICK v : v = fds[r][g].pos
      OBVIOUS
    <3>3. Shown(Outdated(R)[r][g], v) = Promise!Left(Shown(opened[r][g], v), R)
      BY LeftShown
    <3>4. old[<<r, g>>] = Shown(opened[r][g], v) /\ new[<<q, f>>] = Shown(Outdated(R)[r][g], v)
      BY <1>6, <3>1, <3>2
    <3>5. <<r, g>> \in Procs \X Fds /\ new[<<q, f>>] = Promise!Left(old[<<r, g>>], R)
      BY <3>3, <3>4
    <3> QED BY <2>3, <3>5
  <2> QED BY <2>1, <2>2, <2>3
<1>17. \A h \in Procs \X Fds :
          \/ new[h] = Promise!Left(old[h], R)
          \/ h[1] = p /\ (new[h] = Promise!Void \/ \E g \in Procs \X Fds : new[h] = Promise!Left(old[g], R))
  BY <1>16
<1>18. Promise!Next
  <2>1. BuffersSettle(p)
    BY <1>1, <1>9, <1>10 DEF BuffersSettle
  <2>2. gone = Gone
    BY <1>1, <1>13 DEF Gone
  <2>3. FilesCommit(R)
    <3>1. FileMap' = [n \in Names |-> IF n \in R THEN FileMap'[n] ELSE FileMap[n]]
      BY <1>3, <1>12
    <3> QED BY <1>1, <1>3, <1>15, <2>2, <3>1 DEF FilesCommit
  <2>4. HandlesSettle(p, R)
    BY <1>2, <1>17 DEF HandlesSettle
  <2>5. DOMAIN HandleMap' = Procs \X Fds /\ DOMAIN BufferMap' = Wbufs
    BY <1>1, <1>2, <1>4, <1>6
  <2> QED BY <1>8, <2>1, <2>3, <2>4, <2>5, Settled
<1> QED BY <1>18

\* What a step does not show.
ShownAt(F, O, C, p, f) == Shown(O[p][f], PlaceOf(F, C, p, f))
Before(p, f) == ShownAt(fds, opened, call, p, f)
After(p, f)  == ShownAt(fds', opened', call', p, f)

LEMMA HandleStays ==
    ASSUME \A p \in Procs, f \in Fds : After(p, f) = Before(p, f)
    PROVE  HandleMap' = HandleMap
<1>1. \A h \in Procs \X Fds : After(h[1], h[2]) = Before(h[1], h[2])
  OBVIOUS
<1> QED BY <1>1, HandlesMapped DEF HandlesOf, Before, After, ShownAt

LEMMA HandleChanges ==
    ASSUME NEW p \in Procs, NEW f \in Fds,
           \A q \in Procs, g \in Fds : q # p \/ g # f => After(q, g) = Before(q, g)
    PROVE  /\ HandleMap' = [HandleMap EXCEPT ![<<p, f>>] = After(p, f)]
           /\ HandleMap[<<p, f>>] = Before(p, f) /\ HandleMap'[<<p, f>>] = After(p, f)
           /\ <<p, f>> \in Procs \X Fds
<1>1. HandleMap = [h \in Procs \X Fds |-> Before(h[1], h[2])]
  BY HandlesMapped DEF HandlesOf, Before, ShownAt
<1>2. HandleMap' = [h \in Procs \X Fds |-> After(h[1], h[2])]
  BY HandlesMapped DEF HandlesOf, After, ShownAt
<1>3. \A h \in Procs \X Fds : h # <<p, f>> => After(h[1], h[2]) = Before(h[1], h[2])
  OBVIOUS
<1>4. <<p, f>> \in Procs \X Fds /\ HandleMap[<<p, f>>] = Before(p, f) /\ HandleMap'[<<p, f>>] = After(p, f)
  BY <1>1, <1>2
<1>5. /\ DOMAIN HandleMap = Procs \X Fds
      /\ HandleMap' = [h \in Procs \X Fds |-> IF h = <<p, f>> THEN After(p, f) ELSE HandleMap[h]]
  <2>1. \A h \in Procs \X Fds : After(h[1], h[2]) = IF h = <<p, f>> THEN After(p, f) ELSE HandleMap[h]
    BY <1>1, <1>3
  <2>2. DOMAIN HandleMap = Procs \X Fds
    BY <1>1
  <2> QED BY <1>2, <2>1, <2>2
<1> QED BY <1>4, <1>5

LEMMA BufferStays ==
    ASSUME wbuf' = wbuf,
           \A p \in Procs, f \in Fds : \A w : Uses(fds'[p][f], w) <=> Uses(fds[p][f], w)
    PROVE  BufferMap' = BufferMap
<1>1. \A w \in Wbufs : Users(fds', w) = Users(fds, w)
  BY DEF Users
<1> QED BY <1>1, BuffersMapped DEF BuffersOf

LEMMA FilesStay ==
    ASSUME NEW R, Replaced(R)
    PROVE  /\ FileMap \in [Names -> {FileMap[n] : n \in Names}] /\ DOMAIN FileMap' = Names
           /\ \A n \in Names \ R : FileMap'[n] = FileMap[n]
           /\ R = {} => FileMap' = FileMap
<1>1. FileMap = FilesOf(fat, data, dir) /\ FileMap' = FilesOf(fat', data', dir')
  BY FilesMapped
<1>2. \A n \in Names \ R : FilesOf(fat', data', dir')[n] = FilesOf(fat, data, dir)[n]
  BY DEF FilesOf, Replaced
<1>3. R = {} => FilesOf(fat', data', dir') = FilesOf(fat, data, dir)
  BY <1>2 DEF FilesOf
<1> QED BY <1>1, <1>2, <1>3 DEF FilesOf

\* A call that changes nothing that OpenFiles knows of.
Silent == returned'.bytes = << >> /\ returned'.lost = FALSE

LEMMA Quiet ==
    ASSUME IInv, Silent, cwd' = cwd,
           FileMap' = FileMap, HandleMap' = HandleMap, BufferMap' = BufferMap
    PROVE  Promise!Next
<1>1. PICK p \in Procs : TRUE
  BY FilesAssumption
<1>2. DOMAIN HandleMap = Procs \X Fds /\ DOMAIN BufferMap = Wbufs
  BY DEF HandleMap, BufferMap
<1>3. ASSUME NEW w \in Wbufs, BufferMap[w].by = {} PROVE BufferMap[w] = Promise!Unused
  <2>1. BufferMap[w] = BufferOf(wbuf[w], Users(fds, w)) /\ BufferMap[w].by = Users(fds, w)
    BY BuffersMapped DEF BuffersOf, BufferOf
  <2> QED BY <1>3, <2>1, UnusedBuffer DEF IInv
<1>4. FileMap' = [n \in Names |-> IF n \in {} THEN FileMap'[n] ELSE FileMap[n]]
  BY DEF FileMap
<1>5. \A hd : Promise!Left(hd, {}) = hd
  BY DEF Promise!Left
<1>6. BuffersSettle(p)
  BY <1>3 DEF BuffersSettle
<1>7. PICK none \in SUBSET Names : none = {}
  <2>1. {} \in SUBSET Names
    OBVIOUS
  <2> QED BY <2>1
<1>8. FilesCommit(none)
  <2>1. Gone = {}
    BY DEF Gone
  <2> QED BY <1>4, <1>7, <2>1 DEF FilesCommit, Silent
<1>9. HandlesSettle(p, none)
  BY <1>5, <1>7 DEF HandlesSettle
<1>10. DOMAIN HandleMap' = Procs \X Fds /\ DOMAIN BufferMap' = Wbufs
  BY <1>2
<1> QED BY <1>6, <1>7, <1>8, <1>9, <1>10, Settled DEF Silent

\* A descriptor outside of reads shows its own position, if it shows any.
LEMMA IdleShown ==
    /\ call.op # "read" => \A p, f : Before(p, f) = Shown(opened[p][f], fds[p][f].pos)
    /\ call'.op # "read" => \A p, f : After(p, f) = Shown(opened'[p][f], fds'[p][f].pos)
    /\ \A o, x, y : o.name = NULL => Shown(o, x) = Shown(o, y)
<1>1. call.op # "read" => \A p, f : Before(p, f) = Shown(opened[p][f], fds[p][f].pos)
  BY DEF Before, ShownAt, PlaceOf
<1>2. call'.op # "read" => \A p, f : After(p, f) = Shown(opened'[p][f], fds'[p][f].pos)
  BY DEF After, ShownAt, PlaceOf
<1>3. \A o, x, y : o.name = NULL => Shown(o, x) = Shown(o, y)
  BY DEF Shown
<1> QED BY <1>1, <1>2, <1>3

LEMMA NotReading ==
    /\ Idle => call.op # "read"
    /\ Nothing => Silent
<1>1. Idle => call.op # "read"
  BY DEF Idle, NoCall
<1>2. Nothing => Silent
  BY Told DEF Silent
<1> QED BY <1>1, <1>2

LEMMA ReplaceMaps ==
    ASSUME IInv, NEW n \in Names, NEW R \in SUBSET {n}, Replaced(R), opened' = Outdated(R),
           Idle, Nothing, UNCHANGED <<fds, wbuf, call, cwd>>
    PROVE  Promise!Next
<1>1. call.op # "read" /\ call'.op # "read" /\ Silent /\ fds' = fds /\ wbuf' = wbuf
  BY NotReading
<1>2. BufferMap' = BufferMap
  BY <1>1, BufferStays
<1>3. ASSUME NEW p \in Procs, NEW f \in Fds
      PROVE  After(p, f) = Promise!Left(Before(p, f), R)
  <2>1. PICK v : v = fds[p][f].pos
    OBVIOUS
  <2>2. Before(p, f) = Shown(opened[p][f], v) /\ After(p, f) = Shown(Outdated(R)[p][f], v)
    BY <1>1, <2>1, IdleShown
  <2> QED BY <2>2, LeftShown
<1>4. CASE R = {}
  <2>1. HandleMap' = HandleMap
    <3>1. \A p \in Procs, f \in Fds : After(p, f) = Before(p, f)
      BY <1>3, <1>4 DEF Promise!Left
    <3> QED BY <3>1, HandleStays
  <2>2. FileMap' = FileMap
    BY <1>4, FilesStay
  <2> QED BY <1>1, <1>2, <2>1, <2>2, Quiet
<1>5. CASE R = {n}
  <2>1. HandleMap' = [h \in Procs \X Fds |-> Promise!Left(HandleMap[h], {n})]
    <3>1. \A h \in Procs \X Fds : After(h[1], h[2]) = Promise!Left(Before(h[1], h[2]), {n})
      BY <1>3, <1>5
    <3>2. HandleMap' = [h \in Procs \X Fds |-> After(h[1], h[2])]
      BY HandlesMapped DEF HandlesOf, After, ShownAt
    <3>3. \A h \in Procs \X Fds : HandleMap[h] = Before(h[1], h[2])
      BY HandlesMapped DEF HandlesOf, Before, ShownAt
    <3> QED BY <3>1, <3>2, <3>3
  <2>2. FileMap' = [FileMap EXCEPT ![n] = FileMap'[n]]
    <3>1. FileMap = [m \in Names |-> FileMap[m]] /\ FileMap' = [m \in Names |-> FileMap'[m]]
      BY DEF FileMap
    <3>2. \A m \in Names \ {n} : FileMap'[m] = FileMap[m]
      BY <1>5, FilesStay
    <3> QED BY <3>1, <3>2
  <2>3. Promise!Replace(n)
    BY <1>1, <1>2, <2>1, <2>2
       DEF Promise!Replace, Promise!Handles, Promise!NoneRead, Promise!NoneLost, Silent
  <2> QED BY <2>3 DEF Promise!Next
<1> QED BY <1>4, <1>5

LEMMA RmfileMaps ==
    ASSUME IInv, NEW n \in Names, sys_rmfile(n)
    PROVE  Promise!Next
<1>1. Replaced({n})
  BY RemoveReplaces DEF IInv, sys_rmfile
<1>2. opened' = Outdated({n}) /\ Idle /\ Nothing /\ UNCHANGED <<fds, wbuf, call, cwd>>
  BY DEF sys_rmfile
<1> QED BY <1>1, <1>2, ReplaceMaps

LEMMA WritefileMaps ==
    ASSUME IInv, NEW n \in Names, NEW b \in WRITES, sys_writefile(n, b)
    PROVE  Promise!Next
<1>1. PICK R \in SUBSET {n} : /\ (R = {n} /\ Wrote(n, b)) \/ WriteFails(n, b, R)
                              /\ opened' = Outdated(R)
  BY DEF sys_writefile
<1>2. b \in Seq(Bytes)
  BY FilesAssumption
<1>3. DiskOK(fat, data, dir) /\ faults \in 0 .. MAXFAULTS
  BY DEF IInv, Types
<1>4. Replaced(R) /\ cwd' = cwd
  BY <1>1, <1>2, <1>3, WroteReplaces, FailsReplaces
<1>5. Idle /\ Nothing /\ UNCHANGED <<fds, wbuf, call, cwd>>
  BY <1>4 DEF sys_writefile
<1> QED BY <1>1, <1>4, <1>5, ReplaceMaps

LEMMA ChdirMaps ==
    ASSUME IInv, NEW d \in Cwds, sys_chdir(d)
    PROVE  Promise!Next
<1>1. /\ Idle /\ Nothing /\ cwd' = d
      /\ UNCHANGED <<fat, data, dir, fds, wbuf, call, opened>>
  BY DEF sys_chdir
<1>2. Silent
  BY <1>1, NotReading
<1>3. Replaced({})
  BY <1>1 DEF Replaced, IInv
<1>4. FileMap' = FileMap
  BY <1>3, FilesStay
<1>5. BufferMap' = BufferMap
  BY <1>1, BufferStays
<1>6. HandleMap' = HandleMap
  <2>1. \A p \in Procs, f \in Fds : After(p, f) = Before(p, f)
    BY <1>1 DEF After, Before, ShownAt, PlaceOf
  <2> QED BY <2>1, HandleStays
<1>7. FileAt[cwd'] \in [Paths -> Names \cup {NULL}]
  BY <1>1, FilesAssumption
<1>8. Promise!Chdir
  BY <1>2, <1>4, <1>5, <1>6, <1>7 DEF Promise!Chdir, Promise!NoneRead, Promise!NoneLost, Silent
<1> QED BY <1>8 DEF Promise!Next

\* Steps that leave the disk, the buffers and who refers to them alone.
LEMMA DiskStays ==
    ASSUME IInv, UNCHANGED store
    PROVE  FileMap' = FileMap /\ cwd' = cwd
<1>1. Replaced({})
  BY NothingReplaced
<1>2. cwd' = cwd
  BY DEF store
<1> QED BY <1>1, <1>2, FilesStay

\* The start of a read or of an exit shows nothing.
LEMMA CallMaps ==
    ASSUME IInv, Idle, Nothing, UNCHANGED <<store, fds, wbuf, opened>>,
           call'.op = "read" => call'.from = fds[call'.p][call'.fd].pos
    PROVE  Promise!Next
<1>1. call.op # "read" /\ Silent /\ fds' = fds /\ wbuf' = wbuf /\ opened' = opened
  BY NotReading
<1>2. BufferMap' = BufferMap
  BY <1>1, BufferStays
<1>3. FileMap' = FileMap /\ cwd' = cwd
  BY DiskStays
<1>4. \A p \in Procs, f \in Fds : After(p, f) = Before(p, f)
  BY <1>1 DEF After, Before, ShownAt, PlaceOf
<1> QED BY <1>1, <1>2, <1>3, <1>4, HandleStays, Quiet

LEMMA ReadMaps ==
    ASSUME IInv, NEW p \in Procs, NEW f \in Fds, NEW len \in LENS, sys_read_fd(p, f, len)
    PROVE  Promise!Next
<1>1. Idle /\ Nothing /\ UNCHANGED <<store, fds, wbuf, opened>>
  BY DEF sys_read_fd
<1>2. call' = [NoCall EXCEPT !.op = "read", !.p = p, !.fd = f, !.len = len, !.from = fds[p][f].pos]
  BY DEF sys_read_fd
<1>3. call'.p = p /\ call'.fd = f /\ call'.from = fds[p][f].pos
  BY <1>2 DEF NoCall
<1> QED BY <1>1, <1>3, CallMaps

LEMMA ExitMaps ==
    ASSUME IInv, NEW p \in Procs, process_exit(p)
    PROVE  Promise!Next
<1>1. Idle /\ Nothing /\ UNCHANGED <<store, fds, wbuf, opened>>
  BY DEF process_exit
<1>2. call'.op = "exit"
  BY DEF process_exit, NoCall
<1> QED BY <1>1, <1>2, CallMaps

\* Where a read in progress is does not show until it returns.
LEMMA ReadTurnMaps ==
    ASSUME IInv, ReadTurn
    PROVE  /\ FileMap' = FileMap /\ HandleMap' = HandleMap /\ BufferMap' = BufferMap
           /\ returned' = returned /\ cwd' = cwd
<1>1. PICK p, f, d, o, n : /\ p = call.p /\ f = call.fd /\ d = Current /\ o = opened[p][f]
                           /\ n = ThisTurn
  OBVIOUS
<1>2. /\ call.op = "read" /\ MoreToRead /\ call' = [call EXCEPT !.got = @ \o Copied(d, n)]
      /\ UNCHANGED <<store, alive, wbuf, returned, ops>>
  BY <1>1 DEF ReadTurn
<1>3. \/ /\ fds' = [fds EXCEPT ![p][f] = Advanced(d, n, NextCluster(d.cur_cluster))]
         /\ UNCHANGED <<opened, faults>>
      \/ /\ fds' = [fds EXCEPT ![p][f] = Advanced(d, n, 0)]
         /\ opened' = [opened EXCEPT ![p][f].cut = (o.name # NULL)]
  BY <1>1 DEF ReadTurn
<1>4. /\ call \in Call /\ fds \in Grid(Descriptor) /\ opened \in Grid(Handle) /\ alive \subseteq Procs
      /\ CallSound
  BY DEF IInv, Types
<1>5. p \in Procs /\ f \in Fds /\ d = fds[p][f] /\ d.kind = "READ"
  BY <1>1, <1>2, <1>4 DEF CallSound, Call, Current
<1>6. /\ call'.op = "read" /\ call'.p = p /\ call'.fd = f /\ call'.from = call.from
  BY <1>1, <1>2, <1>4 DEF Call
<1>7. PICK c : fds' = SlotSet(fds, p, f, Advanced(d, n, c))
  BY <1>3 DEF SlotSet
<1>8. PICK e : e = Advanced(d, n, c) /\ e.kind = "READ"
  <2>1. d \in Descriptor
    BY <1>4, <1>5 DEF Grid
  <2>2. \A i, j, k : [d EXCEPT !.pos = i, !.cur_cluster = j, !.cluster_offset = k].kind = d.kind
    BY <2>1 DEF Descriptor
  <2>3. \A i, k : [d EXCEPT !.pos = i, !.cluster_offset = k].kind = d.kind
    BY <2>1 DEF Descriptor
  <2>4. Advanced(d, n, c).kind = d.kind
    BY <2>2, <2>3 DEF Advanced
  <2> QED BY <1>5, <2>4
<1>9. /\ fds'[p][f] = e /\ \A q \in Procs, g \in Fds : q # p \/ g # f => fds'[q][g] = fds[q][g]
  BY <1>4, <1>5, <1>7, <1>8, SlotFacts
<1>10. \A q \in Procs, g \in Fds : /\ opened'[q][g].name = opened[q][g].name
                                   /\ opened'[q][g].bytes = opened[q][g].bytes
  <2>1. CASE opened' = opened
    BY <2>1
  <2>2. CASE opened' = [opened EXCEPT ![p][f].cut = (o.name # NULL)]
    <3>1. PICK u : u = [o EXCEPT !.cut = (o.name # NULL)]
      OBVIOUS
    <3>2. opened' = SlotSet(opened, p, f, u)
      BY <1>1, <2>2, <3>1 DEF SlotSet
    <3>3. o \in Handle
      BY <1>1, <1>4, <1>5 DEF Grid
    <3>4. u.name = o.name /\ u.bytes = o.bytes
      BY <3>1, <3>3 DEF Handle
    <3>5. /\ opened'[p][f] = u
          /\ \A q \in Procs, g \in Fds : q # p \/ g # f => opened'[q][g] = opened[q][g]
      BY <1>4, <1>5, <3>2, SlotFacts
    <3> QED BY <1>1, <3>4, <3>5
  <2> QED BY <1>3, <2>1, <2>2
<1>11. ASSUME NEW q \in Procs, NEW g \in Fds PROVE After(q, g) = Before(q, g)
  <2>1. PlaceOf(fds', call', q, g) = PlaceOf(fds, call, q, g)
    BY <1>1, <1>2, <1>6, <1>9 DEF PlaceOf
  <2> QED BY <1>10, <2>1 DEF After, Before, ShownAt, Shown
<1>12. HandleMap' = HandleMap
  BY <1>11, HandleStays
<1>13. BufferMap' = BufferMap
  <2>1. \A q \in Procs, g \in Fds : \A w : Uses(fds'[q][g], w) <=> Uses(fds[q][g], w)
    BY <1>5, <1>8, <1>9 DEF Uses
  <2> QED BY <1>2, <2>1, BufferStays
<1> QED BY <1>2, <1>12, <1>13, DiskStays

LEMMA ReadFailsMaps ==
    ASSUME IInv, ReadFails
    PROVE  /\ FileMap' = FileMap /\ HandleMap' = HandleMap /\ BufferMap' = BufferMap
           /\ returned' = returned /\ cwd' = cwd
<1>1. /\ call' = [call EXCEPT !.failed = TRUE] /\ UNCHANGED <<store, fds, wbuf, opened, returned>>
  BY DEF ReadFails
<1>2. call'.op = call.op /\ call'.p = call.p /\ call'.fd = call.fd /\ call'.from = call.from
  BY <1>1 DEF IInv, Types, Call
<1>3. \A p \in Procs, f \in Fds : After(p, f) = Before(p, f)
  BY <1>1, <1>2 DEF After, Before, ShownAt, PlaceOf
<1> QED BY <1>1, <1>3, HandleStays, BufferStays, DiskStays

\* What a read returns is what follows the place where it began.
LEMMA ReadReturnsMaps ==
    ASSUME IInv, ReadReturns
    PROVE  Promise!Next
<1>1. PICK p, f, d, o, from, got : /\ p = call.p /\ f = call.fd /\ d = fds[p][f] /\ o = opened[p][f]
                                   /\ from = call.from /\ got = call.got
  OBVIOUS
<1>2. /\ call.op = "read" /\ call' = NoCall /\ UNCHANGED <<store, fds, wbuf, opened>>
      /\ o.name = NULL => returned' = NoRead
      /\ o.name # NULL => returned'.bytes = got /\ returned'.lost = FALSE
  BY <1>1 DEF ReadReturns
<1>3. /\ call \in Call /\ fds \in Grid(Descriptor) /\ opened \in Grid(Handle) /\ alive \subseteq Procs
      /\ CallSound /\ Handles /\ DiskOK(fat, data, dir)
  BY DEF IInv, Types
<1>4. /\ p \in Procs /\ f \in Fds /\ d.kind = "READ" /\ from + Len(got) = d.pos
      /\ got # << >> => d.pos <= d.size
      /\ o.name # NULL => got = SubSeq(o.bytes, from + 1, d.pos)
  BY <1>1, <1>2, <1>3 DEF CallSound, Call
<1>5. from \in Nat /\ got \in Seq(Content) /\ d \in Descriptor /\ o \in Handle
  BY <1>1, <1>3, <1>4 DEF Call, Grid
<1>6. PICK pos \in Nat, k \in Nat : pos = d.pos /\ k = Len(got) /\ pos = from + k
  BY <1>4, <1>5 DEF Descriptor
<1>7. FileMap' = FileMap /\ BufferMap' = BufferMap /\ cwd' = cwd
  BY <1>2, DiskStays, BufferStays
<1>8. call'.op # "read"
  BY <1>2 DEF NoCall
<1>9. Before(p, f) = Shown(o, from) /\ After(p, f) = Shown(o, pos)
  BY <1>1, <1>2, <1>6, <1>8 DEF Before, After, ShownAt, PlaceOf
<1>10. \A q \in Procs, g \in Fds : q # p \/ g # f => After(q, g) = Before(q, g)
  BY <1>1, <1>2, <1>8 DEF Before, After, ShownAt, PlaceOf
<1>11. CASE o.name = NULL \/ got = << >>
  <2>1. Silent
    BY <1>2, <1>11 DEF NoRead, Silent
  <2>2. After(p, f) = Before(p, f)
    <3>1. CASE o.name = NULL
      BY <1>9, <3>1, IdleShown
    <3>2. CASE got = << >>
      BY <1>5, <1>6, <1>9, <3>2
    <3> QED BY <1>11, <3>1, <3>2
  <2>3. HandleMap' = HandleMap
    BY <1>10, <2>2, HandleStays
  <2> QED BY <1>7, <2>1, <2>3, Quiet
<1>12. CASE o.name # NULL /\ got # << >>
  <2>1. PICK n \in Names : n = o.name
    BY <1>5, <1>12 DEF Handle
  <2>2. dir[n] # NoEntry /\ d.size = dir[n].size /\ o.bytes = Text(fat, data, dir[n])
    BY <1>1, <1>3, <1>4, <1>12, <2>1 DEF Handles, Keeps
  <2>3. Len(o.bytes) = d.size /\ d.size \in Nat
    BY <1>3, <2>2, TextFacts
  <2>4. k \in 0 .. Len(o.bytes) - from
    BY <1>4, <1>5, <1>6, <1>12, <2>3
  <2>5. /\ HandleMap' = [HandleMap EXCEPT ![<<p, f>>] = After(p, f)]
        /\ HandleMap[<<p, f>>] = Before(p, f) /\ <<p, f>> \in Procs \X Fds
    BY <1>4, <1>10, HandleChanges
  <2>6. PICK h, a : h = <<p, f>> /\ a = HandleMap[h]
    OBVIOUS
  <2>7. a = [name |-> o.name, bytes |-> o.bytes, pos |-> from]
    BY <1>9, <1>12, <2>5, <2>6 DEF Shown
  <2>8. After(p, f) = [a EXCEPT !.pos = a.pos + k]
    BY <1>6, <1>9, <1>12, <2>7 DEF Shown
  <2>9. HandleMap' = [HandleMap EXCEPT ![h].pos = @ + k]
    BY <2>5, <2>6, <2>8
  <2>10. a.name # NULL /\ k \in 0 .. Len(a.bytes) - a.pos
    BY <1>12, <2>4, <2>7
  <2>11. returned'.bytes = SubSeq(a.bytes, a.pos + 1, a.pos + k)
    BY <1>2, <1>4, <1>6, <1>12, <2>7
  <2>12. Promise!Read(h)
    BY <1>2, <1>7, <1>12, <2>6, <2>9, <2>10, <2>11 DEF Promise!Read, Promise!NoneLost
  <2> QED BY <2>5, <2>6, <2>12 DEF Promise!Next, Promise!Handles
<1> QED BY <1>11, <1>12

LEMMA LseekMaps ==
    ASSUME IInv, IInv', NEW p \in Procs, NEW f \in Fds, NEW offset \in OFFSETS, NEW whence \in 0 .. 2,
           sys_lseek(p, f, offset, whence)
    PROVE  Promise!Next
<1>1. PICK d, o, pos : d = fds[p][f] /\ o = opened[p][f] /\ pos = Base(d, whence) + offset
  OBVIOUS
<1>2. PICK j : /\ fds' = [fds EXCEPT ![p][f] = Sought(fds[p][f], pos, j)]
               /\ opened' = [opened EXCEPT ![p][f].cut = (j # 0 /\ opened[p][f].name # NULL)]
  BY <1>1 DEF sys_lseek
<1>3. Idle /\ Nothing /\ d.kind = "READ" /\ UNCHANGED <<store, wbuf, call>>
  BY <1>1 DEF sys_lseek
<1>4. /\ fds \in Grid(Descriptor) /\ opened \in Grid(Handle) /\ fds' \in Grid(Descriptor)
  BY DEF IInv, Types
<1>5. d \in Descriptor /\ o \in Handle
  BY <1>1, <1>4 DEF Grid
<1>6. PICK e, u : /\ e = Sought(d, pos, j) /\ u = [o EXCEPT !.cut = (j # 0 /\ o.name # NULL)]
  OBVIOUS
<1>7. fds' = SlotSet(fds, p, f, e) /\ opened' = SlotSet(opened, p, f, u)
  BY <1>1, <1>2, <1>6 DEF SlotSet
<1>8. /\ fds'[p][f] = e /\ opened'[p][f] = u
      /\ \A q \in Procs, g \in Fds : q # p \/ g # f => fds'[q][g] = fds[q][g]
      /\ \A q \in Procs, g \in Fds : q # p \/ g # f => opened'[q][g] = opened[q][g]
  BY <1>4, <1>7, SlotFacts
<1>9. e.kind = "READ" /\ e.pos \in Nat
  <2>1. e.kind = d.kind
    BY <1>5, <1>6 DEF Sought, Descriptor
  <2>2. e \in Descriptor
    BY <1>4, <1>8 DEF Grid
  <2> QED BY <1>3, <2>1, <2>2 DEF Descriptor
<1>10. u.name = o.name /\ u.bytes = o.bytes
  BY <1>5, <1>6 DEF Handle
<1>11. call.op # "read" /\ call'.op # "read" /\ Silent
  BY <1>3, NotReading
<1>12. /\ Before(p, f) = Shown(o, d.pos) /\ After(p, f) = Shown(o, e.pos)
       /\ \A q \in Procs, g \in Fds : q # p \/ g # f => After(q, g) = Before(q, g)
  <2>1. Before(p, f) = Shown(o, d.pos) /\ After(p, f) = Shown(u, e.pos)
    BY <1>1, <1>8, <1>11, IdleShown
  <2>2. Shown(u, e.pos) = Shown(o, e.pos)
    BY <1>10 DEF Shown
  <2>3. ASSUME NEW q \in Procs, NEW g \in Fds, q # p \/ g # f PROVE After(q, g) = Before(q, g)
    <3>1. fds'[q][g] = fds[q][g] /\ opened'[q][g] = opened[q][g]
      BY <1>8, <2>3
    <3> QED BY <1>11, <3>1, IdleShown
  <2> QED BY <2>1, <2>2, <2>3
<1>13. FileMap' = FileMap /\ BufferMap' = BufferMap /\ cwd' = cwd
  <2>1. \A q \in Procs, g \in Fds : \A w : Uses(fds'[q][g], w) <=> Uses(fds[q][g], w)
    BY <1>1, <1>3, <1>8, <1>9 DEF Uses
  <2> QED BY <1>3, <2>1, BufferStays, DiskStays
<1>14. CASE o.name = NULL
  <2>1. After(p, f) = Before(p, f)
    BY <1>12, <1>14, IdleShown
  <2>2. HandleMap' = HandleMap
    BY <1>12, <2>1, HandleStays
  <2> QED BY <1>11, <1>13, <2>2, Quiet
<1>15. CASE o.name # NULL
  <2>1. PICK h, a, v : h = <<p, f>> /\ a = HandleMap[h] /\ v = HandleMap'[h]
    OBVIOUS
  <2>2. /\ HandleMap' = [HandleMap EXCEPT ![h] = After(p, f)] /\ a = Before(p, f)
        /\ h \in Procs \X Fds /\ v = After(p, f)
    BY <1>12, <2>1, HandleChanges
  <2>3. /\ a = [name |-> o.name, bytes |-> o.bytes, pos |-> d.pos]
        /\ v = [name |-> o.name, bytes |-> o.bytes, pos |-> e.pos]
    BY <1>12, <1>15, <2>2 DEF Shown
  <2>4. v = [a EXCEPT !.pos = v.pos] /\ v.pos \in Nat /\ a.name # NULL
    BY <1>9, <1>15, <2>3
  <2>5. HandleMap' = [HandleMap EXCEPT ![h].pos = v.pos]
    BY <2>1, <2>2, <2>4
  <2>6. Promise!Seek(h)
    BY <1>11, <1>13, <2>1, <2>4, <2>5
       DEF Promise!Seek, Promise!NoneRead, Promise!NoneLost, Silent
  <2> QED BY <2>2, <2>6 DEF Promise!Next, Promise!Handles
<1> QED BY <1>14, <1>15

LEMMA PrefixKept ==
    ASSUME NEW s \in Seq(Bytes), NEW t \in Seq(Bytes)
    PROVE  Len(s) <= Len(s \o t) /\ SubSeq(s \o t, 1, Len(s)) = s
<1>1. PICK u : u = s \o t
  OBVIOUS
<1>2. /\ u \in Seq(Bytes) /\ Len(u) = Len(s) + Len(t) /\ Len(s) \in Nat /\ Len(t) \in Nat
      /\ \A i \in 1 .. Len(s) : u[i] = s[i]
  BY <1>1, ConcatProperties
<1>3. PICK v, k : v = SubSeq(u, 1, k) /\ k = Len(s)
  OBVIOUS
<1>4. v \in Seq(Bytes) /\ Len(v) = k /\ \A i \in 1 .. k : v[i] = u[i]
  <2>1. \A i \in 1 .. k : u[i] \in Bytes
    BY <1>2, <1>3
  <2>2. k \in Int /\ 1 \in Int
    BY <1>2, <1>3
  <2>3. /\ SubSeq(u, 1, k) \in Seq(Bytes) /\ Len(SubSeq(u, 1, k)) = IF 1 <= k THEN k - 1 + 1 ELSE 0
        /\ \A i \in 1 .. k - 1 + 1 : SubSeq(u, 1, k)[i] = u[1 + i - 1]
    BY <2>1, <2>2, SubSeqProperties
  <2>4. k \in Nat /\ k - 1 + 1 = k /\ (~(1 <= k) => k = 0) /\ \A i \in 1 .. k : 1 + i - 1 = i
    BY <1>2, <1>3
  <2> QED BY <1>3, <2>3, <2>4
<1>5. v = s
  <2>1. Len(v) = Len(s) /\ \A i \in 1 .. Len(v) : v[i] = s[i]
    BY <1>2, <1>3, <1>4
  <2> QED BY <1>4, <2>1, SeqEqual
<1> QED BY <1>1, <1>2, <1>3, <1>5

LEMMA WriteMaps ==
    ASSUME IInv, NEW p \in Procs, NEW f \in Fds, NEW b \in WRITES, sys_write_fd(p, f, b)
    PROVE  Promise!Next
<1>1. PICK w : w = fds[p][f].wbuf
  OBVIOUS
<1>2. /\ Idle /\ Nothing /\ fds[p][f].kind = "WRITE" /\ wbuf' = Appended(w, b)
      /\ UNCHANGED <<store, fds, call, opened>>
  BY <1>1 DEF sys_write_fd
<1>3. Counts(fds, wbuf) /\ wbuf \in [Wbufs -> Buffer]
  BY DEF IInv, Types
<1>4. w \in Wbufs
  BY <1>1, <1>2, <1>3 DEF Counts
<1>5. PICK x, m, t, y : /\ x = wbuf[w] /\ m = Least(Len(b), WBUF_CAP - Len(x.buf))
                        /\ t = SubSeq(b, 1, m) /\ y = [x EXCEPT !.buf = x.buf \o t]
  OBVIOUS
<1>6. wbuf' = [wbuf EXCEPT ![w] = y]
  BY <1>2, <1>3, <1>4, <1>5 DEF Appended
<1>7. x \in Buffer /\ x.buf \in Seq(Bytes) /\ Len(x.buf) \in Nat /\ Len(x.buf) <= WBUF_CAP
  BY <1>3, <1>4, <1>5 DEF Buffer
<1>8. t \in Seq(Bytes)
  <2>1. PICK j \in Nat, k \in Nat : j = Len(x.buf) /\ k = Len(b) /\ j <= WBUF_CAP
    BY <1>7, FilesAssumption
  <2>2. WBUF_CAP \in Nat /\ b \in Seq(Bytes)
    BY FilesAssumption
  <2>3. m \in Nat /\ m <= k
    <3>1. m = Least(k, WBUF_CAP - j)
      BY <1>5, <2>1
    <3> QED BY <2>1, <2>2, <3>1 DEF Least
  <2>4. \A i \in 1 .. m : b[i] \in Bytes
    BY <2>1, <2>2, <2>3
  <2> QED BY <1>5, <2>3, <2>4, SubSeqProperties
<1>9. y.path = x.path /\ y.buf = x.buf \o t
  BY <1>5, <1>7 DEF Buffer
<1>10. /\ wbuf'[w] = y /\ \A v \in Wbufs : v # w => wbuf'[v] = wbuf[v]
  BY <1>3, <1>4, <1>6
<1>11. PICK a, c, S : a = BufferMap[w] /\ c = BufferMap'[w] /\ S = Users(fds, w)
  OBVIOUS
<1>12. a = BufferOf(x, S) /\ c = BufferOf(y, S)
  BY <1>2, <1>4, <1>5, <1>10, <1>11, BuffersMapped DEF BuffersOf
<1>13. c = [a EXCEPT !.bytes = c.bytes] /\ a.by = S /\ a.bytes = x.buf /\ c.bytes = x.buf \o t
  <2>1. PICK i, j, k : i = x.path /\ j = x.buf /\ k = x.buf \o t
    OBVIOUS
  <2>2. a = [path |-> i, bytes |-> j, by |-> S] /\ c = [path |-> i, bytes |-> k, by |-> S]
    BY <1>9, <1>12, <2>1 DEF BufferOf
  <2>3. c = [a EXCEPT !.bytes = c.bytes]
    BY <2>2
  <2>4. a.by = S /\ a.bytes = j /\ c.bytes = k
    BY <2>2
  <2> QED BY <2>1, <2>3, <2>4
<1>14. BufferMap' = [BufferMap EXCEPT ![w].bytes = c.bytes]
  <2>1. \A v \in Wbufs : v # w => BufferMap'[v] = BufferMap[v]
    BY <1>2, <1>10, BuffersMapped DEF BuffersOf
  <2>2. /\ BufferMap = [v \in Wbufs |-> BufferMap[v]] /\ BufferMap' = [v \in Wbufs |-> BufferMap'[v]]
    BY DEF BufferMap
  <2>3. BufferMap' = [BufferMap EXCEPT ![w] = c]
    BY <1>11, <2>1, <2>2
  <2> QED BY <1>11, <1>13, <2>3
<1>15. S # {}
  <2>1. Uses(fds[p][f], w)
    BY <1>1, <1>2 DEF Uses
  <2> QED BY <1>11, <2>1, UsersMember
<1>16. Len(a.bytes) <= Len(c.bytes) /\ SubSeq(c.bytes, 1, Len(a.bytes)) = a.bytes
  BY <1>7, <1>8, <1>13, PrefixKept
<1>17. FileMap' = FileMap /\ cwd' = cwd /\ Silent
  BY <1>2, DiskStays, NotReading
<1>18. HandleMap' = HandleMap
  <2>1. \A q \in Procs, g \in Fds : After(q, g) = Before(q, g)
    BY <1>2 DEF After, Before, ShownAt, PlaceOf
  <2> QED BY <2>1, HandleStays
<1>19. Promise!Write(w)
  BY <1>11, <1>13, <1>14, <1>15, <1>16, <1>17, <1>18
     DEF Promise!Write, Promise!NoneRead, Promise!NoneLost, Silent
<1> QED BY <1>4, <1>19 DEF Promise!Next

LEMMA CreateMaps ==
    ASSUME IInv, NEW p \in Procs, process_create(p)
    PROVE  Promise!Next
<1>1. /\ Idle /\ Nothing /\ p \notin alive /\ fds' = RowSet(fds, p, StdFds)
      /\ UNCHANGED <<store, wbuf, call, opened>>
  BY DEF process_create, RowSet
<1>2. call.op # "read" /\ call'.op # "read" /\ Silent
  BY <1>1, NotReading
<1>3. fds \in Grid(Descriptor)
  BY DEF IInv, Types
<1>4. \A f \in Fds : fds[p][f].kind # "WRITE" /\ opened[p][f].name = NULL
  BY <1>1, Constants DEF IInv, DeadEmpty
<1>5. fds'[p] = StdFds /\ \A q \in Procs : q # p => fds'[q] = fds[q]
  BY <1>1, <1>3, RowFacts
<1>6. \A q \in Procs, f \in Fds : After(q, f) = Before(q, f)
  <2> TAKE q \in Procs, f \in Fds
  <2>1. CASE q = p
    BY <1>1, <1>2, <1>4, <2>1, IdleShown
  <2>2. CASE q # p
    BY <1>1, <1>2, <1>5, <2>2, IdleShown
  <2> QED BY <2>1, <2>2
<1>7. \A q \in Procs, f \in Fds : \A w : Uses(fds'[q][f], w) <=> Uses(fds[q][f], w)
  <2>1. \A f \in Fds : StdFds[f].kind # "WRITE"
    BY Constants
  <2> QED BY <1>4, <1>5, <2>1 DEF Uses
<1>8. HandleMap' = HandleMap /\ BufferMap' = BufferMap /\ FileMap' = FileMap /\ cwd' = cwd
  BY <1>1, <1>6, <1>7, HandleStays, BufferStays, DiskStays
<1> QED BY <1>2, <1>8, Quiet

\* Closing and sharing change counts, or drop a buffer.
Retained == \A w \in Wbufs : \/ wbuf'[w].path = NULL
                             \/ wbuf'[w].path = wbuf[w].path /\ wbuf'[w].buf = wbuf[w].buf

LEMMA UnrefRetains ==
    ASSUME NEW W \in [Wbufs -> Buffer], NEW d, d.kind = "WRITE" => d.wbuf \in Wbufs, NEW w \in Wbufs
    PROVE  \/ UnrefOf(W, d)[w].path = NULL
           \/ UnrefOf(W, d)[w].path = W[w].path /\ UnrefOf(W, d)[w].buf = W[w].buf
<1>1. CASE d.kind # "WRITE"
  BY <1>1 DEF UnrefOf
<1>2. CASE d.kind = "WRITE"
  <2>1. PICK v \in Wbufs : v = d.wbuf
    BY <1>2
  <2>2. PICK x \in Buffer : x = W[v]
    OBVIOUS
  <2>3. PICK y : y = IF x.refcount > 1 THEN [x EXCEPT !.refcount = x.refcount - 1] ELSE NoWbuf
    OBVIOUS
  <2>4. UnrefOf(W, d) = [W EXCEPT ![v] = y]
    BY <1>2, <2>1, <2>2, <2>3 DEF UnrefOf, Unref
  <2>5. \A k : [x EXCEPT !.refcount = k].path = x.path /\ [x EXCEPT !.refcount = k].buf = x.buf
    BY DEF Buffer
  <2>6. NoWbuf.path = NULL
    BY DEF NoWbuf
  <2>7. y.path = NULL \/ (y.path = x.path /\ y.buf = x.buf)
    BY <2>3, <2>5, <2>6
  <2> QED BY <2>2, <2>4, <2>7
<1> QED BY <1>1, <1>2

LEMMA RefRetains ==
    ASSUME NEW W \in [Wbufs -> Buffer], NEW d, d.kind = "WRITE" => d.wbuf \in Wbufs, NEW w \in Wbufs
    PROVE  RefOf(W, d)[w].path = W[w].path /\ RefOf(W, d)[w].buf = W[w].buf
<1>1. CASE d.kind # "WRITE"
  BY <1>1 DEF RefOf
<1>2. CASE d.kind = "WRITE"
  <2>1. PICK v \in Wbufs : v = d.wbuf
    BY <1>2
  <2>2. PICK x \in Buffer : x = W[v]
    OBVIOUS
  <2>3. PICK k, y : k = x.refcount + 1 /\ y = [x EXCEPT !.refcount = k]
    OBVIOUS
  <2>4. RefOf(W, d) = [W EXCEPT ![v] = y]
    BY <1>2, <2>1, <2>2, <2>3 DEF RefOf, Ref
  <2>5. y.path = x.path /\ y.buf = x.buf
    BY <2>3 DEF Buffer
  <2> QED BY <2>2, <2>4, <2>5
<1> QED BY <1>1, <1>2

LEMMA KeptBuffers ==
    ASSUME Counts(fds', wbuf'), Retained,
           \A w \in Wbufs : Users(fds', w) # {} => Users(fds, w) # {}
    PROVE  BuffersKept
<1>1. ASSUME NEW w \in Wbufs, Users(fds', w) # {}
      PROVE  wbuf'[w].path = wbuf[w].path /\ wbuf'[w].buf = wbuf[w].buf
  <2>1. wbuf'[w].path \in Paths
    BY <1>1, UnusedBuffer
  <2> QED BY <2>1, FilesAssumption DEF Retained
<1> QED BY <1>1 DEF BuffersKept

\* What slot f of p is given: nothing, or what slot g has.
Given(p, f, R, e, u) ==
    \/ e.kind # "WRITE" /\ u = Unknown
    \/ \E g \in Fds \ {f} : e = fds[p][g] /\ u = Outdated(R)[p][g]

\* Only the buffer of the slot can lose its last descriptor with it.
LEMMA OthersNotEmptied ==
    ASSUME IInv, NEW p \in Procs, NEW f \in Fds, NEW e, fds' = SlotSet(fds, p, f, e),
           NEW w \in Wbufs, Emptied(w)
    PROVE  /\ Uses(fds[p][f], w) /\ Tally(fds, w) = 1
           /\ \A q \in Procs, g \in Fds : q # p \/ g # f => ~Uses(fds[q][g], w)
<1>1. fds \in Grid(Descriptor)
  BY DEF IInv, Types
<1>2. \A q \in Procs, g \in Fds : q # p \/ g # f => fds'[q][g] = fds[q][g]
  BY <1>1, SlotFacts
<1>3. \A q \in Procs, g \in Fds : ~Uses(fds'[q][g], w)
  BY UsersMember DEF Emptied
<1>4. \A q \in Procs, g \in Fds : q # p \/ g # f => ~Uses(fds[q][g], w)
  BY <1>2, <1>3
<1>5. \E q \in Procs, g \in Fds : Uses(fds[q][g], w)
  BY DEF Users, Emptied
<1>6. Uses(fds[p][f], w)
  BY <1>4, <1>5
<1>7. Users(fds, w) = {<<p, f>>}
  <2>1. \A r \in Procs, g \in Fds : <<r, g>> \in Users(fds, w) <=> <<r, g>> \in {<<p, f>>}
    BY <1>4, <1>6, UsersMember
  <2>2. Users(fds, w) \in SUBSET (Procs \X Fds) /\ {<<p, f>>} \in SUBSET (Procs \X Fds)
    BY UsersMember
  <2> QED BY <2>1, <2>2, SameUsers
<1>8. Tally(fds, w) = 1
  BY <1>7, FS_Singleton DEF Tally
<1> QED BY <1>4, <1>6, <1>8

\* The last descriptor of a buffer is the only one.
LEMMA LastEmpties ==
    ASSUME IInv, NEW p \in Procs, NEW f \in Fds, NEW w \in Wbufs, Uses(fds[p][f], w),
           Tally(fds, w) = 1, NEW R, NEW e, NEW u, Given(p, f, R, e, u),
           fds' = SlotSet(fds, p, f, e)
    PROVE  Emptied(w)
<1>1. fds \in Grid(Descriptor)
  BY DEF IInv, Types
<1>2. PICK F : F = SlotSet(fds, p, f, Closed)
  OBVIOUS
<1>3. Users(F, w) = {}
  <2>1. ~Uses(Closed, w)
    BY Constants DEF Uses
  <2>2. Tally(F, w) = Tally(fds, w) - 1 + 0
    BY <1>1, <1>2, <2>1, TallySlot
  <2>3. Tally(F, w) = 0 /\ Users(F, w) \in SUBSET (Procs \X Fds)
    BY <2>2, UsersMember
  <2> QED BY <2>3, UsersFinite DEF Tally
<1>4. \A q \in Procs, g \in Fds : q # p \/ g # f => F[q][g] = fds[q][g] /\ fds'[q][g] = fds[q][g]
  BY <1>1, <1>2, SlotFacts
<1>5. \A q \in Procs, g \in Fds : q # p \/ g # f => ~Uses(fds[q][g], w)
  <2>1. \A q \in Procs, g \in Fds : <<q, g>> \in Users(F, w) <=> Uses(F[q][g], w)
    BY UsersMember
  <2>2. \A q \in Procs, g \in Fds : ~Uses(F[q][g], w)
    BY <1>3, <2>1
  <2> QED BY <1>4, <2>2
<1>6. fds'[p][f] = e /\ ~Uses(e, w)
  <2>1. fds'[p][f] = e
    BY <1>1, SlotFacts
  <2>2. CASE e.kind # "WRITE"
    BY <2>1, <2>2 DEF Uses
  <2>3. CASE \E g \in Fds \ {f} : e = fds[p][g]
    BY <1>5, <2>1, <2>3
  <2> QED BY <2>2, <2>3 DEF Given
<1>7. \A q \in Procs, g \in Fds : ~Uses(fds'[q][g], w)
  BY <1>4, <1>5, <1>6
<1>8. Users(fds', w) = {}
  BY <1>7 DEF Users
<1>9. Users(fds, w) # {}
  BY UsersMember
<1> QED BY <1>8, <1>9 DEF Emptied

\* A close commits a buffer exactly when it is the last.
LEMMA CloseCommits ==
    ASSUME IInv, NEW p \in Procs, NEW f \in Fds, NEW R \in SUBSET Names, Commits(fds[p][f], R),
           NEW e, NEW u, Given(p, f, R, e, u), fds' = SlotSet(fds, p, f, e)
    PROVE  Committed(R)
<1>1. DiskOK(fat, data, dir) /\ faults \in 0 .. MAXFAULTS /\ fds \in Grid(Descriptor)
  BY DEF IInv, Types
<1>2. CASE LastOf(fds[p][f])
  <2>1. PICK w \in Wbufs : w = fds[p][f].wbuf
    BY <1>2, BufferThere DEF LastOf
  <2>2. wbuf[w].buf \in Seq(Bytes) /\ Tally(fds, w) = 1
    BY <1>2, <2>1, BufferThere DEF LastOf
  <2>3. Uses(fds[p][f], w) /\ \A v \in Wbufs : Uses(fds[p][f], v) => v = w
    BY <1>2, <2>1 DEF Uses, LastOf
  <2>4. Emptied(w)
    BY <2>2, <2>3, LastEmpties
  <2>5. \A v \in Wbufs : Emptied(v) <=> v = w
    BY <2>3, <2>4, OthersNotEmptied
  <2>6. PICK x, n : x = wbuf[w] /\ n = FileAt[cwd][x.path]
    OBVIOUS
  <2>7. Commit(x, R)
    BY <1>2, <2>1, <2>6 DEF Commits
  <2>8. CASE n \in Names /\ R = {n} /\ Wrote(n, x.buf) /\ Nothing
    <3>1. dir'[n] # NoEntry /\ Text(fat', data', dir'[n]) = x.buf
      BY <1>1, <2>2, <2>6, <2>8, WroteReplaces
    <3>2. Saved(w, n, R)
      BY <2>6, <2>8, <3>1 DEF Saved
    <3> QED BY <2>5, <2>6, <3>2 DEF Committed
  <2>9. CASE n \in Names /\ WriteFails(n, x.buf, R) /\ Unwritten
    <3>1. R \subseteq {n} /\ (R # {} => dir'[n] = NoEntry)
      BY <1>1, <2>2, <2>6, <2>9, FailsReplaces
    <3>2. Dropped(n, R)
      BY <2>9, <3>1 DEF Dropped
    <3> QED BY <2>5, <2>6, <3>2 DEF Committed
  <2>10. CASE n = NULL /\ R = {} /\ UNCHANGED <<store, faults>> /\ Unwritten
    <3>1. Dropped(n, R)
      BY <2>10 DEF Dropped
    <3> QED BY <2>5, <2>6, <3>1 DEF Committed
  <2> QED BY <2>6, <2>7, <2>8, <2>9, <2>10 DEF Commit
<1>3. CASE ~LastOf(fds[p][f])
  <2>1. Nothing /\ R = {}
    BY <1>3 DEF Commits
  <2>2. ASSUME NEW w \in Wbufs, Emptied(w) PROVE FALSE
    <3>1. Uses(fds[p][f], w) /\ Tally(fds, w) = 1
      BY <2>2, OthersNotEmptied
    <3> QED BY <1>3, <3>1, BufferThere DEF LastOf, Uses
  <2> QED BY <2>1, <2>2 DEF Committed
<1> QED BY <1>2, <1>3

LEMMA SlotArranges ==
    ASSUME IInv, IInv', NEW p \in Procs, NEW f \in Fds, NEW R \in SUBSET Names,
           Commits(fds[p][f], R), NEW e, NEW u, Given(p, f, R, e, u),
           fds' = SlotSet(fds, p, f, e), opened' = SlotSet(Outdated(R), p, f, u),
           Retained, call.op # "read", call'.op # "read"
    PROVE  Promise!Next
<1>1. Counts(fds, wbuf) /\ Counts(fds', wbuf') /\ fds \in Grid(Descriptor) /\ opened \in Grid(Handle)
  BY DEF IInv, Types
<1>2. Committed(R)
  BY CloseCommits
<1>3. Replaced(R) /\ cwd' = cwd
  BY CommitsReplaces
<1>4. Outdated(R) \in Grid(Handle)
  BY <1>1, <1>3, OutdatedFacts
<1>5. /\ fds'[p][f] = e /\ opened'[p][f] = u
      /\ \A q \in Procs, g \in Fds : q # p \/ g # f => fds'[q][g] = fds[q][g]
      /\ \A q \in Procs, g \in Fds : q # p \/ g # f => opened'[q][g] = Outdated(R)[q][g]
  BY <1>1, <1>4, SlotFacts
<1>6. OthersKept(p, R)
  BY <1>5 DEF OthersKept
<1>7. OwnRearranged(p, R)
  <2> SUFFICES ASSUME NEW g \in Fds, opened'[p][g] # Unknown
               PROVE  \E q \in Procs, h \in Fds : /\ opened'[p][g] = Outdated(R)[q][h]
                                                  /\ fds'[p][g].pos = fds[q][h].pos
    BY DEF OwnRearranged
  <2>1. CASE g # f
    BY <1>5, <2>1
  <2>2. CASE g = f
    <3>1. PICK h \in Fds \ {f} : e = fds[p][h] /\ u = Outdated(R)[p][h]
      BY <1>5, <2>2 DEF Given
    <3> QED BY <1>5, <2>2, <3>1
  <2> QED BY <2>1, <2>2
<1>8. BuffersKept
  <2>1. ASSUME NEW w \in Wbufs, Users(fds', w) # {} PROVE Users(fds, w) # {}
    <3>1. PICK q \in Procs, g \in Fds : Uses(fds'[q][g], w)
      BY <2>1 DEF Users
    <3>2. \E r \in Procs, h \in Fds : Uses(fds[r][h], w)
      <4>1. CASE q # p \/ g # f
        BY <1>5, <3>1, <4>1
      <4>2. CASE q = p /\ g = f
        <5>1. Uses(e, w) /\ e.kind = "WRITE"
          BY <1>5, <3>1, <4>2 DEF Uses
        <5>2. PICK h \in Fds \ {f} : e = fds[p][h]
          BY <5>1 DEF Given
        <5> QED BY <5>1, <5>2
      <4> QED BY <4>1, <4>2
    <3> QED BY <3>2, UsersMember
  <2> QED BY <1>1, <2>1, KeptBuffers
<1> QED BY <1>1, <1>2, <1>3, <1>6, <1>7, <1>8, ArrangeStep

LEMMA CloseMaps ==
    ASSUME IInv, IInv', NEW p \in Procs, NEW f \in Fds, sys_close(p, f)
    PROVE  Promise!Next
<1>1. PICK R \in SUBSET Names : /\ Commits(fds[p][f], R)
                                /\ opened' = SlotSet(Outdated(R), p, f, Unknown)
  BY DEF sys_close, SlotSet
<1>2. /\ fds' = SlotSet(fds, p, f, Closed) /\ wbuf' = UnrefOf(wbuf, fds[p][f])
      /\ Idle /\ call' = call
  BY DEF sys_close, SlotSet
<1>3. Given(p, f, R, Closed, Unknown)
  BY Constants DEF Given
<1>4. Retained
  <2>1. wbuf \in [Wbufs -> Buffer] /\ (fds[p][f].kind = "WRITE" => fds[p][f].wbuf \in Wbufs)
    BY DEF IInv, Types, Counts
  <2> QED BY <1>2, <2>1, UnrefRetains DEF Retained
<1>5. call.op # "read" /\ call'.op # "read"
  BY <1>2, NotReading
<1> QED BY <1>1, <1>2, <1>3, <1>4, <1>5, SlotArranges

LEMMA Dup2Maps ==
    ASSUME IInv, IInv', NEW p \in Procs, NEW f \in Fds, NEW g \in Fds, sys_dup2(p, f, g)
    PROVE  Promise!Next
<1>1. PICK R \in SUBSET Names : /\ Commits(fds[p][g], R)
                                /\ opened' = SlotSet(Outdated(R), p, g, Outdated(R)[p][f])
  BY DEF sys_dup2, SlotSet
<1>2. PICK d, u : d = fds[p][f] /\ u = Outdated(R)[p][f]
  OBVIOUS
<1>3. /\ fds' = SlotSet(fds, p, g, d) /\ wbuf' = RefOf(UnrefOf(wbuf, fds[p][g]), d)
      /\ Idle /\ call' = call /\ f # g
  BY <1>2 DEF sys_dup2, SlotSet
<1>4. Given(p, g, R, d, u)
  BY <1>2, <1>3 DEF Given
<1>5. Retained
  <2>1. PICK W : W = UnrefOf(wbuf, fds[p][g])
    OBVIOUS
  <2>2. /\ wbuf \in [Wbufs -> Buffer] /\ (fds[p][g].kind = "WRITE" => fds[p][g].wbuf \in Wbufs)
        /\ d.kind = "WRITE" => d.wbuf \in Wbufs
        /\ fds \in Grid(Descriptor) /\ Counts(fds, wbuf)
    BY <1>2 DEF IInv, Types, Counts
  <2>3. W \in [Wbufs -> Buffer]
    BY <2>1, <2>2, UnrefCounts
  <2>4. \A w \in Wbufs : W[w].path = NULL \/ (W[w].path = wbuf[w].path /\ W[w].buf = wbuf[w].buf)
    BY <2>1, <2>2, UnrefRetains
  <2>5. \A w \in Wbufs : wbuf'[w].path = W[w].path /\ wbuf'[w].buf = W[w].buf
    BY <1>3, <2>1, <2>2, <2>3, RefRetains
  <2> QED BY <2>4, <2>5 DEF Retained
<1>6. call.op # "read" /\ call'.op # "read" /\ opened' = SlotSet(Outdated(R), p, g, u)
  BY <1>1, <1>2, <1>3, NotReading
<1> QED BY <1>1, <1>3, <1>4, <1>5, <1>6, SlotArranges

LEMMA ExitTurnMaps ==
    ASSUME IInv, IInv', ExitTurn
    PROVE  Promise!Next
<1>1. PICK p, f : /\ p = call.p /\ f \in Fds /\ fds[p][f].kind = "WRITE"
                  /\ wbuf' = UnrefOf(wbuf, fds[p][f])
                  /\ fds' = SlotSet(fds, p, f, Closed)
                  /\ \E R \in SUBSET Names : Commits(fds[p][f], R) /\ opened' = Outdated(R)
  BY DEF ExitTurn, FirstWritable, SlotSet
<1>2. call.op # "read" /\ call'.op # "read" /\ call.op = "exit"
  BY DEF ExitTurn
<1>3. p \in Procs
  BY <1>1, <1>2 DEF IInv, Types, CallSound
<1>4. PICK R \in SUBSET Names : Commits(fds[p][f], R) /\ opened' = Outdated(R)
  BY <1>1
<1>5. opened' = SlotSet(Outdated(R), p, f, Unknown)
  <2>1. opened[p][f] = Unknown
    BY <1>1, <1>3, WritableUnknown
  <2>2. PICK O : O = Outdated(R)
    OBVIOUS
  <2>3. Replaced(R) /\ opened \in Grid(Handle)
    BY <1>1, <1>3, <1>4, CommitsReplaces DEF IInv, Types
  <2>4. O[p][f] = Unknown /\ O \in Grid(Handle)
    BY <1>1, <1>3, <2>1, <2>2, <2>3, OutdatedFacts
  <2>5. O = SlotSet(O, p, f, Unknown)
    BY <1>1, <1>3, <2>4 DEF SlotSet, Grid
  <2> QED BY <1>4, <2>2, <2>5
<1>6. Given(p, f, R, Closed, Unknown)
  BY Constants DEF Given
<1>7. Retained
  <2>1. wbuf \in [Wbufs -> Buffer] /\ (fds[p][f].kind = "WRITE" => fds[p][f].wbuf \in Wbufs)
    BY <1>1, <1>3 DEF IInv, Types, Counts
  <2> QED BY <1>1, <2>1, UnrefRetains DEF Retained
<1>8. f \in Fds /\ fds' = SlotSet(fds, p, f, Closed)
  BY <1>1
<1> QED BY <1>2, <1>3, <1>4, <1>5, <1>6, <1>7, <1>8, SlotArranges

\* The descriptors of a process change as a whole.
LEMMA RowArranges ==
    ASSUME IInv, IInv', NEW p \in Procs, NEW r, NEW s, NEW q \in Procs,
           fds' = RowSet(fds, p, r), opened' = RowSet(opened, p, s),
           \A f \in Fds : s[f] = Unknown \/ (s[f] = opened[q][f] /\ r[f] = fds[q][f]),
           \A f \in Fds : r[f].kind = "WRITE" => r[f] = fds[q][f],
           \A f \in Fds : fds[p][f].kind # "WRITE",
           UNCHANGED store, Retained, Nothing, call.op # "read", call'.op # "read"
    PROVE  Promise!Next
<1>1. Counts(fds, wbuf) /\ Counts(fds', wbuf') /\ fds \in Grid(Descriptor) /\ opened \in Grid(Handle)
  BY DEF IInv, Types
<1>2. Replaced({}) /\ Outdated({}) = opened
  BY NothingReplaced
<1>3. /\ fds'[p] = r /\ opened'[p] = s
      /\ \A v \in Procs : v # p => fds'[v] = fds[v] /\ opened'[v] = opened[v]
  BY <1>1, RowFacts
<1>4. OthersKept(p, {})
  BY <1>2, <1>3 DEF OthersKept
<1>5. OwnRearranged(p, {})
  BY <1>2, <1>3 DEF OwnRearranged
<1>6. BuffersKept
  <2>1. ASSUME NEW w \in Wbufs, Users(fds', w) # {} PROVE Users(fds, w) # {}
    <3>1. PICK v \in Procs, g \in Fds : Uses(fds'[v][g], w)
      BY <2>1 DEF Users
    <3>2. \E t \in Procs, h \in Fds : Uses(fds[t][h], w)
      <4>1. CASE v # p
        BY <1>3, <3>1, <4>1
      <4>2. CASE v = p
        <5>1. Uses(r[g], w) /\ r[g].kind = "WRITE"
          BY <1>3, <3>1, <4>2 DEF Uses
        <5>2. Uses(fds[q][g], w)
          BY <5>1
        <5> QED BY <5>2
      <4> QED BY <4>1, <4>2
    <3> QED BY <3>2, UsersMember
  <2> QED BY <1>1, <2>1, KeptBuffers
<1>7. ASSUME NEW w \in Wbufs, Emptied(w) PROVE FALSE
  <2>1. PICK v \in Procs, g \in Fds : Uses(fds[v][g], w)
    BY <1>7 DEF Emptied, Users
  <2>2. v # p /\ fds'[v] = fds[v]
    BY <1>3, <2>1 DEF Uses
  <2>3. Users(fds', w) # {}
    BY <2>1, <2>2, UsersMember
  <2> QED BY <1>7, <2>3 DEF Emptied
<1>8. PICK none \in SUBSET Names : none = {}
  <2>1. {} \in SUBSET Names
    OBVIOUS
  <2> QED BY <2>1
<1>9. Committed(none) /\ Replaced(none) /\ OthersKept(p, none) /\ OwnRearranged(p, none)
  BY <1>2, <1>4, <1>5, <1>7, <1>8 DEF Committed
<1>10. cwd' = cwd
  BY DEF store
<1> QED BY <1>1, <1>6, <1>8, <1>9, <1>10, ArrangeStep

LEMMA ForkMaps ==
    ASSUME IInv, IInv', NEW p \in Procs, NEW c \in Procs, process_fork(p, c)
    PROVE  Promise!Next
<1>1. /\ Idle /\ call' = call /\ Nothing /\ fds' = RowSet(fds, c, fds[p])
      /\ opened' = RowSet(opened, c, opened[p]) /\ UNCHANGED store
  BY DEF process_fork, RowSet
<1>2. wbuf' = [w \in Wbufs |->
                 [wbuf[w] EXCEPT !.refcount = wbuf[w].refcount + Cardinality(RowUses(fds[p], w))]]
  BY DEF process_fork, RowUses, Uses
<1>3. Retained
  <2>1. ASSUME NEW w \in Wbufs PROVE wbuf'[w].path = wbuf[w].path /\ wbuf'[w].buf = wbuf[w].buf
    <3>1. PICK x, k : x = wbuf[w] /\ k = wbuf[w].refcount + Cardinality(RowUses(fds[p], w))
      OBVIOUS
    <3>2. wbuf'[w] = [x EXCEPT !.refcount = k] /\ x \in Buffer
      BY <1>2, <3>1 DEF IInv, Types
    <3>3. [x EXCEPT !.refcount = k].path = x.path /\ [x EXCEPT !.refcount = k].buf = x.buf
      BY <3>2 DEF Buffer
    <3> QED BY <3>1, <3>2, <3>3
  <2> QED BY <2>1 DEF Retained
<1>4. call.op # "read" /\ call'.op # "read"
  BY <1>1, NotReading
<1>5. PICK r, s : r = fds[p] /\ s = opened[p]
  OBVIOUS
<1>6. /\ fds' = RowSet(fds, c, r) /\ opened' = RowSet(opened, c, s)
      /\ \A f \in Fds : s[f] = opened[p][f] /\ r[f] = fds[p][f]
  BY <1>1, <1>5
<1>7. \A f \in Fds : fds[c][f].kind # "WRITE"
  BY DEF process_fork, IInv, DeadEmpty
<1> QED BY <1>1, <1>3, <1>4, <1>6, <1>7, RowArranges

LEMMA ExitEndsMaps ==
    ASSUME IInv, IInv', ExitEnds
    PROVE  Promise!Next
<1>1. PICK p, s : p = call.p /\ s = [f \in Fds |-> Unknown]
  OBVIOUS
<1>2. /\ call.op = "exit" /\ call' = NoCall /\ Nothing /\ fds' = RowSet(fds, p, StdFds)
      /\ opened' = RowSet(opened, p, s) /\ wbuf' = wbuf /\ UNCHANGED store
  BY <1>1 DEF ExitEnds, RowSet
<1>3. p \in Procs
  BY <1>1, <1>2 DEF IInv, Types, CallSound
<1>4. call.op # "read" /\ call'.op # "read"
  BY <1>2 DEF NoCall
<1>5. Retained
  BY <1>2 DEF Retained
<1>6. /\ \A f \in Fds : s[f] = Unknown
      /\ \A f \in Fds : StdFds[f].kind # "WRITE"
  BY <1>1, Constants
<1>7. \A f \in Fds : fds[p][f].kind # "WRITE"
  BY <1>1 DEF ExitEnds
<1> QED BY <1>2, <1>3, <1>4, <1>5, <1>6, <1>7, RowArranges

LEMMA OpenReadMaps ==
    ASSUME IInv, NEW p \in Procs, NEW f \in Fds, NEW n \in Names,
           Idle, Nothing, fds[p][f].kind = "NONE", OpenRead(p, f, n), UNCHANGED <<store, call>>
    PROVE  Promise!Next
<1>1. PICK e, d, b, o : /\ e = dir[n]
                        /\ d = [Closed EXCEPT !.kind = "READ", !.first_cluster = e.first,
                                              !.cur_cluster = e.first, !.size = e.size]
                        /\ b = Contents(e)
                        /\ o = [name |-> n, bytes |-> b, cut |-> FALSE]
  OBVIOUS
<1>2. /\ e # NoEntry /\ fds' = SlotSet(fds, p, f, d) /\ opened' = SlotSet(opened, p, f, o) /\ wbuf' = wbuf
  BY <1>1 DEF OpenRead, SlotSet
<1>3. d.kind = "READ" /\ d.pos = 0
  BY <1>1 DEF Closed
<1>4. fds \in Grid(Descriptor) /\ opened \in Grid(Handle)
  BY DEF IInv, Types
<1>5. /\ fds'[p][f] = d /\ opened'[p][f] = o
      /\ \A q \in Procs, g \in Fds : q # p \/ g # f => fds'[q][g] = fds[q][g]
      /\ \A q \in Procs, g \in Fds : q # p \/ g # f => opened'[q][g] = opened[q][g]
  BY <1>2, <1>4, SlotFacts
<1>6. call.op # "read" /\ call'.op # "read" /\ Silent
  BY NotReading
<1>7. /\ After(p, f) = [name |-> n, bytes |-> b, pos |-> 0]
      /\ \A q \in Procs, g \in Fds : q # p \/ g # f => After(q, g) = Before(q, g)
  <2>1. After(p, f) = Shown(o, 0)
    BY <1>3, <1>5, <1>6, IdleShown
  <2>2. o.name = n /\ o.bytes = b /\ n # NULL
    BY <1>1, Constants
  <2>3. Shown(o, 0) = [name |-> n, bytes |-> b, pos |-> 0]
    BY <2>2 DEF Shown
  <2>4. ASSUME NEW q \in Procs, NEW g \in Fds, q # p \/ g # f PROVE After(q, g) = Before(q, g)
    <3>1. fds'[q][g] = fds[q][g] /\ opened'[q][g] = opened[q][g]
      BY <1>5, <2>4
    <3> QED BY <1>6, <3>1, IdleShown
  <2> QED BY <2>1, <2>3, <2>4
<1>8. FileMap' = FileMap /\ BufferMap' = BufferMap /\ cwd' = cwd
  <2>1. \A q \in Procs, g \in Fds : \A w : Uses(fds'[q][g], w) <=> Uses(fds[q][g], w)
    BY <1>3, <1>5 DEF Uses
  <2> QED BY <1>2, <2>1, BufferStays, DiskStays
<1>9. b \in FileMap[n]
  BY <1>1, <1>2 DEF FileMap
<1>10. PICK h : h = <<p, f>>
  OBVIOUS
<1>11. HandleMap' = [HandleMap EXCEPT ![h] = [name |-> n, bytes |-> b, pos |-> 0]] /\ h \in Procs \X Fds
  BY <1>7, <1>10, HandleChanges
<1>12. Promise!Open(h, n)
  BY <1>6, <1>8, <1>9, <1>11 DEF Promise!Open, Promise!NoneRead, Promise!NoneLost, Silent
<1> QED BY <1>11, <1>12 DEF Promise!Next, Promise!Handles

LEMMA OpenWriteMaps ==
    ASSUME IInv, NEW p \in Procs, NEW f \in Fds, NEW k \in Paths,
           Idle, Nothing, fds[p][f].kind = "NONE", OpenWrite(p, f, k), UNCHANGED <<store, call>>
    PROVE  Promise!Next
<1>0. PICK n : n = Cut[k]
  OBVIOUS
<1>1. PICK w \in Wbufs : /\ wbuf[w] = NoWbuf
                         /\ wbuf' = [wbuf EXCEPT ![w] = [path |-> n, buf |-> << >>, refcount |-> 1]]
                         /\ fds' = [fds EXCEPT ![p][f] = [Closed EXCEPT !.kind = "WRITE", !.wbuf = w]]
  BY <1>0 DEF OpenWrite
<1>2. PICK d, x, h : /\ d = [Closed EXCEPT !.kind = "WRITE", !.wbuf = w]
                     /\ x = [path |-> n, buf |-> << >>, refcount |-> 1] /\ h = <<p, f>>
  OBVIOUS
<1>3. /\ fds' = SlotSet(fds, p, f, d) /\ wbuf' = [wbuf EXCEPT ![w] = x] /\ opened' = opened
  BY <1>1, <1>2 DEF OpenWrite, SlotSet
<1>4. d.kind = "WRITE" /\ d.wbuf = w /\ x.path = n /\ x.buf = << >>
  BY <1>2 DEF Closed
<1>5. /\ fds \in Grid(Descriptor) /\ Counts(fds, wbuf) /\ wbuf \in [Wbufs -> Buffer]
  BY DEF IInv, Types
<1>6. /\ fds'[p][f] = d
      /\ \A q \in Procs, g \in Fds : q # p \/ g # f => fds'[q][g] = fds[q][g]
  BY <1>3, <1>5, SlotFacts
<1>7. call.op # "read" /\ call'.op # "read" /\ Silent
  BY NotReading
<1>8. HandleMap' = HandleMap
  <2>1. opened[p][f].name = NULL
    BY WritableUnknown, Constants
  <2>2. ASSUME NEW q \in Procs, NEW g \in Fds PROVE After(q, g) = Before(q, g)
    <3>1. CASE q = p /\ g = f
      BY <1>3, <1>7, <2>1, <3>1, IdleShown
    <3>2. CASE q # p \/ g # f
      BY <1>3, <1>6, <1>7, <3>2, IdleShown
    <3> QED BY <3>1, <3>2
  <2> QED BY <2>2, HandleStays
<1>9. Users(fds, w) = {}
  <2>1. Tally(fds, w) = 0
    BY <1>1, <1>5 DEF Counts, Exact, NoWbuf
  <2> QED BY <1>5, <2>1, UnusedBuffer
<1>10. Users(fds', w) = {h}
  <2>1. \A q \in Procs, g \in Fds : ~Uses(fds[q][g], w)
    BY <1>9, UsersMember
  <2>2. \A q \in Procs, g \in Fds : Uses(fds'[q][g], w) <=> q = p /\ g = f
    BY <1>4, <1>6, <2>1 DEF Uses
  <2>3. \A q \in Procs, g \in Fds : <<q, g>> \in Users(fds', w) <=> <<q, g>> \in {h}
    BY <1>2, <2>2, UsersMember
  <2>4. Users(fds', w) \in SUBSET (Procs \X Fds) /\ {h} \in SUBSET (Procs \X Fds)
    BY <1>2, UsersMember
  <2> QED BY <2>3, <2>4, SameUsers
<1>11. \A v \in Wbufs : v # w => Users(fds', v) = Users(fds, v)
  <2>1. ASSUME NEW v \in Wbufs, v # w, NEW q \in Procs, NEW g \in Fds
        PROVE  Uses(fds'[q][g], v) <=> Uses(fds[q][g], v)
    BY <1>4, <1>6, <2>1 DEF Uses
  <2> QED BY <2>1 DEF Users
<1>12. PICK y : y = [path |-> n, bytes |-> << >>, by |-> {h}]
  OBVIOUS
<1>13. BufferMap' = [BufferMap EXCEPT ![w] = y]
  <2>1. BufferMap = BuffersOf(fds, wbuf) /\ BufferMap' = BuffersOf(fds', wbuf')
    BY BuffersMapped
  <2>2. BufferMap'[w] = y
    <3>1. wbuf'[w] = x
      BY <1>3, <1>5
    <3>2. BufferMap'[w] = BufferOf(x, {h})
      BY <1>10, <2>1, <3>1 DEF BuffersOf
    <3> QED BY <1>4, <1>12, <3>2 DEF BufferOf
  <2>3. \A v \in Wbufs : v # w => BufferMap'[v] = BufferMap[v]
    BY <1>3, <1>5, <1>11, <2>1 DEF BuffersOf
  <2>4. /\ BufferMap = [v \in Wbufs |-> BufferMap[v]] /\ BufferMap' = [v \in Wbufs |-> BufferMap'[v]]
    BY DEF BufferMap
  <2> QED BY <2>2, <2>3, <2>4
<1>14. BufferMap[w] = Promise!Unused
  <2>1. BufferMap[w] = BufferOf(wbuf[w], Users(fds, w))
    BY BuffersMapped DEF BuffersOf
  <2> QED BY <1>5, <1>9, <2>1, UnusedBuffer
<1>15. Promise!Create(h, w, k)
  BY <1>0, <1>7, <1>8, <1>12, <1>13, <1>14, DiskStays
     DEF Promise!Create, Promise!NoneRead, Promise!NoneLost, Silent
<1>16. h \in Procs \X Fds
  BY <1>2
<1> QED BY <1>15, <1>16 DEF Promise!Next, Promise!Handles

LEMMA OpenMaps ==
    ASSUME IInv, NEW p \in Procs, NEW q \in Paths, sys_open(p, q)
    PROVE  Promise!Next
<1>1. PICK f \in Fds : /\ fds[p][f].kind = "NONE"
                       /\ (\E n \in Names : OpenRead(p, f, n)) \/ OpenWrite(p, f, q)
  BY DEF sys_open, LowestClosed
<1>2. Idle /\ Nothing /\ UNCHANGED <<store, call>>
  BY DEF sys_open
<1>3. CASE \E n \in Names : OpenRead(p, f, n)
  BY <1>1, <1>2, <1>3, OpenReadMaps
<1>4. CASE OpenWrite(p, f, q)
  BY <1>1, <1>2, <1>4, OpenWriteMaps
<1> QED BY <1>1, <1>3, <1>4

Shows == <<FileAt[cwd], FileMap, HandleMap, BufferMap, returned.bytes, returned.lost>>

LEMMA StepMaps ==
    ASSUME IInv, IInv', [Next]_vars
    PROVE  [Promise!Next]_Shows
<1>1. ASSUME NEW n \in Names, sys_rmfile(n) PROVE Promise!Next
  BY <1>1, RmfileMaps
<1>2. ASSUME NEW n \in Names, NEW b \in WRITES, sys_writefile(n, b) PROVE Promise!Next
  BY <1>2, WritefileMaps
<1>3. ASSUME NEW p \in Procs, NEW q \in Paths, sys_open(p, q) PROVE Promise!Next
  BY <1>3, OpenMaps
<1>4. ASSUME NEW p \in Procs, NEW f \in Fds, NEW len \in LENS, sys_read_fd(p, f, len)
      PROVE  Promise!Next
  BY <1>4, ReadMaps
<1>5. ASSUME NEW p \in Procs, NEW f \in Fds, NEW o \in OFFSETS, NEW whence \in 0 .. 2,
             sys_lseek(p, f, o, whence)
      PROVE  Promise!Next
  BY <1>5, LseekMaps
<1>6. ASSUME NEW p \in Procs, NEW f \in Fds, NEW b \in WRITES, sys_write_fd(p, f, b)
      PROVE  Promise!Next
  BY <1>6, WriteMaps
<1>7. ASSUME NEW p \in Procs, NEW f \in Fds, sys_close(p, f) PROVE Promise!Next
  BY <1>7, CloseMaps
<1>8. ASSUME NEW p \in Procs, NEW f \in Fds, NEW g \in Fds, sys_dup2(p, f, g) PROVE Promise!Next
  BY <1>8, Dup2Maps
<1>9. CASE ReadTurn
  BY <1>9, ReadTurnMaps DEF Shows
<1>10. CASE ReadFails
  BY <1>10, ReadFailsMaps DEF Shows
<1>11. CASE ReadReturns
  BY <1>11, ReadReturnsMaps
<1>12. CASE ExitTurn
  BY <1>12, ExitTurnMaps
<1>13. CASE ExitEnds
  BY <1>13, ExitEndsMaps
<1>14. ASSUME NEW p \in Procs, process_create(p) PROVE Promise!Next
  BY <1>14, CreateMaps
<1>15. ASSUME NEW p \in Procs, process_exit(p) PROVE Promise!Next
  BY <1>15, ExitMaps
<1>16. ASSUME NEW p \in Procs, NEW c \in Procs, process_fork(p, c) PROVE Promise!Next
  BY <1>16, ForkMaps
<1>17. CASE UNCHANGED vars
  <2>1. /\ UNCHANGED store /\ fds' = fds /\ wbuf' = wbuf /\ opened' = opened /\ call' = call
        /\ returned' = returned
    BY <1>17 DEF vars
  <2>2. \A p \in Procs, f \in Fds : After(p, f) = Before(p, f)
    BY <2>1 DEF After, Before
  <2> QED BY <2>1, <2>2, HandleStays, BufferStays, DiskStays DEF Shows
<1>18. ASSUME NEW d \in Cwds, sys_chdir(d) PROVE Promise!Next
  BY <1>18, ChdirMaps
<1> QED BY <1>1, <1>2, <1>3, <1>4, <1>5, <1>6, <1>7, <1>8, <1>9, <1>10, <1>11, <1>12, <1>13,
           <1>14, <1>15, <1>16, <1>17, <1>18 DEF Next

\* The descriptors and write buffers implement OpenFiles, for any number of
\* processes, files, clusters and descriptors: a read returns the bytes the
\* file had when it was opened, from the descriptor's own position on.  A write
\* buffer is written whole, once, by the last close and by no other, to the file
\* its path leads to at that moment; it is lost only if the path leads nowhere
\* or vfs_write_file fails, and then that file is as it was, or gone.
THEOREM Refinement == Spec => RefinesOpenFiles
<1>1. Init => Promise!Init
  <2> SUFFICES ASSUME Init PROVE Promise!Init
    OBVIOUS
  <2>1. IInv
    BY InitInv
  <2>2. FileMap = [n \in Names |-> {}]
    BY DEF FileMap, Init
  <2>3. HandleMap = [h \in Procs \X Fds |-> Promise!Void]
    <3>1. \A h \in Procs \X Fds : opened[h[1]][h[2]] = Unknown
      BY DEF Init
    <3>2. \A h \in Procs \X Fds : Shown(opened[h[1]][h[2]], PlaceOf(fds, call, h[1], h[2])) = Promise!Void
      BY <3>1 DEF Shown, Unknown, Promise!Void
    <3> QED BY <3>2, HandlesMapped DEF HandlesOf
  <2>4. BufferMap = [w \in Wbufs |-> Promise!Unused]
    <3>1. ASSUME NEW w \in Wbufs PROVE BufferOf(wbuf[w], Users(fds, w)) = Promise!Unused
      <4>1. \A q \in Procs, g \in Fds : ~Uses(fds[q][g], w)
        BY Constants DEF Init, Uses
      <4>2. Users(fds, w) = {}
        BY <4>1 DEF Users
      <4> QED BY <2>1, <4>2, UnusedBuffer DEF IInv
    <3> QED BY <3>1, BuffersMapped DEF BuffersOf
  <2>5. returned.bytes = << >> /\ returned.lost = FALSE
    BY DEF Init, NoRead
  <2>6. FileAt[cwd] \in [Paths -> Names \cup {NULL}]
    BY FilesAssumption DEF Init
  <2> QED BY <2>2, <2>3, <2>4, <2>5, <2>6 DEF Promise!Init, Promise!Handles
<1>2. IInv /\ IInv' /\ [Next]_vars => [Promise!Next]_Shows
  BY StepMaps
<1>3. IInv /\ IInv' /\ [Next]_vars =>
        [Promise!Next]_<<FileAt[cwd], FileMap, HandleMap, BufferMap, returned.bytes, returned.lost>>
  BY <1>2 DEF Shows
<1> QED BY <1>1, <1>3, Invariance, PTL DEF Spec, RefinesOpenFiles, Promise!Spec
=============================================================================
