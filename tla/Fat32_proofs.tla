---------------------------- MODULE Fat32_proofs ----------------------------
(***************************************************************************)
(* The file system keeps all files whole but the one it is replacing, and  *)
(* loses no space until the disk is full, for any size of disk, cluster,   *)
(* names and files and any number of operations.                           *)
(***************************************************************************)
EXTENDS Fat32, FiniteSetTheorems, WellFoundedInduction, TLAPS

(* The tables, as predicates on a table F and the clusters' contents K.    *)

Closed(F, S) == \A x \in S : F[x] \in Cluster => F[x] \in S

\* The chain from c: the least set with c that is closed under F.
Reach(F, c) == {x \in Cluster : \A S \in SUBSET Cluster :
                                   (c \in Cluster => c \in S) /\ Closed(F, S) => x \in S}

\* No cluster follows two others, none in use leads to a free one, and no
\* chain runs in a circle.
FatOK(F) ==
    /\ F \in [Cluster -> Cluster \cup {FREE, EOC}]
    /\ \A a, b \in Cluster : F[a] = F[b] /\ F[a] \in Cluster => a = b
    /\ \A a \in Cluster : F[a] \in Cluster => F[F[a]] # FREE
    /\ \A S \in SUBSET Cluster : (\A x \in S : F[x] \in S) => S = {}

\* Cluster c is in use and the first of its chain.
IsHead(F, c) == c \in Cluster /\ F[c] # FREE /\ \A x \in Cluster : F[x] # c

Blank(s) == s = Zeroed \/ s = FileData
NoEnd(s) == \A i \in 1 .. SLOTS : s[i].k # "end"

\* A directory is known by its dot entry, the root by its place.
Heads(K) == {root_cluster} \cup {c \in Cluster : K[c][1] = Entry("dir", ".", c, 0)}
DirClusters(F, K) == {x \in Cluster : \E d \in Heads(K) : x \in Reach(F, d)}

Named(s) == s.k \in {"file", "dir"} /\ s.name \notin {".", ".."}
Places(F, K) == {p \in DirClusters(F, K) \X (1 .. SLOTS) : Named(K[p[1]][p[2]])}
First(K, p) == K[p[1]][p[2]].first

\* Directories hold entries, none after the end mark, and lead to directories.
\* U: the clusters that have been linked and not yet zeroed.
SlotsOK(F, K, x) ==
    \A i \in 1 .. SLOTS : /\ K[x][i].k # "data"
                          /\ K[x][i].k = "end" =>
                                F[x] = EOC /\ \A h \in i .. SLOTS : K[x][h].k = "end"
DirsOK(F, K, U) ==
    /\ DOMAIN K = Cluster
    /\ \A d \in Heads(K) : IsHead(F, d)
    /\ \A d \in Heads(K) \ {root_cluster} : /\ K[d][2].k = "dir" /\ K[d][2].name = ".."
                                            /\ K[d][2].first \in Heads(K)
    /\ \A x \in DirClusters(F, K) : IF x \in U THEN Blank(K[x]) ELSE SlotsOK(F, K, x)
    /\ \A x \in DirClusters(F, K), i \in 1 .. SLOTS : K[x][i].k = "dir" => K[x][i].first \in Heads(K)
    /\ \A c \in Cluster : F[c] = FREE => Blank(K[c])

\* An entry leads to a whole file or to a directory.
DataOK(F, K, c, n) ==
    /\ IsHead(F, c) /\ c \notin Heads(K)
    /\ Cardinality(Reach(F, c)) = n /\ \A x \in Reach(F, c) : K[x] = FileData
EntryOK(F, K, e) ==
    /\ e.size \in Nat
    /\ \/ e.k = "file" /\ IF e.first = 0 THEN e.size = 0 ELSE DataOK(F, K, e.first, e.size)
       \/ e.k = "dir" /\ e.first \in Heads(K) \ {root_cluster}

\* The entries at the places S are in order and lead to different chains, and
\* none of them to those that start at X.
EntriesOK(F, K, S, X) ==
    /\ \A p \in S : EntryOK(F, K, K[p[1]][p[2]])
    /\ \A p, q \in S : p # q /\ First(K, p) # 0 => First(K, p) # First(K, q)
    /\ \A c \in X : IsHead(F, c) /\ \A p \in S : First(K, p) # c
----------------------------------------------------------------------------
(* The operation at work. *)

PlainNames == FileNames \cup DirNames
CreatePc == {"seek", "grow", "zero", "hook", "put", "putnew", "next", "extend", "hookfirst", "zerolast"}
FreshPc  == {"link", "dots", "zero", "hook", "hookfirst"}
DataPc   == {"alloc", "link", "data"}

\* It holds the chain of a complete entry, a part of a file, a new cluster, or
\* what is left of a file to free.
Pending == job.pc \in CreatePc \/ (job.pc = "marklfn" /\ job.op = "rename")
Partial == job.op = "write" /\ job.pc \in DataPc
HeldHeads ==
    ((IF Pending \/ Partial THEN {job.entry.first} ELSE {})
       \cup (IF job.pc \in FreshPc \cup {"free"} THEN {job.new} ELSE {})) \cap Cluster

Safe == Places(fat, disk) \ AtRisk

Fresh(c) == c \in Cluster /\ fat[c] = EOC /\ Blank(disk[c]) /\ c # root_cluster /\ c # job.entry.first

Slots == [k : {"end", "file", "dir"}, name : PlainNames \cup {EndSlot.name}, first : Nat, size : Nat]
Pcs == {NoJob.pc, "scan", "read", "free", "mark", "marklfn", "dots"} \cup DataPc \cup CreatePc
PutSeqs == Seq(Slots \cup {LfnSlot(n) : n \in PlainNames})
Jobs == [op : {"none", "read", "write", "delete", "rename", "mkdir", "cd"},
         pc : Pcs,
         path : Seq(Names), dir : Nat, cl : Nat, idx : Nat, steps : Nat, prev : Nat,
         lfn : SUBSET Nat, new : Nat, left : Nat, entry : Slots, put : PutSeqs]

PcOf(op) ==
    CASE op = "none"   -> {NoJob.pc}
      [] op = "read"   -> {"scan", "read"}
      [] op = "write"  -> {"scan", "free", "mark", "marklfn"} \cup DataPc \cup CreatePc
      [] op = "delete" -> {"scan", "free", "mark", "marklfn"}
      [] op = "rename" -> {"scan", "mark", "marklfn"} \cup CreatePc
      [] op = "mkdir"  -> {"scan", "alloc", "dots"} \cup CreatePc
      [] op = "cd"     -> {"scan"}

\* The new entry, before it is complete.
OpOK ==
    /\ job.op = "none" => job = NoJob
    /\ job.op # "none" => job.dir \in Heads(disk)
    /\ job.op \in {"write", "rename", "mkdir"} => job.entry.name \in PlainNames
    /\ job.op = "write" => job.entry.k = "file"
    /\ job.op = "mkdir" => job.entry.k = "dir" /\ job.entry.size = 0
    /\ job.op \in {"write", "delete"} /\ job.pc \in {"scan", "free", "mark", "marklfn"} =>
          job.entry.first = 0 /\ (job.op = "write" => job.entry.size = job.left)
    /\ job.op = "mkdir" /\ job.pc \in {"scan", "alloc", "dots"} => job.entry.first = 0
    /\ job.op \in {"read", "cd", "delete"} \/ (job.op = "rename" /\ job.pc = "scan") => job.entry.first = 0

ScanOK ==
    job.pc = "scan" =>
        /\ job.path # << >> /\ (job.op # "rename" => job.path[Len(job.path)] \in PlainNames)
        /\ job.op = "mkdir" => Len(job.path) > 1
        /\ job.cl \in Reach(fat, job.dir) \cup {EOC}
        /\ job.prev \in DirClusters(fat, disk) \cup {0}
        /\ job.new = 0

LfnOK ==
    /\ job.pc = "marklfn" => job.lfn # {}
    /\ job.lfn # {} => /\ job.prev \in DirClusters(fat, disk)
                       /\ \A i \in job.lfn \cap (1 .. SLOTS) : disk[job.prev][i].k \in {"lfn", "del"}

OldOK ==
    job.pc \in {"free", "mark"} =>
        /\ <<job.cl, job.idx>> \in Places(fat, disk)
        /\ job.cl \in Reach(fat, job.dir)
        /\ IF job.op = "rename"
           THEN /\ job.entry.first = disk[job.cl][job.idx].first
                /\ job.entry.size = disk[job.cl][job.idx].size
                /\ job.entry.k = disk[job.cl][job.idx].k
           ELSE disk[job.cl][job.idx].k = "file"

FreeOK ==
    job.pc = "free" =>
        /\ job.new \in Cluster \cup {EOC}
        /\ job.new \in Cluster => job.new \notin Heads(disk) /\ \A x \in Reach(fat, job.new) : disk[x] = FileData
        /\ job.steps + Cardinality(Reach(fat, job.new)) <= NCLUSTERS

\* The file being written has n clusters so far, the last of them is c.
PartOK(c, n) ==
    /\ IsHead(fat, job.entry.first) /\ job.entry.first \notin Heads(disk)
    /\ c \in Reach(fat, job.entry.first) /\ fat[c] = EOC
    /\ Cardinality(Reach(fat, job.entry.first)) = n

WriteOK ==
    Partial =>
        /\ job.left \in 1 .. job.entry.size
        /\ job.pc \in {"alloc", "link"} =>
              IF job.prev = 0 THEN job.entry.first = 0 /\ job.left = job.entry.size
              ELSE /\ PartOK(job.prev, job.entry.size - job.left)
                   /\ \A x \in Reach(fat, job.entry.first) : disk[x] = FileData
        /\ job.pc = "data" =>
              /\ PartOK(job.new, job.entry.size - job.left + 1)
              /\ \A x \in Reach(fat, job.entry.first) \ {job.new} : disk[x] = FileData

\* c is the last cluster of the directory.
LastOf(c) == c \in Reach(fat, job.dir) /\ fat[c] = EOC

CreateOK ==
    job.pc \in CreatePc =>
        /\ job.put = Entries(job.entry) \/ job.put = <<job.entry>>
        /\ job.pc = "seek" =>
              /\ job.cl \in Reach(fat, job.dir) \cup {EOC}
              /\ job.put = Entries(job.entry)
              /\ \/ job.prev = 0 /\ job.cl = job.dir
                 \/ /\ job.prev \in Reach(fat, job.dir) /\ fat[job.prev] = job.cl
                    /\ NoEnd(disk[job.prev])
              /\ job.steps + Cardinality(Reach(fat, job.cl)) <= NCLUSTERS
        /\ job.pc \in {"grow", "zero", "hook"} => LastOf(job.prev) /\ NoEnd(disk[job.prev])
        /\ job.pc = "hook" => disk[job.new] = Zeroed
        /\ job.pc \in {"put", "putnew"} =>
              /\ LastOf(job.cl) /\ job.idx \in 1 .. SLOTS
              /\ \A h \in 1 .. SLOTS : disk[job.cl][h].k = "end" <=> h >= job.idx
        /\ job.pc = "putnew" => disk[job.cl] = Zeroed /\ job.idx = 1
        /\ job.pc \in {"next", "extend", "hookfirst"} => LastOf(job.cl) /\ NoEnd(disk[job.cl])
        /\ job.pc = "zerolast" => LastOf(job.new)
        /\ job.pc \in {"next", "extend", "hookfirst", "zerolast", "putnew"} => job.put = <<job.entry>>

JobOK ==
    /\ job \in Jobs /\ job.pc \in PcOf(job.op)
    /\ OpOK /\ ScanOK /\ OldOK /\ FreeOK /\ WriteOK /\ CreateOK
    /\ job.pc \in {"free", "mark", "marklfn"} => LfnOK
    /\ job.pc \in FreshPc => Fresh(job.new)
    /\ Pending => EntryOK(fat, disk, job.entry)

Good ==
    /\ FatOK(fat)
    /\ DirsOK(fat, disk, Unzeroed)
    /\ EntriesOK(fat, disk, Safe, HeldHeads)
    /\ cwd_cluster \in Heads(disk)
    /\ JobOK

FaultsTyped == faults \in [crash : Nat, read : Nat, write : Nat, memory : Nat]

IInv == FaultsTyped /\ (NoFaults /\ ~astray => Good)
----------------------------------------------------------------------------
(* Chains. *)

LEMMA Numbers ==
    /\ NCLUSTERS \in Nat \ {0} /\ SLOTS \in Nat \ {0, 1} /\ 1 \in 1 .. SLOTS /\ 2 \in 1 .. SLOTS
    /\ Cluster \subseteq Nat \ {0, 1} /\ root_cluster \in Cluster /\ root_cluster = 2
    /\ FREE = 0 /\ FREE \notin Cluster /\ EOC \in Nat /\ EOC \notin Cluster /\ EOC # FREE
    /\ BAD \in Nat /\ BAD \notin Cluster /\ BAD # EOC /\ EOC # 1
    /\ \A c \in Cluster : c < EOC /\ c >= 2
    /\ IsFiniteSet(Cluster) /\ Cardinality(Cluster) = NCLUSTERS
<1>1. NCLUSTERS \in Nat \ {0} /\ SLOTS \in Nat \ {0, 1}
  BY DiskAssumption
<1>2. IsFiniteSet(Cluster) /\ Cardinality(Cluster) = NCLUSTERS
  BY <1>1, FS_Interval DEF Cluster
<1> QED BY <1>1, <1>2 DEF Cluster, root_cluster, FREE, EOC, BAD

\* The chain from c is the least closed set with c.
LEMMA ReachFacts ==
    ASSUME NEW F, NEW c
    PROVE  /\ Reach(F, c) \in SUBSET Cluster /\ Closed(F, Reach(F, c))
           /\ c \in Cluster => c \in Reach(F, c)
           /\ c \notin Cluster => Reach(F, c) = {}
           /\ \A S \in SUBSET Cluster : (c \in Cluster => c \in S) /\ Closed(F, S) => Reach(F, c) \subseteq S
<1>1. Reach(F, c) \in SUBSET Cluster
  BY DEF Reach
<1>2. \A S \in SUBSET Cluster : (c \in Cluster => c \in S) /\ Closed(F, S) => Reach(F, c) \subseteq S
  BY DEF Reach
<1>3. c \in Cluster => c \in Reach(F, c)
  BY DEF Reach
<1>4. Closed(F, Reach(F, c))
  <2> SUFFICES ASSUME NEW x \in Reach(F, c), F[x] \in Cluster PROVE F[x] \in Reach(F, c)
    BY DEF Closed
  <2>1. ASSUME NEW S \in SUBSET Cluster, c \in Cluster => c \in S, Closed(F, S) PROVE F[x] \in S
    <3>1. x \in S
      BY <1>2, <2>1
    <3> QED BY <2>1, <3>1 DEF Closed
  <2> QED BY <2>1 DEF Reach
<1>5. c \notin Cluster => Reach(F, c) = {}
  <2>1. {} \in SUBSET Cluster /\ Closed(F, {})
    BY DEF Closed
  <2> QED BY <1>2, <2>1
<1> QED BY <1>1, <1>2, <1>3, <1>4, <1>5

\* Each cluster of a chain but the first follows another.
LEMMA ReachStep ==
    ASSUME NEW F, NEW c, NEW x \in Reach(F, c), x # c
    PROVE  \E y \in Reach(F, c) : F[y] = x
<1> DEFINE S == {z \in Reach(F, c) : z = c \/ \E y \in Reach(F, c) : F[y] = z}
<1>1. S \in SUBSET Cluster /\ Closed(F, S) /\ (c \in Cluster => c \in S)
  BY ReachFacts DEF Closed
<1> HIDE DEF S
<1>2. x \in S
  BY <1>1, ReachFacts
<1> QED BY <1>2 DEF S

LEMMA ReachFinite ==
    ASSUME NEW F, NEW c
    PROVE  /\ IsFiniteSet(Reach(F, c)) /\ Cardinality(Reach(F, c)) \in Nat
           /\ Cardinality(Reach(F, c)) <= NCLUSTERS
           /\ c \in Cluster => Cardinality(Reach(F, c)) >= 1
<1>1. Reach(F, c) \in SUBSET Cluster
  BY ReachFacts
<1>2. IsFiniteSet(Reach(F, c)) /\ Cardinality(Reach(F, c)) <= NCLUSTERS
  BY <1>1, Numbers, FS_Subset
<1>3. Cardinality(Reach(F, c)) \in Nat
  BY <1>2, FS_CardinalityType
<1>4. ASSUME c \in Cluster PROVE Cardinality(Reach(F, c)) >= 1
  <2>1. Reach(F, c) # {}
    BY <1>4, ReachFacts
  <2>2. Cardinality(Reach(F, c)) # 0
    BY <1>2, <2>1, FS_EmptySet
  <2> QED BY <1>3, <2>2
<1> QED BY <1>2, <1>3, <1>4

\* A table that agrees on the chain has the same chain.
LEMMA ReachSame ==
    ASSUME NEW F, NEW G, NEW c, \A x \in Reach(F, c) : G[x] = F[x]
    PROVE  Reach(G, c) = Reach(F, c)
<1>1. Reach(G, c) \subseteq Reach(F, c)
  <2>1. Closed(G, Reach(F, c)) /\ Reach(F, c) \in SUBSET Cluster /\ (c \in Cluster => c \in Reach(F, c))
    BY ReachFacts DEF Closed
  <2> QED BY <2>1, ReachFacts
<1>2. Reach(F, c) \subseteq Reach(G, c)
  <2>1. Closed(F, Reach(G, c))
    BY <1>1, ReachFacts DEF Closed
  <2> QED BY <2>1, ReachFacts
<1> QED BY <1>1, <1>2

LEMMA ReachUsed ==
    ASSUME NEW F, FatOK(F), NEW c, c \in Cluster => F[c] # FREE
    PROVE  \A x \in Reach(F, c) : x \in Cluster /\ F[x] # FREE /\ F[x] \in Cluster \cup {EOC}
<1> DEFINE S == {x \in Cluster : F[x] # FREE}
<1>1. S \in SUBSET Cluster /\ Closed(F, S) /\ (c \in Cluster => c \in S)
  BY DEF FatOK, Closed
<1> HIDE DEF S
<1>2. Reach(F, c) \subseteq S
  BY <1>1, ReachFacts
<1> QED BY <1>2 DEF S, FatOK

LEMMA ReachEnds ==
    ASSUME NEW F, FatOK(F), NEW c \in Cluster, F[c] # FREE
    PROVE  \E x \in Reach(F, c) : F[x] = EOC
<1> SUFFICES ASSUME \A x \in Reach(F, c) : F[x] # EOC PROVE FALSE
  OBVIOUS
<1>1. \A x \in Reach(F, c) : F[x] \in Reach(F, c)
  BY ReachUsed, ReachFacts DEF Closed
<1>2. Reach(F, c) = {}
  BY <1>1, ReachFacts DEF FatOK
<1> QED BY <1>2, ReachFacts

\* Different first clusters, different chains.
LEMMA HeadApart ==
    ASSUME NEW F, NEW a, NEW b, IsHead(F, a), a # b
    PROVE  a \notin Reach(F, b)
<1> SUFFICES ASSUME a \in Reach(F, b) PROVE FALSE
  OBVIOUS
<1>1. \E y \in Reach(F, b) : F[y] = a
  BY ReachStep
<1> QED BY <1>1, ReachFacts DEF IsHead

LEMMA ReachApart ==
    ASSUME NEW F, FatOK(F), NEW a, NEW b, IsHead(F, a), IsHead(F, b), a # b
    PROVE  Reach(F, a) \cap Reach(F, b) = {}
<1> DEFINE T == Cluster \ Reach(F, b)
<1>1. a \in T
  BY HeadApart DEF IsHead
<1>2. Closed(F, T)
  <2> SUFFICES ASSUME NEW x \in T, F[x] \in Cluster, F[x] \in Reach(F, b) PROVE FALSE
    BY DEF Closed
  <2>1. F[x] # b
    BY DEF IsHead
  <2>2. PICK y \in Reach(F, b) : F[y] = F[x]
    BY <2>1, ReachStep
  <2>3. y = x
    BY <2>2, ReachFacts DEF FatOK
  <2> QED BY <2>2, <2>3
<1>3. Reach(F, a) \subseteq T
  <2> HIDE DEF T
  <2>1. T \in SUBSET Cluster
    BY DEF T
  <2> QED BY <1>1, <1>2, <2>1, ReachFacts
<1> QED BY <1>3

\* The chain from the second cluster on.
LEMMA ReachTail ==
    ASSUME NEW F, FatOK(F), NEW c \in Cluster
    PROVE  Reach(F, F[c]) = Reach(F, c) \ {c} /\ c \notin Reach(F, F[c])
<1>1. \A x \in Cluster : Reach(F, x) \subseteq {x} \cup Reach(F, F[x])
  <2> TAKE x \in Cluster
  <2> DEFINE S == {x} \cup Reach(F, F[x])
  <2>1. S \in SUBSET Cluster /\ x \in S
    BY ReachFacts
  <2>2. Closed(F, S)
    BY ReachFacts DEF Closed
  <2> HIDE DEF S
  <2>3. Reach(F, x) \subseteq S
    BY <2>1, <2>2, ReachFacts
  <2> QED BY <2>3 DEF S
<1>2. \A x \in Cluster : Reach(F, F[x]) \subseteq Reach(F, x)
  BY ReachFacts DEF Closed
<1>3. c \notin Reach(F, F[c])
  <2> SUFFICES ASSUME c \in Reach(F, F[c]) PROVE FALSE
    OBVIOUS
  <2> DEFINE Z == {x \in Reach(F, F[c]) : c \in Reach(F, x)}
  <2>1. F[c] \in Cluster
    BY ReachFacts
  <2>2. F[c] \in Z /\ Z \in SUBSET Cluster
    BY <2>1, ReachFacts
  <2>3. ASSUME NEW x \in Z PROVE F[x] \in Z
    <3>1. CASE x = c
      BY <2>2, <3>1
    <3>2. CASE x # c
      <4>1. x \in Cluster /\ c \in Reach(F, x)
        BY <2>2
      <4>2. c \in Reach(F, F[x])
        BY <1>1, <3>2, <4>1
      <4>3. F[x] \in Cluster
        BY <4>2, ReachFacts
      <4>4. F[x] \in Reach(F, F[c])
        BY <4>3, ReachFacts DEF Closed
      <4> QED BY <4>2, <4>4
    <3> QED BY <3>1, <3>2
  <2> HIDE DEF Z
  <2> QED BY <2>2, <2>3 DEF FatOK
<1> QED BY <1>1, <1>2, <1>3

\* A chain that ends at a is continued with the cluster b.
LEMMA ReachLink ==
    ASSUME NEW F, FatOK(F), NEW a \in Cluster, F[a] = EOC, NEW b \in Cluster, F[b] = EOC, a # b,
           NEW G, G[a] = b, \A x \in Cluster \ {a} : G[x] = F[x], NEW c
    PROVE  Reach(G, c) = IF a \in Reach(F, c) THEN Reach(F, c) \cup {b} ELSE Reach(F, c)
<1>1. G[a] = b /\ \A x \in Cluster \ {a} : G[x] = F[x]
  OBVIOUS
<1>2. CASE a \notin Reach(F, c)
  <2>1. \A x \in Reach(F, c) : G[x] = F[x]
    BY <1>1, <1>2, ReachFacts
  <2>2. Reach(G, c) = Reach(F, c)
    BY <2>1, ReachSame
  <2> QED BY <1>2, <2>2
<1>3. CASE a \in Reach(F, c)
  <2> DEFINE S == Reach(F, c) \cup {b}
  <2>1. S \in SUBSET Cluster /\ (c \in Cluster => c \in S)
    BY ReachFacts
  <2>2. Closed(G, S)
    <3> SUFFICES ASSUME NEW x \in S, G[x] \in Cluster PROVE G[x] \in S
      BY DEF Closed
    <3>1. CASE x = a
      BY <1>1, <3>1
    <3>2. CASE x = b
      BY <1>1, <3>2, Numbers
    <3>3. CASE x \notin {a, b}
      BY <1>1, <2>1, <3>3, ReachFacts DEF Closed
    <3> QED BY <3>1, <3>2, <3>3
  <2> HIDE DEF S
  <2>3. Reach(G, c) \subseteq S
    BY <2>1, <2>2, ReachFacts
  <2>4. Reach(F, c) \subseteq Reach(G, c)
    <3>1. Closed(F, Reach(G, c))
      <4> SUFFICES ASSUME NEW x \in Reach(G, c), F[x] \in Cluster PROVE F[x] \in Reach(G, c)
        BY DEF Closed
      <4>1. x # a /\ x \in Cluster
        BY ReachFacts, Numbers
      <4> QED BY <1>1, <4>1, ReachFacts DEF Closed
    <3> QED BY <3>1, ReachFacts
  <2>5. b \in Reach(G, c)
    <3>1. a \in Reach(G, c) /\ Closed(G, Reach(G, c))
      BY <1>3, <2>4, ReachFacts
    <3> QED BY <1>1, <3>1 DEF Closed
  <2> QED BY <1>3, <2>3, <2>4, <2>5 DEF S
<1> QED BY <1>2, <1>3

\* The entry of cluster a becomes v; the contents of x become s.
Sets(F, G, a, v) ==
    /\ G \in [Cluster -> Cluster \cup {FREE, EOC}]
    /\ G[a] = v /\ \A x \in Cluster \ {a} : G[x] = F[x]
Writes(K, L, x, s) ==
    /\ DOMAIN L = Cluster
    /\ L[x] = s /\ \A y \in Cluster \ {x} : L[y] = K[y]

\* The changes of the table keep it sound: fat_alloc_cluster, a link, and one
\* step of fat_free_chain.
LEMMA AllocKeeps ==
    ASSUME NEW F, FatOK(F), NEW a \in Cluster, F[a] = FREE, NEW G, Sets(F, G, a, EOC)
    PROVE  /\ FatOK(G) /\ IsHead(G, a)
           /\ \A c : IsHead(F, c) => IsHead(G, c) /\ c # a /\ Reach(G, c) = Reach(F, c) /\ a \notin Reach(F, c)
<1>1. G[a] = EOC /\ \A x \in Cluster \ {a} : G[x] = F[x]
  BY DEF Sets
<1>2. G \in [Cluster -> Cluster \cup {FREE, EOC}]
  BY DEF Sets
<1>3. \A x, y \in Cluster : G[x] = G[y] /\ G[x] \in Cluster => x = y
  BY <1>1, Numbers DEF FatOK
<1>4. \A x \in Cluster : G[x] \in Cluster => G[G[x]] # FREE
  BY <1>1, Numbers DEF FatOK
<1>5. ASSUME NEW S \in SUBSET Cluster, \A x \in S : G[x] \in S PROVE S = {}
  <2>1. a \notin S
    BY <1>1, <1>5, Numbers
  <2>2. \A x \in S : F[x] \in S
    BY <1>1, <1>5, <2>1
  <2> QED BY <2>2 DEF FatOK
<1>6. FatOK(G)
  BY <1>2, <1>3, <1>4, <1>5 DEF FatOK
<1>7. \A x \in Cluster : F[x] # a
  BY DEF FatOK
<1>8. IsHead(G, a)
  BY <1>1, <1>7, Numbers DEF IsHead
<1>9. ASSUME NEW c, IsHead(F, c)
      PROVE  IsHead(G, c) /\ c # a /\ Reach(G, c) = Reach(F, c) /\ a \notin Reach(F, c)
  <2>1. c # a /\ IsHead(G, c)
    BY <1>1, <1>9, Numbers DEF IsHead
  <2>2. a \notin Reach(F, c)
    BY <1>9, ReachUsed DEF IsHead
  <2>3. Reach(G, c) = Reach(F, c)
    <3>1. \A x \in Reach(F, c) : G[x] = F[x]
      BY <1>1, <2>2, ReachFacts
    <3> QED BY <3>1, ReachSame
  <2> QED BY <2>1, <2>2, <2>3
<1> QED BY <1>6, <1>8, <1>9

LEMMA LinkKeeps ==
    ASSUME NEW F, FatOK(F), NEW a \in Cluster, F[a] = EOC, NEW b, IsHead(F, b), F[b] = EOC, a # b,
           NEW G, Sets(F, G, a, b)
    PROVE  /\ FatOK(G) /\ G[b] = EOC
           /\ \A x \in Cluster \ {a} : G[x] = F[x]
           /\ \A c : IsHead(F, c) /\ c # b => IsHead(G, c)
           /\ \A c : Reach(G, c) = IF a \in Reach(F, c) THEN Reach(F, c) \cup {b} ELSE Reach(F, c)
<1>1. G[a] = b /\ (\A x \in Cluster \ {a} : G[x] = F[x]) /\ b \in Cluster
  BY DEF Sets, IsHead
<1>2. G \in [Cluster -> Cluster \cup {FREE, EOC}]
  BY DEF Sets
<1>3. \A x, y \in Cluster : G[x] = G[y] /\ G[x] \in Cluster => x = y
  BY <1>1 DEF FatOK, IsHead
<1>4. ASSUME NEW x \in Cluster, G[x] \in Cluster PROVE G[G[x]] # FREE
  <2>1. CASE x = a
    BY <1>1, <2>1, Numbers
  <2>2. CASE x # a
    <3>1. G[x] = F[x] /\ F[F[x]] # FREE
      BY <1>1, <1>4, <2>2 DEF FatOK
    <3> QED BY <1>1, <1>4, <3>1, Numbers
  <2> QED BY <2>1, <2>2
<1>5. ASSUME NEW S \in SUBSET Cluster, \A x \in S : G[x] \in S PROVE S = {}
  <2>1. b \notin S
    BY <1>1, <1>5, Numbers
  <2>2. a \notin S
    BY <1>1, <1>5, <2>1
  <2>3. \A x \in S : F[x] \in S
    BY <1>1, <1>5, <2>2
  <2> QED BY <2>3 DEF FatOK
<1>6. FatOK(G)
  BY <1>2, <1>3, <1>4, <1>5 DEF FatOK
<1>7. \A c : IsHead(F, c) /\ c # b => IsHead(G, c)
  BY <1>1, Numbers DEF IsHead
<1>8. \A c : Reach(G, c) = IF a \in Reach(F, c) THEN Reach(F, c) \cup {b} ELSE Reach(F, c)
  <2> TAKE c
  <2> QED BY <1>1, ReachLink
<1> QED BY <1>1, <1>6, <1>7, <1>8

LEMMA FreeKeeps ==
    ASSUME NEW F, FatOK(F), NEW a, IsHead(F, a), NEW G, Sets(F, G, a, FREE)
    PROVE  /\ FatOK(G) /\ G[a] = FREE
           /\ \A x \in Cluster \ {a} : G[x] = F[x]
           /\ \A c : IsHead(F, c) /\ c # a => IsHead(G, c) /\ Reach(G, c) = Reach(F, c) /\ a \notin Reach(F, c)
           /\ Reach(G, F[a]) = Reach(F, a) \ {a}
           /\ F[a] \in Cluster => IsHead(G, F[a])
<1>1. G[a] = FREE /\ (\A x \in Cluster \ {a} : G[x] = F[x]) /\ a \in Cluster
  BY DEF Sets, IsHead
<1>2. G \in [Cluster -> Cluster \cup {FREE, EOC}]
  BY DEF Sets
<1>3. \A x, y \in Cluster : G[x] = G[y] /\ G[x] \in Cluster => x = y
  BY <1>1, Numbers DEF FatOK
<1>4. ASSUME NEW x \in Cluster, G[x] \in Cluster PROVE G[G[x]] # FREE
  <2>1. G[x] = F[x] /\ F[x] # a
    BY <1>1, <1>4, Numbers DEF IsHead
  <2>2. F[F[x]] # FREE
    BY <1>4, <2>1 DEF FatOK
  <2> QED BY <1>1, <1>4, <2>1, <2>2
<1>5. ASSUME NEW S \in SUBSET Cluster, \A x \in S : G[x] \in S PROVE S = {}
  <2>1. a \notin S
    BY <1>1, <1>5, Numbers
  <2>2. \A x \in S : F[x] \in S
    BY <1>1, <1>5, <2>1
  <2> QED BY <2>2 DEF FatOK
<1>6. FatOK(G)
  BY <1>2, <1>3, <1>4, <1>5 DEF FatOK
<1>7. ASSUME NEW c, IsHead(F, c), c # a
      PROVE  IsHead(G, c) /\ Reach(G, c) = Reach(F, c) /\ a \notin Reach(F, c)
  <2>1. IsHead(G, c)
    BY <1>1, <1>7, Numbers DEF IsHead
  <2>2. a \notin Reach(F, c)
    BY <1>7, HeadApart
  <2>3. Reach(G, c) = Reach(F, c)
    <3>1. \A x \in Reach(F, c) : G[x] = F[x]
      BY <1>1, <2>2, ReachFacts
    <3> QED BY <3>1, ReachSame
  <2> QED BY <2>1, <2>2, <2>3
<1>8. Reach(F, F[a]) = Reach(F, a) \ {a} /\ a \notin Reach(F, F[a])
  BY <1>1, ReachTail
<1>9. Reach(G, F[a]) = Reach(F, F[a])
  <2> DEFINE n == F[a]
  <2>1. \A x \in Reach(F, n) : G[x] = F[x]
    BY <1>1, <1>8, ReachFacts
  <2> HIDE DEF n
  <2>2. Reach(G, n) = Reach(F, n)
    BY <2>1, ReachSame
  <2> QED BY <2>2 DEF n
<1>10. ASSUME F[a] \in Cluster PROVE IsHead(G, F[a])
  <2>1. F[a] # a
    BY <1>10, <1>8, ReachFacts
  <2>2. G[F[a]] # FREE
    BY <1>1, <1>10, <2>1 DEF FatOK
  <2>3. \A x \in Cluster : G[x] # F[a]
    BY <1>1, <1>10, Numbers DEF FatOK
  <2> QED BY <1>10, <2>2, <2>3 DEF IsHead
<1> QED BY <1>1, <1>6, <1>7, <1>8, <1>9, <1>10
----------------------------------------------------------------------------
(* Directories and entries. *)

LEMMA SlotFacts ==
    /\ EndSlot.k = "end" /\ EndSlot.first = 0 /\ ~Named(EndSlot)
    /\ Entry("data", "", BAD, 0).k = "data" /\ ~Named(Entry("data", "", BAD, 0))
BY DEF EndSlot, Entry, Named

LEMMA DotFacts ==
    ASSUME NEW c
    PROVE  /\ Entry("dir", ".", c, 0).k = "dir" /\ Entry("dir", ".", c, 0).first = c
           /\ ~Named(Entry("dir", ".", c, 0))
           /\ Entry("dir", "..", c, 0).k = "dir" /\ Entry("dir", "..", c, 0).first = c
           /\ Entry("dir", "..", c, 0).name = ".." /\ ~Named(Entry("dir", "..", c, 0))
BY DEF Entry, Named

LEMMA HeadFacts ==
    ASSUME NEW F, NEW K, NEW U, FatOK(F), DirsOK(F, K, U)
    PROVE  /\ root_cluster \in Heads(K) /\ Heads(K) \subseteq DirClusters(F, K)
           /\ DirClusters(F, K) \subseteq Cluster
           /\ \A d \in Heads(K) : d \in Cluster /\ IsHead(F, d) /\ Reach(F, d) \subseteq DirClusters(F, K)
           /\ \A x \in DirClusters(F, K) : /\ F[x] # FREE /\ F[x] \in Cluster \cup {EOC}
                                           /\ F[x] \in Cluster => F[x] \in DirClusters(F, K)
           /\ \A c : IsHead(F, c) /\ c \notin Heads(K) => Reach(F, c) \cap DirClusters(F, K) = {}
<1>1. root_cluster \in Heads(K) /\ Heads(K) \subseteq Cluster
  BY Numbers DEF Heads
<1>2. DirClusters(F, K) \subseteq Cluster
  BY DEF DirClusters
<1>3. \A d \in Heads(K) : IsHead(F, d)
  BY DEF DirsOK
<1>4. \A d \in Heads(K) : Reach(F, d) \subseteq DirClusters(F, K)
  BY ReachFacts DEF DirClusters
<1>5. Heads(K) \subseteq DirClusters(F, K)
  BY <1>1, <1>4, ReachFacts
<1>6. ASSUME NEW x \in DirClusters(F, K)
      PROVE  /\ F[x] # FREE /\ F[x] \in Cluster \cup {EOC}
             /\ F[x] \in Cluster => F[x] \in DirClusters(F, K)
  <2>1. PICK d \in Heads(K) : x \in Reach(F, d)
    BY DEF DirClusters
  <2>2. F[d] # FREE
    BY <1>3 DEF IsHead
  <2>3. F[x] # FREE /\ F[x] \in Cluster \cup {EOC}
    BY <2>1, <2>2, ReachUsed
  <2>4. F[x] \in Cluster => F[x] \in Reach(F, d)
    BY <2>1, ReachFacts DEF Closed
  <2> QED BY <1>4, <2>3, <2>4
<1>7. ASSUME NEW c, IsHead(F, c), c \notin Heads(K) PROVE Reach(F, c) \cap DirClusters(F, K) = {}
  <2> SUFFICES ASSUME NEW x \in Reach(F, c), x \in DirClusters(F, K) PROVE FALSE
    OBVIOUS
  <2>1. PICK d \in Heads(K) : x \in Reach(F, d)
    BY DEF DirClusters
  <2>2. IsHead(F, d) /\ d # c
    BY <1>3, <1>7
  <2>3. Reach(F, c) \cap Reach(F, d) = {}
    BY <1>7, <2>2, ReachApart
  <2> QED BY <2>1, <2>3
<1> QED BY <1>1, <1>2, <1>3, <1>4, <1>5, <1>6, <1>7

\* Blank clusters hold no entries.
LEMMA BlankFacts ==
    ASSUME NEW s, Blank(s)
    PROVE  \A i \in 1 .. SLOTS : s[i].k \in {"end", "data"} /\ ~Named(s[i])
<1> TAKE i \in 1 .. SLOTS
<1>1. CASE s = Zeroed
  <2>1. s[i] = EndSlot
    BY <1>1 DEF Zeroed
  <2> QED BY <2>1, SlotFacts
<1>2. CASE s = FileData
  <2>1. s[i] = Entry("data", "", BAD, 0)
    BY <1>2 DEF FileData
  <2> QED BY <2>1, SlotFacts
<1> QED BY <1>1, <1>2 DEF Blank

LEMMA BlankNoHead ==
    ASSUME NEW K, NEW c, Blank(K[c]), c # root_cluster
    PROVE  c \notin Heads(K)
<1>1. K[c][1].k \in {"end", "data"}
  BY BlankFacts, Numbers
<1>2. K[c][1] # Entry("dir", ".", c, 0)
  BY <1>1 DEF Entry
<1> QED BY <1>2 DEF Heads

\* The chain from c is the same in the tables F, K and G, L.
SameChain(F, K, G, L, c) ==
    /\ IsHead(G, c) /\ Reach(G, c) = Reach(F, c)
    /\ \A x \in Reach(F, c) : G[x] = F[x] /\ L[x] = K[x]

\* A step leaves the directories alone, and clears the clusters it writes.
Apart(F, K, G, L) ==
    /\ DOMAIN L = Cluster
    /\ \A d \in Heads(K) : SameChain(F, K, G, L, d)
    /\ \A c \in Cluster : L[c] = K[c] \/ (Blank(L[c]) /\ c # root_cluster)
    /\ \A c \in Cluster : G[c] = FREE => Blank(L[c])

LEMMA DirsApart ==
    ASSUME NEW F, NEW K, NEW G, NEW L, NEW U, FatOK(F), DirsOK(F, K, U), Apart(F, K, G, L)
    PROVE  /\ Heads(L) = Heads(K) /\ DirClusters(G, L) = DirClusters(F, K)
           /\ \A x \in DirClusters(F, K) : G[x] = F[x] /\ L[x] = K[x]
           /\ Places(G, L) = Places(F, K)
           /\ DirsOK(G, L, U)
<1>1. \A d \in Heads(K) : d \in Cluster /\ d \in Reach(F, d)
  BY HeadFacts, ReachFacts
<1>2. Heads(K) \subseteq Heads(L)
  <2> SUFFICES ASSUME NEW d \in Heads(K), d # root_cluster PROVE d \in Heads(L)
    BY DEF Heads
  <2>1. L[d] = K[d] /\ d \in Cluster
    BY <1>1 DEF Apart, SameChain
  <2> QED BY <2>1 DEF Heads
<1>3. Heads(L) \subseteq Heads(K)
  <2> SUFFICES ASSUME NEW d \in Heads(L), d # root_cluster PROVE d \in Heads(K)
    BY DEF Heads
  <2>1. ~Blank(L[d]) /\ d \in Cluster
    BY BlankNoHead DEF Heads
  <2>2. L[d] = K[d]
    BY <2>1 DEF Apart
  <2> QED BY <2>1, <2>2 DEF Heads
<1>4. Heads(L) = Heads(K)
  BY <1>2, <1>3
<1>5. \A d \in Heads(K) : IsHead(G, d) /\ Reach(G, d) = Reach(F, d)
  BY DEF Apart, SameChain
<1>6. DirClusters(G, L) = DirClusters(F, K)
  BY <1>4, <1>5 DEF DirClusters
<1>7. \A x \in DirClusters(F, K) : G[x] = F[x] /\ L[x] = K[x]
  BY DEF Apart, SameChain, DirClusters
<1>8. Places(G, L) = Places(F, K)
  BY <1>6, <1>7 DEF Places
<1>9. DirsOK(G, L, U)
  <2>1. DOMAIN L = Cluster /\ \A c \in Cluster : G[c] = FREE => Blank(L[c])
    BY DEF Apart
  <2>2. \A d \in Heads(L) : IsHead(G, d)
    BY <1>4, <1>5
  <2>3. \A d \in Heads(L) \ {root_cluster} :
            L[d][2].k = "dir" /\ L[d][2].name = ".." /\ L[d][2].first \in Heads(L)
    BY <1>4, <1>7, HeadFacts DEF DirsOK
  <2>4. \A x \in DirClusters(G, L) : IF x \in U THEN Blank(L[x]) ELSE SlotsOK(G, L, x)
    BY <1>6, <1>7 DEF DirsOK, SlotsOK
  <2>5. \A x \in DirClusters(G, L), i \in 1 .. SLOTS : L[x][i].k = "dir" => L[x][i].first \in Heads(L)
    BY <1>4, <1>6, <1>7 DEF DirsOK
  <2> QED BY <2>1, <2>2, <2>3, <2>4, <2>5 DEF DirsOK
<1> QED BY <1>4, <1>6, <1>7, <1>8, <1>9

\* An entry stays in order with its chain.
LEMMA EntryApart ==
    ASSUME NEW F, NEW K, NEW G, NEW L, NEW e, EntryOK(F, K, e), Heads(L) = Heads(K),
           e.k = "file" /\ e.first # 0 => SameChain(F, K, G, L, e.first)
    PROVE  EntryOK(G, L, e)
<1>1. CASE e.k = "dir"
  BY <1>1 DEF EntryOK
<1>2. CASE e.k = "file" /\ e.first = 0
  BY <1>2 DEF EntryOK
<1>3. CASE e.k = "file" /\ e.first # 0
  <2>1. DataOK(F, K, e.first, e.size) /\ e.size \in Nat
    BY <1>3 DEF EntryOK
  <2>2. DataOK(G, L, e.first, e.size)
    BY <1>3, <2>1 DEF DataOK, SameChain
  <2> QED BY <1>3, <2>1, <2>2 DEF EntryOK
<1> QED BY <1>1, <1>2, <1>3 DEF EntryOK

LEMMA EntriesApart ==
    ASSUME NEW F, NEW K, NEW G, NEW L, NEW U, FatOK(F), DirsOK(F, K, U), Apart(F, K, G, L),
           NEW S, S \subseteq Places(F, K), NEW X, EntriesOK(F, K, S, X),
           \A p \in S : K[p[1]][p[2]].k = "file" /\ First(K, p) # 0 => SameChain(F, K, G, L, First(K, p)),
           NEW Y, \A c \in Y : IsHead(G, c) /\ \A p \in S : First(K, p) # c
    PROVE  EntriesOK(G, L, S, Y)
<1>1. Heads(L) = Heads(K) /\ \A x \in DirClusters(F, K) : L[x] = K[x]
  BY DirsApart
<1>2. \A p \in S : L[p[1]][p[2]] = K[p[1]][p[2]]
  BY <1>1 DEF Places
<1>3. ASSUME NEW p \in S PROVE EntryOK(G, L, L[p[1]][p[2]])
  <2> DEFINE e == K[p[1]][p[2]]
  <2>1. EntryOK(F, K, e)
    BY DEF EntriesOK
  <2>2. e.k = "file" /\ e.first # 0 => SameChain(F, K, G, L, e.first)
    BY DEF First
  <2> HIDE DEF e
  <2>3. EntryOK(G, L, e)
    BY <1>1, <2>1, <2>2, EntryApart
  <2> QED BY <1>2, <2>3 DEF e
<1>4. \A p \in S : First(L, p) = First(K, p)
  BY <1>2 DEF First
<1> QED BY <1>3, <1>4 DEF EntriesOK

\* The dot entries of a directory.
Dot(s) == s.k = "dir" /\ s.name \in {".", ".."}

\* A cluster of a directory is written, its dot entries as they were.
LEMMA Rewrite ==
    ASSUME NEW F, NEW K, NEW U, FatOK(F), DirsOK(F, K, U), NEW x \in DirClusters(F, K),
           NEW s, NEW L, Writes(K, L, x, s),
           \A i \in 1 .. SLOTS : s[i] = K[x][i] \/ (~Dot(s[i]) /\ ~Dot(K[x][i])),
           SlotsOK(F, L, x),
           \A i \in 1 .. SLOTS : s[i].k = "dir" => s[i].first \in Heads(K),
           NEW V, x \notin V, \A y : y # x => (y \in V <=> y \in U)
    PROVE  /\ L[x] = s /\ \A y \in Cluster \ {x} : L[y] = K[y]
           /\ Heads(L) = Heads(K) /\ DirClusters(F, L) = DirClusters(F, K)
           /\ DirsOK(F, L, V)
           /\ \A e : EntryOK(F, K, e) => EntryOK(F, L, e)
<1>1. x \in Cluster /\ DOMAIN K = Cluster
  BY HeadFacts DEF DirsOK
<1>2. L[x] = s /\ (\A y \in Cluster \ {x} : L[y] = K[y]) /\ DOMAIN L = Cluster
  BY DEF Writes
<1>3. ASSUME NEW d \in Cluster PROVE (L[d][1] = Entry("dir", ".", d, 0)) <=> (K[d][1] = Entry("dir", ".", d, 0))
  <2>1. CASE d # x
    BY <1>2, <2>1
  <2>2. CASE d = x
    <3>1. Dot(Entry("dir", ".", d, 0))
      BY DEF Dot, Entry
    <3>2. s[1] = K[x][1] \/ (~Dot(s[1]) /\ ~Dot(K[x][1]))
      BY Numbers
    <3> QED BY <1>2, <2>2, <3>1, <3>2
  <2> QED BY <2>1, <2>2
<1>4. Heads(L) = Heads(K)
  BY <1>3 DEF Heads
<1>5. DirClusters(F, L) = DirClusters(F, K)
  BY <1>4 DEF DirClusters
<1>6. DirsOK(F, L, V)
  <2>1. \A d \in Heads(L) : IsHead(F, d)
    BY <1>4 DEF DirsOK
  <2>2. ASSUME NEW d \in Heads(L) \ {root_cluster}
        PROVE  L[d][2].k = "dir" /\ L[d][2].name = ".." /\ L[d][2].first \in Heads(L)
    <3>1. K[d][2].k = "dir" /\ K[d][2].name = ".." /\ K[d][2].first \in Heads(L) /\ d \in Cluster
      <4>1. d \in Heads(K) \ {root_cluster}
        BY <1>4
      <4> QED BY <1>4, <4>1, HeadFacts DEF DirsOK
    <3>2. CASE d # x
      BY <1>2, <3>1, <3>2
    <3>3. CASE d = x
      <4>1. s[2] = K[x][2]
        BY <3>1, <3>3, Numbers DEF Dot
      <4> QED BY <1>2, <3>1, <3>3, <4>1
    <3> QED BY <3>2, <3>3
  <2>3. ASSUME NEW y \in DirClusters(F, L)
        PROVE  IF y \in V THEN Blank(L[y]) ELSE SlotsOK(F, L, y)
    <3>1. CASE y = x
      BY <3>1
    <3>2. CASE y # x
      <4>1. L[y] = K[y]
        BY <1>2, <1>5, <3>2, HeadFacts
      <4>2. IF y \in U THEN Blank(K[y]) ELSE SlotsOK(F, K, y)
        BY <1>5 DEF DirsOK
      <4>3. SlotsOK(F, L, y) <=> SlotsOK(F, K, y)
        BY <4>1 DEF SlotsOK
      <4> QED BY <3>2, <4>1, <4>2, <4>3
    <3> QED BY <3>1, <3>2
  <2>4. ASSUME NEW y \in DirClusters(F, L), NEW i \in 1 .. SLOTS, L[y][i].k = "dir"
        PROVE  L[y][i].first \in Heads(L)
    <3>1. CASE y = x
      BY <1>2, <1>4, <2>4, <3>1
    <3>2. CASE y # x
      <4>1. L[y] = K[y]
        BY <1>2, <1>5, <3>2, HeadFacts
      <4> QED BY <1>4, <1>5, <2>4, <4>1 DEF DirsOK
    <3> QED BY <3>1, <3>2
  <2>5. \A c \in Cluster : F[c] = FREE => Blank(L[c])
    <3>1. F[x] # FREE
      BY HeadFacts
    <3> QED BY <1>2, <3>1 DEF DirsOK
  <2> QED BY <1>2, <2>1, <2>2, <2>3, <2>4, <2>5 DEF DirsOK
<1>7. ASSUME NEW e, EntryOK(F, K, e) PROVE EntryOK(F, L, e)
  <2>1. ASSUME e.k = "file" /\ e.first # 0 PROVE SameChain(F, K, F, L, e.first)
    <3> DEFINE c == e.first
    <3>1. IsHead(F, c) /\ c \notin Heads(K)
      BY <1>7, <2>1 DEF EntryOK, DataOK
    <3> HIDE DEF c
    <3>2. x \notin Reach(F, c)
      BY <3>1, HeadFacts
    <3>3. \A y \in Reach(F, c) : L[y] = K[y]
      BY <1>2, <3>2, ReachFacts
    <3>4. SameChain(F, K, F, L, c)
      BY <3>1, <3>3 DEF SameChain
    <3> QED BY <3>4 DEF c
  <2> QED BY <1>4, <1>7, <2>1, EntryApart
<1> QED BY <1>2, <1>4, <1>5, <1>6, <1>7

\* A directory grows: the blank cluster b follows its last cluster a.
LEMMA Hook ==
    ASSUME NEW F, NEW K, FatOK(F), DirsOK(F, K, {}), NEW a \in DirClusters(F, K), F[a] = EOC, NoEnd(K[a]),
           NEW b, IsHead(F, b), F[b] = EOC, Blank(K[b]), b # root_cluster,
           NEW U, U \subseteq {b}, b \in U \/ K[b] = Zeroed,
           NEW G, Sets(F, G, a, b)
    PROVE  /\ FatOK(G) /\ G[b] = EOC /\ \A x \in Cluster \ {a} : G[x] = F[x]
           /\ DirClusters(G, K) = DirClusters(F, K) \cup {b} /\ Places(G, K) = Places(F, K)
           /\ DirsOK(G, K, U)
           /\ \A c : a \in Reach(F, c) => Reach(G, c) = Reach(F, c) \cup {b}
           /\ \A e : EntryOK(F, K, e) /\ e.first # b => EntryOK(G, K, e)
           /\ \A c : IsHead(F, c) /\ c # b => IsHead(G, c)
<1>1. a \in Cluster /\ b \in Cluster
  BY HeadFacts DEF IsHead
<1>2. b \notin Heads(K)
  BY BlankNoHead
<1>3. b \notin DirClusters(F, K)
  <2>1. b \in Reach(F, b)
    BY <1>1, ReachFacts
  <2> QED BY <1>2, <2>1, HeadFacts
<1>4. a # b
  BY <1>3
<1>5. /\ FatOK(G) /\ G[b] = EOC
      /\ \A x \in Cluster \ {a} : G[x] = F[x]
      /\ \A c : IsHead(F, c) /\ c # b => IsHead(G, c)
      /\ \A c : Reach(G, c) = IF a \in Reach(F, c) THEN Reach(F, c) \cup {b} ELSE Reach(F, c)
  BY <1>1, <1>4, LinkKeeps
<1>6. DirClusters(G, K) = DirClusters(F, K) \cup {b}
  <2>1. PICK d \in Heads(K) : a \in Reach(F, d)
    BY DEF DirClusters
  <2>2. b \in Reach(G, d)
    BY <1>5, <2>1
  <2> QED BY <1>1, <1>5, <2>2 DEF DirClusters
<1>7. \A i \in 1 .. SLOTS : K[b][i].k \in {"end", "data"} /\ ~Named(K[b][i])
  BY BlankFacts
<1>8. Places(G, K) = Places(F, K)
  <2>1. \A p \in DirClusters(G, K) \X (1 .. SLOTS) : Named(K[p[1]][p[2]]) => p[1] \in DirClusters(F, K)
    BY <1>6, <1>7
  <2> QED BY <1>6, <2>1 DEF Places
<1>9. DirsOK(G, K, U)
  <2>1. \A d \in Heads(K) : IsHead(G, d)
    BY <1>2, <1>5 DEF DirsOK
  <2>2. ASSUME NEW x \in DirClusters(G, K) PROVE IF x \in U THEN Blank(K[x]) ELSE SlotsOK(G, K, x)
    <3>1. CASE x = b
      <4>1. CASE b \in U
        BY <3>1, <4>1
      <4>2. CASE b \notin U
        <5>1. \A i \in 1 .. SLOTS : K[b][i] = EndSlot
          BY <4>2 DEF Zeroed
        <5>2. \A i \in 1 .. SLOTS : K[b][i].k = "end"
          BY <5>1, SlotFacts
        <5>3. \A i \in 1 .. SLOTS : \A h \in i .. SLOTS : h \in 1 .. SLOTS
          BY Numbers
        <5>4. SlotsOK(G, K, b)
          BY <1>5, <5>2, <5>3 DEF SlotsOK
        <5> QED BY <3>1, <4>2, <5>4
      <4> QED BY <4>1, <4>2
    <3>2. CASE x # b
      <4>1. x \in DirClusters(F, K) /\ x \notin U /\ x \in Cluster
        BY <1>6, <3>2, HeadFacts
      <4>2. SlotsOK(F, K, x)
        BY <4>1 DEF DirsOK
      <4>3. CASE x = a
        BY <4>1, <4>2, <4>3 DEF SlotsOK, NoEnd
      <4>4. CASE x # a
        <5>1. G[x] = F[x]
          BY <1>5, <4>1, <4>4
        <5>2. SlotsOK(G, K, x)
          BY <4>2, <5>1 DEF SlotsOK
        <5> QED BY <4>1, <5>2
      <4> QED BY <4>3, <4>4
    <3> QED BY <3>1, <3>2
  <2>3. \A x \in DirClusters(G, K), i \in 1 .. SLOTS : K[x][i].k = "dir" => K[x][i].first \in Heads(K)
    BY <1>6, <1>7 DEF DirsOK
  <2>4. \A c \in Cluster : G[c] = FREE => Blank(K[c])
    <3>1. G[a] = b
      BY DEF Sets
    <3> QED BY <1>1, <1>5, <3>1, Numbers DEF DirsOK
  <2> QED BY <2>1, <2>2, <2>3, <2>4 DEF DirsOK
<1>10. ASSUME NEW e, EntryOK(F, K, e), e.first # b PROVE EntryOK(G, K, e)
  <2>1. ASSUME e.k = "file" /\ e.first # 0 PROVE SameChain(F, K, G, K, e.first)
    <3> DEFINE c == e.first
    <3>1. IsHead(F, c) /\ c \notin Heads(K) /\ c # b
      BY <1>10, <2>1 DEF EntryOK, DataOK
    <3> HIDE DEF c
    <3>2. a \notin Reach(F, c)
      BY <3>1, HeadFacts
    <3>3. \A y \in Reach(F, c) : G[y] = F[y]
      BY <1>5, <3>2, ReachFacts
    <3>4. Reach(G, c) = Reach(F, c) /\ IsHead(G, c)
      BY <1>5, <3>1, <3>2
    <3>5. SameChain(F, K, G, K, c)
      BY <3>3, <3>4 DEF SameChain
    <3> QED BY <3>5 DEF c
  <2> QED BY <1>10, <2>1, EntryApart
<1>11. \A c : a \in Reach(F, c) => Reach(G, c) = Reach(F, c) \cup {b}
  BY <1>5
<1> QED BY <1>5, <1>6, <1>8, <1>9, <1>10, <1>11

\* What fat32_mkdir writes into the cluster c of a new directory in d.
Dots(c, d) == [i \in 1 .. SLOTS |->
                  CASE i = 1 -> Entry("dir", ".", c, 0)
                    [] i = 2 -> Entry("dir", "..", d, 0)
                    [] OTHER -> EndSlot]

LEMMA DotsFacts ==
    ASSUME NEW c, NEW d
    PROVE  /\ Dots(c, d)[1] = Entry("dir", ".", c, 0) /\ Dots(c, d)[2] = Entry("dir", "..", d, 0)
           /\ \A i \in 1 .. SLOTS : i \notin {1, 2} => Dots(c, d)[i] = EndSlot
<1>1. Dots(c, d)[1] = Entry("dir", ".", c, 0)
  BY Numbers DEF Dots
<1>2. Dots(c, d)[2] = Entry("dir", "..", d, 0)
  BY Numbers DEF Dots
<1>3. \A i \in 1 .. SLOTS : i \notin {1, 2} => Dots(c, d)[i] = EndSlot
  BY DEF Dots
<1> QED BY <1>1, <1>2, <1>3

LEMMA NewDirectory ==
    ASSUME NEW F, NEW K, FatOK(F), DirsOK(F, K, {}),
           NEW c, IsHead(F, c), F[c] = EOC, Blank(K[c]), c # root_cluster, NEW d \in Heads(K),
           NEW L, Writes(K, L, c, Dots(c, d))
    PROVE  /\ Heads(L) = Heads(K) \cup {c} /\ c \notin Heads(K)
           /\ DirClusters(F, L) = DirClusters(F, K) \cup {c}
           /\ Places(F, L) = Places(F, K)
           /\ \A x \in DirClusters(F, K) : L[x] = K[x]
           /\ DirsOK(F, L, {})
           /\ \A e : EntryOK(F, K, e) /\ e.first # c => EntryOK(F, L, e)
<1>1. c \in Cluster /\ DOMAIN K = Cluster
  BY DEF IsHead, DirsOK
<1>2. L[c] = Dots(c, d) /\ (\A y \in Cluster \ {c} : L[y] = K[y]) /\ DOMAIN L = Cluster
  BY DEF Writes
<1>3. c \notin Heads(K)
  BY BlankNoHead
<1>4. Heads(L) = Heads(K) \cup {c}
  BY <1>1, <1>2, DotsFacts DEF Heads
<1>5. Reach(F, c) = {c}
  <2>1. Reach(F, F[c]) = Reach(F, c) \ {c}
    BY <1>1, ReachTail
  <2>2. Reach(F, F[c]) = {}
    BY Numbers, ReachFacts
  <2>3. c \in Reach(F, c)
    BY <1>1, ReachFacts
  <2> QED BY <2>1, <2>2, <2>3
<1>6. DirClusters(F, L) = DirClusters(F, K) \cup {c}
  BY <1>1, <1>4, <1>5 DEF DirClusters
<1>7. c \notin DirClusters(F, K)
  BY <1>3, <1>5, HeadFacts
<1>8. \A x \in DirClusters(F, K) : L[x] = K[x]
  BY <1>2, <1>7, HeadFacts
<1>9. /\ L[c][1] = Entry("dir", ".", c, 0) /\ L[c][2] = Entry("dir", "..", d, 0)
      /\ \A i \in 1 .. SLOTS : i \notin {1, 2} => L[c][i] = EndSlot
  BY <1>2, DotsFacts
<1>15. /\ L[c][1].k = "dir" /\ L[c][1].first = c /\ ~Named(L[c][1])
       /\ L[c][2].k = "dir" /\ L[c][2].first = d /\ L[c][2].name = ".." /\ ~Named(L[c][2])
       /\ \A i \in 1 .. SLOTS : i \notin {1, 2} => L[c][i].k = "end" /\ ~Named(L[c][i])
  <2>1. L[c][1].k = "dir" /\ L[c][1].first = c /\ ~Named(L[c][1])
    BY <1>9, DotFacts
  <2>2. L[c][2].k = "dir" /\ L[c][2].first = d /\ L[c][2].name = ".." /\ ~Named(L[c][2])
    BY <1>9, DotFacts
  <2>3. \A i \in 1 .. SLOTS : i \notin {1, 2} => L[c][i].k = "end" /\ ~Named(L[c][i])
    BY <1>9, SlotFacts
  <2> QED BY <2>1, <2>2, <2>3
<1>10. \A i \in 1 .. SLOTS : ~Named(L[c][i])
  <2> TAKE i \in 1 .. SLOTS
  <2>1. CASE i \in {1, 2}
    BY <1>15, <2>1
  <2>2. CASE i \notin {1, 2}
    BY <1>15, <2>2
  <2> QED BY <2>1, <2>2
<1>11. Places(F, L) = Places(F, K)
  <2>1. \A p \in DirClusters(F, L) \X (1 .. SLOTS) : Named(L[p[1]][p[2]]) => p[1] \in DirClusters(F, K)
    BY <1>6, <1>10
  <2> QED BY <1>6, <1>8, <2>1 DEF Places
<1>12. DirsOK(F, L, {})
  <2>1. \A x \in Heads(L) : IsHead(F, x)
    BY <1>4 DEF DirsOK
  <2>2. ASSUME NEW x \in Heads(L) \ {root_cluster}
        PROVE  L[x][2].k = "dir" /\ L[x][2].name = ".." /\ L[x][2].first \in Heads(L)
    <3>1. CASE x = c
      BY <1>4, <1>15, <3>1
    <3>2. CASE x # c
      <4>1. x \in Heads(K) /\ L[x] = K[x]
        BY <1>4, <1>8, <3>2, HeadFacts
      <4> QED BY <1>4, <4>1 DEF DirsOK
    <3> QED BY <3>1, <3>2
  <2>3. ASSUME NEW x \in DirClusters(F, L) PROVE SlotsOK(F, L, x)
    <3>1. CASE x = c
      <4>1. ASSUME NEW i \in 1 .. SLOTS
            PROVE  /\ L[x][i].k # "data"
                   /\ L[x][i].k = "end" => F[x] = EOC /\ \A h \in i .. SLOTS : L[x][h].k = "end"
        <5>1. CASE i \in {1, 2}
          BY <1>15, <3>1, <5>1
        <5>2. CASE i \notin {1, 2}
          <6>1. \A h \in i .. SLOTS : h \in 1 .. SLOTS /\ h \notin {1, 2}
            BY <5>2, Numbers
          <6>2. L[x][i].k = "end" /\ \A h \in i .. SLOTS : L[x][h].k = "end"
            BY <1>15, <3>1, <5>2, <6>1
          <6> QED BY <3>1, <6>2
        <5> QED BY <5>1, <5>2
      <4> QED BY <4>1 DEF SlotsOK
    <3>2. CASE x # c
      <4>1. x \in DirClusters(F, K) /\ L[x] = K[x]
        BY <1>6, <1>8, <3>2
      <4> QED BY <4>1 DEF DirsOK, SlotsOK
    <3> QED BY <3>1, <3>2
  <2>4. ASSUME NEW x \in DirClusters(F, L), NEW i \in 1 .. SLOTS, L[x][i].k = "dir"
        PROVE  L[x][i].first \in Heads(L)
    <3>1. CASE x = c
      <4>1. i \in {1, 2}
        BY <1>15, <2>4, <3>1
      <4>2. L[x][i].first \in {c, d}
        BY <1>15, <3>1, <4>1
      <4> QED BY <1>4, <4>2
    <3>2. CASE x # c
      <4>1. x \in DirClusters(F, K) /\ L[x] = K[x]
        BY <1>6, <1>8, <3>2
      <4> QED BY <1>4, <2>4, <4>1 DEF DirsOK
    <3> QED BY <3>1, <3>2
  <2>5. \A x \in Cluster : F[x] = FREE => Blank(L[x])
    BY <1>2, Numbers DEF DirsOK
  <2> QED BY <1>2, <2>1, <2>2, <2>3, <2>4, <2>5 DEF DirsOK
<1>13. ASSUME NEW e, EntryOK(F, K, e), e.first # c PROVE EntryOK(F, L, e)
  <2>1. CASE e.k = "dir"
    BY <1>4, <1>13, <2>1 DEF EntryOK
  <2>2. CASE e.k = "file" /\ e.first = 0
    BY <1>13, <2>2 DEF EntryOK
  <2>3. CASE e.k = "file" /\ e.first # 0
    <3> DEFINE f == e.first
    <3>1. e.size \in Nat /\ DataOK(F, K, f, e.size)
      BY <1>13, <2>3 DEF EntryOK
    <3>2. f # c
      BY <1>13
    <3> HIDE DEF f
    <3>3. c \notin Reach(F, f)
      BY <3>2, HeadApart
    <3>4. \A y \in Reach(F, f) : L[y] = K[y]
      BY <1>2, <3>3, ReachFacts
    <3>5. DataOK(F, L, f, e.size)
      BY <1>4, <3>1, <3>2, <3>4 DEF DataOK
    <3> QED BY <2>3, <3>1, <3>5 DEF EntryOK, f
  <2> QED BY <1>13, <2>1, <2>2, <2>3 DEF EntryOK
<1> QED BY <1>3, <1>4, <1>6, <1>8, <1>11, <1>12, <1>13
----------------------------------------------------------------------------
(* Steps without a fault. *)

LEMMA NoFault ==
    ASSUME FaultsTyped, faults' = faults
    PROVE  /\ ~Fault("crash") /\ ~Fault("read") /\ ~Fault("write") /\ ~Fault("memory")
<1>1. faults.crash \in Nat /\ faults.read \in Nat /\ faults.write \in Nat /\ faults.memory \in Nat
  BY DEF FaultsTyped
<1>2. ~Fault("crash")
  BY <1>1 DEF Fault, FaultsTyped
<1>3. ~Fault("read")
  BY <1>1 DEF Fault, FaultsTyped
<1>4. ~Fault("write")
  BY <1>1 DEF Fault, FaultsTyped
<1>5. ~Fault("memory")
  BY <1>1 DEF Fault, FaultsTyped
<1> QED BY <1>2, <1>3, <1>4, <1>5

LEMMA FatWritten ==
    ASSUME FaultsTyped, faults' = faults, FatOK(fat), NEW c \in Cluster,
           NEW v \in Cluster \cup {FREE, EOC}, NEW ok \in BOOLEAN, WriteFat(c, v, ok)
    PROVE  disk' = disk /\ Sets(fat, fat', c, v)
<1>1. ok
  BY NoFault DEF WriteFat, Written
<1>2. disk' = disk /\ fat' = [fat EXCEPT ![c] = v]
  BY <1>1 DEF WriteFat, SetFat
<1> QED BY <1>2 DEF Sets, FatOK

LEMMA ClusterWritten ==
    ASSUME FaultsTyped, faults' = faults, DOMAIN disk = Cluster, NEW c \in Cluster,
           NEW s, NEW ok \in BOOLEAN, WriteCluster(c, s, ok)
    PROVE  fat' = fat /\ Writes(disk, disk', c, s)
<1>1. ok
  BY NoFault DEF WriteCluster, Written
<1>2. fat' = fat /\ disk' = [disk EXCEPT ![c] = s]
  BY <1>1 DEF WriteCluster
<1> QED BY <1>2 DEF Writes

\* A step that writes nothing and holds nothing new.
LEMMA Quiet ==
    ASSUME Good, fat' = fat, disk' = disk, Unzeroed = {}, Unzeroed' = {},
           AtRisk \subseteq AtRisk', HeldHeads' \subseteq HeldHeads, cwd_cluster' \in Heads(disk), JobOK'
    PROVE  Good'
<1>1. Safe' \subseteq Safe
  BY DEF Safe
<1>2. EntriesOK(fat, disk, Safe', HeldHeads')
  BY <1>1 DEF Good, EntriesOK
<1> QED BY <1>2 DEF Good

LEMMA PcFacts ==
    /\ "scan" \in Pcs /\ "read" \in Pcs /\ "free" \in Pcs /\ "mark" \in Pcs /\ "marklfn" \in Pcs
    /\ "dots" \in Pcs /\ "alloc" \in Pcs /\ "link" \in Pcs /\ "data" \in Pcs /\ "seek" \in Pcs
    /\ "grow" \in Pcs /\ "zero" \in Pcs /\ "hook" \in Pcs /\ "put" \in Pcs /\ "putnew" \in Pcs
    /\ "next" \in Pcs /\ "extend" \in Pcs /\ "hookfirst" \in Pcs /\ "zerolast" \in Pcs
BY DEF Pcs, DataPc, CreatePc

LEMMA IdleFacts ==
    /\ NoJob.pc \in Pcs /\ NoJob.op = "none" /\ EndSlot \in Slots
    /\ NoJob.pc \notin {"scan", "read", "free", "mark", "marklfn", "dots", "alloc", "link", "data", "seek", "grow",
                        "zero", "hook", "put", "putnew", "next", "extend", "hookfirst", "zerolast", "undo"}
<1>1. NoJob.pc = "" /\ NoJob.op = "none"
  BY DEF NoJob
<1>2. NoJob.pc \in Pcs
  BY DEF Pcs
<1>3. EndSlot \in Slots
  BY DEF EndSlot, Slots
<1>4. "" \notin {"scan", "read", "free", "mark", "marklfn", "dots", "alloc", "link", "data", "seek", "grow",
                "zero", "hook", "put", "putnew", "next", "extend", "hookfirst", "zerolast", "undo"}
  OBVIOUS
<1> QED BY <1>1, <1>2, <1>3, <1>4

LEMMA NoJobType == NoJob \in Jobs
<1>1. << >> \in Seq(Names) /\ << >> \in PutSeqs
  BY DEF PutSeqs
<1> QED BY <1>1, IdleFacts DEF NoJob, Jobs

LEMMA NoJobFacts ==
    ASSUME job' = NoJob
    PROVE  JobOK' /\ AtRisk' = {} /\ HeldHeads' = {} /\ Unzeroed' = {}
<1>1. /\ job'.op = "none" /\ job'.pc = NoJob.pc
      /\ job'.pc \notin {"scan", "read", "free", "mark", "marklfn", "dots", "alloc", "link", "data", "seek", "grow",
                         "zero", "hook", "put", "putnew", "next", "extend", "hookfirst", "zerolast", "undo"}
  BY IdleFacts
<1>2. AtRisk' = {} /\ HeldHeads' = {} /\ Unzeroed' = {} /\ ~Pending'
  BY <1>1 DEF AtRisk, HeldHeads, Unzeroed, Pending, Partial, CreatePc, FreshPc, DataPc
<1>3. job' \in Jobs
  BY NoJobType
<1>4. job'.pc \in PcOf(job'.op)
  BY <1>1 DEF PcOf
<1>5. OpOK' /\ ScanOK' /\ OldOK' /\ FreeOK' /\ WriteOK' /\ CreateOK'
  BY <1>1 DEF OpOK, ScanOK, OldOK, FreeOK, WriteOK, CreateOK, Partial, CreatePc, DataPc
<1> QED BY <1>1, <1>2, <1>3, <1>4, <1>5 DEF JobOK, FreshPc

LEMMA DoneGood ==
    ASSUME Good, job' = NoJob, fat' = fat, disk' = disk, job.pc \notin {"free", "mark", "zerolast"},
           cwd_cluster' \in Heads(disk)
    PROVE  Good'
<1>1. JobOK' /\ AtRisk' = {} /\ HeldHeads' = {} /\ Unzeroed' = {}
  BY NoJobFacts
<1>2. AtRisk = {} /\ Unzeroed = {}
  BY DEF AtRisk, Unzeroed
<1> QED BY <1>1, <1>2, Quiet
----------------------------------------------------------------------------
(* The operations begin. *)

LEMMA StartGood ==
    ASSUME Good, NEW op \in {"read", "write", "delete", "rename", "mkdir", "cd"}, NEW p \in Paths,
           NEW e \in Slots, NEW n \in Nat, Start(op, p, e, n), e.first = 0,
           op # "rename" => Last(p) \in PlainNames,
           op \in {"write", "rename", "mkdir"} => e.name \in PlainNames,
           op = "write" => e.k = "file" /\ e.size = n,
           op = "mkdir" => e.k = "dir" /\ e.size = 0
    PROVE  Good'
<1> DEFINE base == IF p.abs THEN root_cluster ELSE cwd_cluster
           pc   == IF op = "mkdir" /\ Len(p.names) = 1 THEN "alloc" ELSE "scan"
<1>1. p.names \in Seq(Names) \ {<< >>} /\ (op # "rename" => p.names[Len(p.names)] \in PlainNames)
  BY DiskAssumption DEF Last, Names
<1>2. base \in Heads(disk) /\ base \in Nat /\ base \in Reach(fat, base)
  <2>1. base \in Heads(disk)
    BY HeadFacts DEF Good
  <2>2. base \in Cluster
    BY <2>1, HeadFacts DEF Good
  <2> HIDE DEF base
  <2> QED BY <2>1, <2>2, Numbers, ReachFacts
<1> HIDE DEF base, pc
<1>3. /\ job.op = "none" /\ fat' = fat /\ disk' = disk /\ cwd_cluster' = cwd_cluster
      /\ job' = [NoJob EXCEPT !.op = op, !.path = p.names, !.dir = base, !.cl = base,
                              !.pc = pc, !.entry = e, !.left = n]
  BY DEF Start, base, pc
<1>4. pc \in {"alloc", "scan"} /\ (pc = "alloc" => op = "mkdir") /\ (op = "mkdir" /\ pc = "scan" => Len(p.names) > 1)
  <2>1. Len(p.names) \in Nat \ {0}
    BY <1>1
  <2>2. CASE op = "mkdir" /\ Len(p.names) = 1
    BY <2>2 DEF pc
  <2>3. CASE ~(op = "mkdir" /\ Len(p.names) = 1)
    <3>1. pc = "scan"
      BY <2>3 DEF pc
    <3> HIDE DEF pc
    <3>2. ASSUME op = "mkdir" PROVE Len(p.names) > 1
      <4> DEFINE len == Len(p.names)
      <4>1. len # 1 /\ len \in Nat \ {0}
        BY <2>1, <2>3, <3>2
      <4> HIDE DEF len
      <4>2. len > 1
        BY <4>1
      <4> QED BY <4>2 DEF len
    <3> QED BY <3>1, <3>2
  <2> QED BY <2>2, <2>3
<1>5. /\ job'.op = op /\ job'.path = p.names /\ job'.dir = base /\ job'.cl = base /\ job'.pc = pc
      /\ job'.entry = e /\ job'.left = n /\ job'.prev = 0 /\ job'.new = 0
  BY <1>3 DEF NoJob
<1>6. job' \in Jobs
  <2>1. NoJob \in Jobs
    BY NoJobType
  <2>2. pc \in Pcs /\ p.names \in Seq(Names)
    BY <1>1, <1>4, PcFacts
  <2> QED BY <1>2, <1>3, <2>1, <2>2 DEF Jobs
<1>7. job'.pc \in PcOf(job'.op)
  BY <1>4, <1>5 DEF PcOf, DataPc
<1>8. OpOK'
  BY <1>2, <1>3, <1>4, <1>5 DEF OpOK
<1>9. ScanOK'
  BY <1>1, <1>2, <1>3, <1>4, <1>5 DEF ScanOK
<1>10. OldOK' /\ FreeOK' /\ WriteOK' /\ CreateOK'
  BY <1>4, <1>5 DEF OldOK, FreeOK, WriteOK, CreateOK, Partial, CreatePc, DataPc
<1>11. HeldHeads' = {} /\ Unzeroed' = {} /\ ~Pending' /\ job'.pc \notin FreshPc \cup {"free", "mark", "marklfn"}
  BY <1>4, <1>5 DEF HeldHeads, Unzeroed, Pending, Partial, CreatePc, FreshPc, DataPc
<1>12. JobOK'
  BY <1>6, <1>7, <1>8, <1>9, <1>10, <1>11 DEF JobOK
<1>13. AtRisk = {} /\ Unzeroed = {}
  <2>1. job.pc = NoJob.pc
    BY <1>3 DEF Good, JobOK, PcOf
  <2> QED BY <2>1, IdleFacts DEF AtRisk, Unzeroed
<1>14. cwd_cluster' \in Heads(disk)
  BY <1>3 DEF Good
<1> QED BY <1>3, <1>11, <1>12, <1>13, <1>14, Quiet

\* Every way to begin an operation.
LEMMA BeginGood ==
    ASSUME Good, Begin, ~astray, ~astray'
    PROVE  Good'
<1>1. \A p \in PathsTo(FileNames) : p \in Paths /\ Last(p) \in FileNames /\ Last(p) \in PlainNames
  BY DEF PathsTo, PlainNames
<1>2. \A p \in PathsTo(DirNames) : p \in Paths /\ Last(p) \in DirNames /\ Last(p) \in PlainNames
  BY DEF PathsTo, PlainNames
<1>3. EndSlot \in Slots /\ EndSlot.first = 0
  BY IdleFacts, SlotFacts
<1>4. CASE fat32_read_file
  <2>1. PICK p \in PathsTo(FileNames) : Start("read", p, EndSlot, 0)
    BY <1>4 DEF fat32_read_file, NoEntry
  <2> QED BY <1>1, <1>3, <2>1, StartGood
<1>5. CASE fat32_write_file
  <2>1. PICK p \in PathsTo(FileNames), n \in SIZES : Start("write", p, Entry("file", Last(p), 0, n), n)
    BY <1>5 DEF fat32_write_file
  <2> DEFINE e == Entry("file", Last(p), 0, n)
  <2>2. e \in Slots /\ e.first = 0 /\ e.name \in PlainNames /\ e.k = "file" /\ e.size = n /\ n \in Nat
    BY <1>1, DiskAssumption DEF Entry, Slots
  <2> HIDE DEF e
  <2>3. Start("write", p, e, n)
    BY <2>1 DEF e
  <2> QED BY <1>1, <2>2, <2>3, StartGood
<1>6. CASE fat32_delete_file
  <2>1. PICK p \in PathsTo(FileNames) : Start("delete", p, EndSlot, 0)
    BY <1>6 DEF fat32_delete_file, NoEntry
  <2> QED BY <1>1, <1>3, <2>1, StartGood
<1>7. CASE fat32_rename_file
  <2>1. PICK p \in Paths, n \in PlainNames : Start("rename", p, Entry("end", n, 0, 0), 0)
    BY <1>7 DEF fat32_rename_file, PathsTo, PlainNames
  <2> DEFINE e == Entry("end", n, 0, 0)
  <2>2. e \in Slots /\ e.first = 0 /\ e.name \in PlainNames
    BY DEF Entry, Slots
  <2> HIDE DEF e
  <2>3. Start("rename", p, e, 0)
    BY <2>1 DEF e
  <2> QED BY <2>1, <2>2, <2>3, StartGood
<1>8. CASE fat32_mkdir
  <2>1. PICK p \in PathsTo(DirNames) : Start("mkdir", p, Entry("dir", Last(p), 0, 0), 0)
    BY <1>8 DEF fat32_mkdir
  <2> DEFINE e == Entry("dir", Last(p), 0, 0)
  <2>2. e \in Slots /\ e.first = 0 /\ e.name \in PlainNames /\ e.k = "dir" /\ e.size = 0
    BY <1>2 DEF Entry, Slots
  <2> HIDE DEF e
  <2>3. Start("mkdir", p, e, 0)
    BY <2>1 DEF e
  <2> QED BY <1>2, <2>2, <2>3, StartGood
<1>9. CASE fat32_cd
  <2>1. PICK p \in PathsTo(DirNames) : Start("cd", p, EndSlot, 0)
    BY <1>9 DEF fat32_cd, NoEntry
  <2> QED BY <1>2, <1>3, <2>1, StartGood
<1>10. CASE cd_root \/ cd_dotdot
  <2>1. job.op = "none" /\ fat' = fat /\ disk' = disk /\ job' = job
    BY <1>10 DEF cd_root, cd_dotdot
  <2>2. job = NoJob
    BY <2>1 DEF Good, JobOK, OpOK
  <2>3. cwd_cluster' \in Heads(disk)
    <3>1. CASE cwd_cluster' = root_cluster
      BY <3>1 DEF Heads
    <3>2. CASE cwd_cluster' # root_cluster
      <4>1. cwd_cluster' = Target(disk[cwd_cluster][2]) /\ cwd_cluster # root_cluster
        BY <1>10, <3>2 DEF cd_root, cd_dotdot
      <4>2. disk[cwd_cluster][2].first \in Heads(disk)
        BY <4>1 DEF Good, DirsOK
      <4>3. disk[cwd_cluster][2].first # 0
        BY <4>2, HeadFacts, Numbers DEF Good
      <4> QED BY <4>1, <4>2, <4>3 DEF Target
    <3> QED BY <3>1, <3>2
  <2>4. job' = NoJob /\ job.pc \notin {"free", "mark", "zerolast"}
    BY <2>1, <2>2, IdleFacts
  <2> QED BY <2>1, <2>3, <2>4, DoneGood
<1> QED BY <1>4, <1>5, <1>6, <1>7, <1>8, <1>9, <1>10 DEF Begin
----------------------------------------------------------------------------
(* After the old entry is gone: ToCreate and AfterOld. *)

LEMMA EntriesType ==
    ASSUME NEW e \in Slots, e.name \in PlainNames
    PROVE  Entries(e) \in PutSeqs
<1>1. LfnSlot(e.name) \in {LfnSlot(n) : n \in PlainNames}
  OBVIOUS
<1> DEFINE T == Slots \cup {LfnSlot(n) : n \in PlainNames}
<1>2. LfnSlot(e.name) \in T /\ e \in T
  BY <1>1
<1> HIDE DEF T
<1>3. <<LfnSlot(e.name), e>> \in Seq(T) /\ <<e>> \in Seq(T)
  BY <1>2
<1>4. Entries(e) \in Seq(T)
  BY <1>3 DEF Entries
<1> QED BY <1>4 DEF T, PutSeqs

LEMMA ToCreateFacts ==
    ASSUME NEW j \in Jobs, job' = ToCreate(j), j.op \in {"write", "rename", "mkdir"},
           j.dir \in Heads(disk'), EntryOK(fat', disk', j.entry), j.entry.name \in PlainNames,
           j.op = "write" => j.entry.k = "file", j.op = "mkdir" => j.entry.k = "dir" /\ j.entry.size = 0
    PROVE  /\ JobOK' /\ AtRisk' = {} /\ Unzeroed' = {} /\ HeldHeads' = {j.entry.first} \cap Cluster
<1>1. /\ job'.op = j.op /\ job'.pc = "seek" /\ job'.dir = j.dir /\ job'.cl = j.dir /\ job'.steps = 0
      /\ job'.prev = 0 /\ job'.entry = j.entry /\ job'.put = Entries(j.entry) /\ job'.left = j.left
  BY DEF ToCreate, Jobs
<1>2. job' \in Jobs
  <2>1. j.entry \in Slots
    BY DEF Jobs
  <2>2. Entries(j.entry) \in PutSeqs
    BY <2>1, EntriesType
  <2> QED BY <2>2, PcFacts DEF ToCreate, Jobs
<1>3. AtRisk' = {} /\ Unzeroed' = {} /\ HeldHeads' = {j.entry.first} \cap Cluster
  BY <1>1 DEF AtRisk, Unzeroed, HeldHeads, Pending, Partial, CreatePc, FreshPc, DataPc
<1>4. job'.pc \in PcOf(job'.op)
  BY <1>1 DEF PcOf, CreatePc
<1>5. OpOK'
  BY <1>1 DEF OpOK
<1>6. ScanOK' /\ OldOK' /\ FreeOK' /\ WriteOK'
  BY <1>1 DEF ScanOK, OldOK, FreeOK, WriteOK, Partial, DataPc
<1>7. CreateOK'
  <2>1. j.dir \in Cluster
    BY Numbers DEF Heads
  <2>2. j.dir \in Reach(fat', j.dir) /\ 0 + Cardinality(Reach(fat', j.dir)) <= NCLUSTERS
    BY <2>1, ReachFacts, ReachFinite
  <2> QED BY <1>1, <2>2 DEF CreateOK
<1> QED BY <1>1, <1>2, <1>3, <1>4, <1>5, <1>6, <1>7 DEF JobOK, FreshPc

LEMMA AfterOldFacts ==
    ASSUME job \in Jobs, job' = AfterOld, job.op \in {"write", "rename", "delete"},
           job.dir \in Heads(disk'), job.op \in {"write", "rename"} => job.entry.name \in PlainNames,
           job.op = "write" => job.entry.k = "file" /\ job.entry.first = 0 /\ job.entry.size = job.left,
           job.op = "rename" => EntryOK(fat', disk', job.entry)
    PROVE  /\ JobOK' /\ AtRisk' = {} /\ Unzeroed' = {}
           /\ HeldHeads' = IF job.op = "rename" THEN {job.entry.first} \cap Cluster ELSE {}
<1>1. CASE job.op = "delete"
  <2>1. job' = NoJob
    BY <1>1 DEF AfterOld
  <2> QED BY <1>1, <2>1, NoJobFacts
<1>2. CASE job.op = "write" /\ job.left > 0
  <2>1. job' = [job EXCEPT !.pc = "alloc", !.prev = 0, !.new = 0, !.idx = 0, !.lfn = {},
                           !.cl = 0, !.steps = 0]
    BY <1>2 DEF AfterOld
  <2>2. /\ job'.op = "write" /\ job'.pc = "alloc" /\ job'.dir = job.dir /\ job'.prev = 0
        /\ job'.entry = job.entry /\ job'.left = job.left
    BY <1>2, <2>1 DEF Jobs
  <2>3. job' \in Jobs
    BY ONLY <2>1, job \in Jobs, PcFacts DEF Jobs
  <2>4. AtRisk' = {} /\ Unzeroed' = {} /\ HeldHeads' = {}
    BY <1>2, <2>2, Numbers DEF AtRisk, Unzeroed, HeldHeads, Pending, Partial, CreatePc, FreshPc, DataPc
  <2>5. job'.pc \in PcOf(job'.op)
    BY <2>2 DEF PcOf, DataPc
  <2>6. OpOK'
    BY <1>2, <2>2 DEF OpOK
  <2>7. ScanOK' /\ OldOK' /\ FreeOK' /\ CreateOK' /\ ~Pending'
    BY <2>2 DEF ScanOK, OldOK, FreeOK, CreateOK, CreatePc, Pending
  <2>8. WriteOK'
    <3>1. job.left \in Nat
      BY DEF Jobs
    <3>2. job.left \in 1 .. job.entry.size
      BY <1>2, <3>1
    <3> QED BY <1>2, <2>2, <3>2 DEF WriteOK
  <2> QED BY <1>2, <2>2, <2>3, <2>4, <2>5, <2>6, <2>7, <2>8 DEF JobOK, FreshPc
<1>3. CASE job.op # "delete" /\ ~(job.op = "write" /\ job.left > 0)
  <2>1. job' = ToCreate(job)
    BY <1>3 DEF AfterOld
  <2>2. EntryOK(fat', disk', job.entry)
    <3>1. CASE job.op = "write"
      <4>1. job.left \in Nat
        BY DEF Jobs
      <4>2. job.entry.k = "file" /\ job.entry.first = 0 /\ job.entry.size = 0
        BY <1>3, <3>1, <4>1
      <4> QED BY <4>2 DEF EntryOK
    <3> QED BY <1>3, <3>1
  <2>3. /\ JobOK' /\ AtRisk' = {} /\ Unzeroed' = {} /\ HeldHeads' = {job.entry.first} \cap Cluster
    BY <1>3, <2>1, <2>2, ToCreateFacts
  <2> QED BY <1>3, <2>3, Numbers
<1> QED BY <1>1, <1>2, <1>3
----------------------------------------------------------------------------
(* Directory searches. *)

\* What the search has in its hands.
LEMMA ScanFacts ==
    ASSUME Good, job.pc = "scan"
    PROVE  /\ FatOK(fat) /\ DirsOK(fat, disk, {}) /\ AtRisk = {} /\ Unzeroed = {} /\ HeldHeads = {}
           /\ Safe = Places(fat, disk) /\ EntriesOK(fat, disk, Places(fat, disk), {})
           /\ job \in Jobs /\ job.op \in {"read", "write", "delete", "rename", "mkdir", "cd"}
           /\ OpOK /\ ScanOK /\ job.dir \in Heads(disk)
           /\ job.cl \in Cluster => job.cl \in DirClusters(fat, disk)
           /\ Len(job.path) \in Nat \ {0}
<1>1. AtRisk = {} /\ Unzeroed = {} /\ HeldHeads = {}
  BY DEF AtRisk, Unzeroed, HeldHeads, Pending, Partial, CreatePc, FreshPc, DataPc
<1>2. Safe = Places(fat, disk)
  BY <1>1 DEF Safe
<1>3. job \in Jobs /\ job.pc \in PcOf(job.op) /\ OpOK /\ ScanOK
  BY DEF Good, JobOK
<1>4. job.op \in {"read", "write", "delete", "rename", "mkdir", "cd"}
  BY <1>3, IdleFacts DEF PcOf, Jobs
<1>5. job.dir \in Heads(disk)
  BY <1>3, <1>4 DEF OpOK
<1>6. job.cl \in Cluster => job.cl \in DirClusters(fat, disk)
  <2>1. job.cl \in Reach(fat, job.dir) \cup {EOC}
    BY <1>3 DEF ScanOK
  <2> QED BY <1>5, <2>1, HeadFacts, Numbers DEF Good
<1>7. Len(job.path) \in Nat \ {0}
  <2>1. job.path \in Seq(Names) /\ job.path # << >>
    BY <1>3 DEF Jobs, ScanOK
  <2> QED BY <2>1
<1> QED BY <1>1, <1>2, <1>3, <1>4, <1>5, <1>6, <1>7 DEF Good

LEMMA NotFoundGood ==
    ASSUME Good, job.pc = "scan", NoWrite, NotFound
    PROVE  Good'
<1>1. fat' = fat /\ disk' = disk /\ cwd_cluster' = cwd_cluster
  BY DEF NoWrite, NotFound
<1>2. cwd_cluster' \in Heads(disk)
  BY <1>1 DEF Good
<1>3. CASE Len(job.path) = 1 /\ job.op = "write"
  <2>1. job' = AfterOld
    BY <1>3 DEF NotFound
  <2>2. job \in Jobs /\ job.dir \in Heads(disk)
    BY ScanFacts
  <2>3. job.entry.name \in PlainNames /\ job.entry.k = "file" /\ job.entry.first = 0 /\ job.entry.size = job.left
    BY <1>3, ScanFacts DEF OpOK
  <2>4. JobOK' /\ AtRisk' = {} /\ Unzeroed' = {} /\ HeldHeads' = {}
    BY <1>1, <1>3, <2>1, <2>2, <2>3, AfterOldFacts
  <2> QED BY <1>1, <1>2, <2>4, ScanFacts, Quiet
<1>4. CASE ~(Len(job.path) = 1 /\ job.op = "write")
  <2>1. job' = NoJob
    BY <1>4 DEF NotFound
  <2> QED BY <1>1, <1>2, <2>1, DoneGood
<1> QED BY <1>3, <1>4

LEMMA OnwardGood ==
    ASSUME Good, job.pc = "scan", NoWrite, job.cl \in Cluster, job' = Onward, cwd_cluster' = cwd_cluster
    PROVE  Good'
<1>1. fat' = fat /\ disk' = disk /\ cwd_cluster' \in Heads(disk)
  BY DEF NoWrite, Good
<1>2. job \in Jobs /\ job.cl \in DirClusters(fat, disk) /\ job.cl \in Reach(fat, job.dir)
  BY ScanFacts, Numbers DEF ScanOK
<1>3. fat[job.cl] \in Reach(fat, job.dir) \cup {EOC} /\ fat[job.cl] \in Nat
  <2>1. fat[job.cl] \in Cluster \cup {EOC}
    BY <1>2, ScanFacts, HeadFacts
  <2>2. fat[job.cl] \in Cluster => fat[job.cl] \in Reach(fat, job.dir)
    BY <1>2, ReachFacts DEF Closed
  <2> QED BY <2>1, <2>2, Numbers
<1>4. job' = [job EXCEPT !.prev = job.cl, !.cl = fat[job.cl], !.steps = @ + 1]
  BY DEF Onward, NextCluster
<1>5. /\ job'.op = job.op /\ job'.pc = "scan" /\ job'.path = job.path /\ job'.dir = job.dir
      /\ job'.cl = fat[job.cl] /\ job'.prev = job.cl /\ job'.new = job.new
      /\ job'.entry = job.entry /\ job'.left = job.left
  BY <1>2, <1>4 DEF Jobs
<1>6. job' \in Jobs
  <2> DEFINE s == job.steps + 1
  <2>1. s \in Nat /\ job' = [job EXCEPT !.prev = job.cl, !.cl = fat[job.cl], !.steps = s]
    BY <1>2, <1>4 DEF Jobs
  <2> HIDE DEF s
  <2> QED BY <1>2, <1>3, <2>1 DEF Jobs
<1>7. AtRisk' = {} /\ Unzeroed' = {} /\ HeldHeads' = {} /\ ~Pending'
  BY <1>5 DEF AtRisk, Unzeroed, HeldHeads, Pending, Partial, CreatePc, FreshPc, DataPc
<1>8. job'.pc \in PcOf(job'.op)
  BY <1>5 DEF Good, JobOK
<1>9. OpOK'
  BY <1>1, <1>5, ScanFacts DEF OpOK
<1>10. ScanOK'
  BY <1>1, <1>2, <1>3, <1>5, ScanFacts DEF ScanOK
<1>11. OldOK' /\ FreeOK' /\ WriteOK' /\ CreateOK'
  BY <1>5 DEF OldOK, FreeOK, WriteOK, CreateOK, Partial, CreatePc, DataPc
<1>12. JobOK'
  BY <1>5, <1>6, <1>7, <1>8, <1>9, <1>10, <1>11 DEF JobOK, FreshPc
<1> QED BY <1>1, <1>7, <1>12, ScanFacts, Quiet

LEMMA LfnBeforeFacts ==
    ASSUME Good, job.pc = "scan", NEW i \in 1 .. SLOTS
    PROVE  /\ LfnBefore(job.cl, i) \in SUBSET Nat
           /\ LfnBefore(job.cl, i) # {} =>
                 /\ job.prev \in DirClusters(fat, disk)
                 /\ \A h \in LfnBefore(job.cl, i) \cap (1 .. SLOTS) : disk[job.prev][h].k \in {"lfn", "del"}
<1>1. CASE LfnBefore(job.cl, i) = {}
  BY <1>1
<1>2. CASE LfnBefore(job.cl, i) # {}
  <2>1. job.prev \in Cluster /\ LfnBefore(job.cl, i) = LfnRun(job.prev, SLOTS + 1)
    BY <1>2 DEF LfnBefore
  <2>2. job.prev \in DirClusters(fat, disk)
    BY <2>1, ScanFacts, Numbers DEF ScanOK
  <2>3. SLOTS + 1 - 1 = SLOTS /\ \A h \in 1 .. SLOTS : h \in Nat /\ h \in h .. SLOTS
    BY Numbers
  <2>4. LfnRun(job.prev, SLOTS + 1) \in SUBSET Nat /\ \A h \in LfnRun(job.prev, SLOTS + 1) : disk[job.prev][h].k = "lfn"
    BY <2>3 DEF LfnRun
  <2> QED BY <2>1, <2>2, <2>4
<1> QED BY <1>1, <1>2

\* On the way to the last name.
LEMMA FoundOnTheWay ==
    ASSUME Good, job.pc = "scan", fat' = fat, disk' = disk, cwd_cluster' = cwd_cluster, NEW d \in Heads(disk),
           Len(job.path) > 1,
           job' = [job EXCEPT !.path = Tail(@), !.dir = d, !.cl = d, !.steps = 0, !.prev = 0,
                              !.pc = IF job.op = "mkdir" /\ Len(job.path) = 2 THEN "alloc" ELSE "scan"]
    PROVE  Good'
<1> DEFINE pc == IF job.op = "mkdir" /\ Len(job.path) = 2 THEN "alloc" ELSE "scan"
<1>1. job \in Jobs /\ d \in Nat /\ d \in Reach(fat, d)
  <2>1. d \in Cluster
    BY ScanFacts, HeadFacts
  <2> QED BY <2>1, ScanFacts, Numbers, ReachFacts
<1>2. /\ Tail(job.path) \in Seq(Names) /\ Tail(job.path) # << >> /\ Len(Tail(job.path)) = Len(job.path) - 1
      /\ Tail(job.path)[Len(Tail(job.path))] = job.path[Len(job.path)]
  <2>1. job.path \in Seq(Names)
    BY <1>1 DEF Jobs
  <2>2. Len(Tail(job.path)) = Len(job.path) - 1 /\ Tail(job.path) \in Seq(Names)
    BY <2>1
  <2>3. Len(job.path) \in Nat /\ Len(job.path) - 1 \in 1 .. Len(job.path) - 1 /\ Len(job.path) - 1 + 1 = Len(job.path)
    BY <2>1
  <2>4. \A k \in 1 .. Len(job.path) - 1 : Tail(job.path)[k] = job.path[k + 1]
    BY <2>1
  <2>5. Tail(job.path)[Len(job.path) - 1] = job.path[Len(job.path)]
    BY <2>3, <2>4
  <2>6. Tail(job.path) # << >>
    <3> DEFINE n == Len(job.path)
    <3>1. n \in Nat /\ n > 1
      BY <2>1
    <3> HIDE DEF n
    <3>2. n - 1 # 0
      BY <3>1
    <3>3. Len(<< >>) = 0
      OBVIOUS
    <3> QED BY <2>2, <3>2, <3>3 DEF n
  <2> QED BY <2>2, <2>5, <2>6
<1>3. /\ pc \in {"alloc", "scan"} /\ (pc = "alloc" => job.op = "mkdir")
      /\ (job.op = "mkdir" /\ pc = "scan" => Len(Tail(job.path)) > 1)
  <2>1. CASE job.op = "mkdir" /\ Len(job.path) = 2
    BY <2>1
  <2>2. CASE ~(job.op = "mkdir" /\ Len(job.path) = 2)
    <3>1. pc = "scan"
      BY <2>2
    <3>2. ASSUME job.op = "mkdir" PROVE Len(Tail(job.path)) > 1
      <4> DEFINE n == Len(job.path)
      <4>1. n # 2 /\ n > 1 /\ n \in Nat
        BY <2>2, <3>2, ScanFacts
      <4> HIDE DEF n
      <4>2. n - 1 > 1
        BY <4>1
      <4> QED BY <1>2, <4>2 DEF n
    <3> QED BY <3>1, <3>2
  <2> QED BY <2>1, <2>2
<1> HIDE DEF pc
<1>4. job' = [job EXCEPT !.path = Tail(job.path), !.dir = d, !.cl = d, !.steps = 0, !.prev = 0, !.pc = pc]
  BY DEF pc
<1>5. /\ job'.op = job.op /\ job'.pc = pc /\ job'.path = Tail(job.path) /\ job'.dir = d
      /\ job'.cl = d /\ job'.prev = 0 /\ job'.new = job.new
      /\ job'.entry = job.entry /\ job'.left = job.left
  BY <1>1, <1>4 DEF Jobs
<1>6. job' \in Jobs
  <2>1. pc \in Pcs
    BY <1>3, PcFacts
  <2> QED BY ONLY <1>1, <1>2, <1>4, <2>1 DEF Jobs
<1>7. AtRisk' = {} /\ Unzeroed' = {} /\ HeldHeads' = {} /\ ~Pending'
  BY <1>3, <1>5 DEF AtRisk, Unzeroed, HeldHeads, Pending, Partial, CreatePc, FreshPc, DataPc
<1>8. job'.pc \in PcOf(job'.op)
  BY <1>3, <1>5, ScanFacts DEF PcOf
<1>9. OpOK'
  BY <1>3, <1>5, ScanFacts DEF OpOK
<1>10. ScanOK'
  BY <1>1, <1>2, <1>3, <1>5, ScanFacts DEF ScanOK
<1>11. OldOK' /\ FreeOK' /\ WriteOK' /\ CreateOK'
  BY <1>3, <1>5 DEF OldOK, FreeOK, WriteOK, CreateOK, Partial, CreatePc, DataPc
<1>12. JobOK'
  BY <1>3, <1>5, <1>6, <1>7, <1>8, <1>9, <1>10, <1>11 DEF JobOK, FreshPc
<1>13. cwd_cluster' \in Heads(disk)
  BY DEF Good
<1> QED BY <1>7, <1>12, <1>13, ScanFacts, Quiet

\* What the search for the last name finds.
LEMMA HitFacts ==
    ASSUME Good, job.pc = "scan", job.cl \in Cluster, NEW i \in 1 .. SLOTS, FirstHit(job.cl, i)
    PROVE  LET e == disk[job.cl][i]
           IN  /\ Len(job.path) > 1 \/ job.op = "cd" => Target(e) \in Heads(disk)
               /\ /\ Len(job.path) = 1 /\ job.op \in {"write", "delete", "rename", "read"}
                  /\ job.op = "rename" => e.name \notin {".", ".."}
                  =>
                     /\ <<job.cl, i>> \in Places(fat, disk) /\ EntryOK(fat, disk, e)
                     /\ e.k \in (IF job.op = "rename" THEN {"file", "dir"} ELSE {"file"})
                     /\ e.first \in Nat /\ e.size \in Nat
                     /\ e.first >= 2 => e.first \in Cluster
                     /\ e.first \notin Cluster => e.first = 0
<1> DEFINE e == disk[job.cl][i]
<1>1. e.k \in Wanted /\ e.name = Head(job.path)
  BY DEF FirstHit, Hits
<1>2. job.cl \in DirClusters(fat, disk)
  BY ScanFacts
<1>3. ASSUME Len(job.path) > 1 \/ job.op = "cd" PROVE Target(e) \in Heads(disk)
  <2>1. e.k = "dir"
    BY <1>1, <1>3 DEF Wanted
  <2>2. e.first \in Heads(disk)
    BY <1>2, <2>1, ScanFacts DEF DirsOK
  <2>3. e.first # 0
    BY <2>2, ScanFacts, HeadFacts, Numbers
  <2> QED BY <2>2, <2>3 DEF Target
<1>4. ASSUME Len(job.path) = 1, job.op \in {"write", "delete", "rename", "read"},
             job.op = "rename" => e.name \notin {".", ".."}
      PROVE  /\ <<job.cl, i>> \in Places(fat, disk) /\ EntryOK(fat, disk, e)
             /\ e.k \in (IF job.op = "rename" THEN {"file", "dir"} ELSE {"file"})
             /\ e.first \in Nat /\ e.size \in Nat
             /\ e.first >= 2 => e.first \in Cluster
             /\ e.first \notin Cluster => e.first = 0
  <2>1. e.k \in (IF job.op = "rename" THEN {"file", "dir"} ELSE {"file"})
    <3>1. ~(Len(job.path) > 1 \/ job.op = "cd")
      BY <1>4
    <3> QED BY <1>1, <3>1 DEF Wanted
  <2>2. job.op # "rename" => e.name \in PlainNames
    <3>1. job.path \in Seq(Names) /\ (job.op # "rename" => job.path[Len(job.path)] \in PlainNames)
      BY ScanFacts DEF Jobs, ScanOK
    <3>2. Head(job.path) = job.path[1]
      BY <1>4, <3>1
    <3> QED BY <1>1, <1>4, <3>1, <3>2
  <2>3. e.name \notin {".", ".."}
    BY <1>4, <2>2, DiskAssumption DEF PlainNames
  <2>4. <<job.cl, i>> \in Places(fat, disk)
    BY <1>2, <2>1, <2>3 DEF Places, Named
  <2>5. EntryOK(fat, disk, e)
    BY <2>4, ScanFacts DEF EntriesOK
  <2>6. e.size \in Nat /\ (e.first = 0 \/ e.first \in Cluster)
    <3>1. CASE e.k = "file"
      BY <2>5, <3>1 DEF EntryOK, DataOK, IsHead
    <3>2. CASE e.k = "dir"
      BY <2>5, <3>2, ScanFacts, HeadFacts DEF EntryOK
    <3> QED BY <2>1, <3>1, <3>2
  <2> DEFINE f == e.first
  <2> HIDE DEF f
  <2>7. f \in Nat /\ (f >= 2 => f \in Cluster) /\ (f \notin Cluster => f = 0)
    <3>1. f = 0 \/ f \in Cluster
      BY <2>6 DEF f
    <3>2. CASE f = 0
      <4>1. 0 \in Nat /\ ~(0 >= 2)
        OBVIOUS
      <4> QED BY <3>2, <4>1
    <3>3. CASE f \in Cluster
      BY <3>3, Numbers
    <3> QED BY <3>1, <3>2, <3>3
  <2> QED BY <2>1, <2>4, <2>5, <2>6, <2>7 DEF f
<1> QED BY <1>3, <1>4

\* The last name is found.
LEMMA FoundGood ==
    ASSUME Good, job.pc = "scan", NoWrite, job.cl \in Cluster, NEW i \in 1 .. SLOTS,
           FirstHit(job.cl, i), Found(i), ~astray'
    PROVE  Good'
<1> DEFINE e == disk[job.cl][i]
           l == LfnBefore(job.cl, i)
<1>1. fat' = fat /\ disk' = disk
  BY DEF NoWrite
<1>2. /\ job \in Jobs /\ job.dir \in Heads(disk) /\ OpOK /\ i \in Nat /\ cwd_cluster \in Heads(disk)
      /\ job.cl \in Reach(fat, job.dir)
  BY ScanFacts, Numbers DEF Good, ScanOK
<1>3. l \in SUBSET Nat /\ (l # {} => /\ job.prev \in DirClusters(fat, disk)
                                    /\ \A h \in l \cap (1 .. SLOTS) : disk[job.prev][h].k \in {"lfn", "del"})
  BY LfnBeforeFacts
<1>4. Len(job.path) > 1 \/ job.op = "cd" => Target(e) \in Heads(disk)
  BY HitFacts
<1>5. /\ Len(job.path) = 1 /\ job.op \in {"write", "delete", "rename", "read"}
      /\ job.op = "rename" => e.name \notin {".", ".."}
      =>
                     /\ <<job.cl, i>> \in Places(fat, disk) /\ EntryOK(fat, disk, e)
                     /\ e.k \in (IF job.op = "rename" THEN {"file", "dir"} ELSE {"file"})
                     /\ e.first \in Nat /\ e.size \in Nat
                     /\ e.first >= 2 => e.first \in Cluster
                     /\ e.first \notin Cluster => e.first = 0
  BY HitFacts
<1>6. CASE /\ Len(job.path) > 1
           /\ job' = [job EXCEPT !.path = Tail(@), !.dir = Target(e), !.cl = Target(e),
                                 !.steps = 0, !.prev = 0,
                                 !.pc = IF job.op = "mkdir" /\ Len(job.path) = 2
                                        THEN "alloc" ELSE "scan"]
           /\ UNCHANGED <<cwd_cluster, astray>>
  <2> DEFINE d == Target(e)
  <2> HIDE DEF d
  <2>1. d \in Heads(disk)
    BY <1>4, <1>6 DEF d
  <2>2. cwd_cluster' = cwd_cluster
    BY <1>6
  <2>3. job' = [job EXCEPT !.path = Tail(@), !.dir = d, !.cl = d, !.steps = 0, !.prev = 0,
                           !.pc = IF job.op = "mkdir" /\ Len(job.path) = 2 THEN "alloc" ELSE "scan"]
    BY <1>6 DEF d
  <2> QED BY ONLY Good, job.pc = "scan", <1>1, <1>6, <2>1, <2>2, <2>3, FoundOnTheWay
<1>7. CASE job.op = "cd" /\ cwd_cluster' = Target(e) /\ job' = NoJob
  BY <1>1, <1>4, <1>7, DoneGood
<1>8. CASE /\ Len(job.path) = 1 /\ job.op = "rename"
           /\ job' = [[job EXCEPT !.idx = i, !.lfn = l] EXCEPT !.pc = "mark",
                                !.entry = Entry(e.k, job.entry.name, e.first, e.size)]
           /\ astray' = (astray \/ e.name \in {".", ".."}) /\ UNCHANGED cwd_cluster
  <2> DEFINE n == Entry(e.k, job.entry.name, e.first, e.size)
  <2>0. e.name \notin {".", ".."}
    BY <1>8
  <2>1. job.entry.name \in PlainNames
    BY <1>2, <1>8 DEF OpOK
  <2>2. n \in Slots /\ n.k = e.k /\ n.name = job.entry.name /\ n.first = e.first /\ n.size = e.size
    BY <1>5, <1>8, <2>0, <2>1 DEF Entry, Slots
  <2> HIDE DEF n
  <2>3. job' = [job EXCEPT !.idx = i, !.lfn = l, !.pc = "mark", !.entry = n]
    BY <1>8 DEF n
  <2> HIDE DEF l, e
  <2>4. /\ job'.op = "rename" /\ job'.pc = "mark" /\ job'.dir = job.dir /\ job'.cl = job.cl /\ job'.idx = i
        /\ job'.prev = job.prev /\ job'.lfn = l /\ job'.entry = n /\ job'.new = job.new
    BY <1>2, <1>8, <2>3 DEF Jobs
  <2>5. job' \in Jobs
    BY ONLY <1>2, <1>3, <2>2, <2>3, PcFacts DEF Jobs
  <2>6. AtRisk' = {} /\ Unzeroed' = {} /\ HeldHeads' = {} /\ ~Pending'
    BY <2>4 DEF AtRisk, Unzeroed, HeldHeads, Pending, Partial, CreatePc, FreshPc
  <2>7. job'.pc \in PcOf(job'.op)
    BY <2>4 DEF PcOf
  <2>8. OpOK'
    BY <1>1, <1>2, <2>1, <2>2, <2>4 DEF OpOK
  <2>9. OldOK'
    BY <1>1, <1>2, <1>5, <1>8, <2>0, <2>2, <2>4 DEF OldOK, e
  <2>10. LfnOK'
    BY <1>1, <1>3, <2>4 DEF LfnOK
  <2>11. ScanOK' /\ FreeOK' /\ WriteOK' /\ CreateOK'
    BY <2>4 DEF ScanOK, FreeOK, WriteOK, CreateOK, Partial, CreatePc
  <2>12. JobOK'
    BY <2>4, <2>5, <2>6, <2>7, <2>8, <2>9, <2>10, <2>11 DEF JobOK, FreshPc
  <2>13. cwd_cluster' \in Heads(disk)
    BY <1>2, <1>8
  <2> QED BY <1>1, <2>6, <2>12, <2>13, ScanFacts, Quiet
<1>9. CASE /\ Len(job.path) = 1 /\ job.op \in {"write", "delete"}
           /\ job' = [[job EXCEPT !.idx = i, !.lfn = l] EXCEPT !.pc = IF e.first >= 2 THEN "free" ELSE "mark",
                                !.new = e.first, !.steps = 0]
           /\ UNCHANGED <<cwd_cluster, astray>>
  <2> DEFINE pc == IF e.first >= 2 THEN "free" ELSE "mark"
             f  == e.first
  <2>1. f \in Nat /\ (f >= 2 => f \in Cluster) /\ (f \notin Cluster => f = 0) /\ (f \in Cluster => f >= 2)
    BY <1>5, <1>9, Numbers
  <2>2. pc \in {"free", "mark"} /\ (pc = "free" => f \in Cluster)
    BY <2>1
  <2> HIDE DEF pc, f
  <2>3. job' = [job EXCEPT !.idx = i, !.lfn = l, !.pc = pc, !.new = f, !.steps = 0]
    BY <1>9 DEF pc, f
  <2>4. e.k = "file" /\ f = First(disk, <<job.cl, i>>) /\ <<job.cl, i>> \in Places(fat, disk)
    BY <1>5, <1>9 DEF First, f
  <2>5. f \in Cluster => DataOK(fat, disk, f, e.size)
    BY <1>5, <1>9, <2>4, Numbers DEF EntryOK, f
  <2> HIDE DEF l
  <2>6. /\ job'.op = job.op /\ job'.pc = pc /\ job'.dir = job.dir /\ job'.cl = job.cl /\ job'.idx = i
        /\ job'.prev = job.prev /\ job'.lfn = l /\ job'.entry = job.entry /\ job'.new = f
        /\ job'.steps = 0 /\ job'.left = job.left
    BY <1>2, <2>3 DEF Jobs
  <2>7. job' \in Jobs
    <3>1. pc \in Pcs
      BY <2>2, PcFacts
    <3> QED BY ONLY <1>2, <1>3, <2>1, <2>3, <3>1 DEF Jobs
  <2>8. Unzeroed' = {} /\ HeldHeads' \subseteq {f} \cap Cluster /\ ~Pending' /\ AtRisk' = {<<job.cl, i>>}
    BY <1>9, <2>2, <2>6 DEF AtRisk, Unzeroed, HeldHeads, Pending, Partial, CreatePc, FreshPc, DataPc
  <2>9. job'.pc \in PcOf(job'.op)
    BY <1>9, <2>2, <2>6 DEF PcOf
  <2>10. OpOK'
    BY <1>1, <1>2, <1>9, <2>2, <2>6 DEF OpOK
  <2>11. OldOK'
    BY <1>1, <1>2, <1>9, <2>4, <2>6 DEF OldOK
  <2>12. FreeOK'
    <3>1. 0 + Cardinality(Reach(fat, f)) <= NCLUSTERS
      BY ReachFinite
    <3> QED BY <1>1, <2>2, <2>5, <2>6, <3>1 DEF FreeOK, DataOK
  <2>13. LfnOK'
    BY <1>1, <1>3, <2>2, <2>6 DEF LfnOK
  <2>14. ScanOK' /\ WriteOK' /\ CreateOK'
    BY <2>2, <2>6 DEF ScanOK, WriteOK, CreateOK, Partial, CreatePc, DataPc
  <2>15. JobOK'
    BY <2>2, <2>6, <2>7, <2>8, <2>9, <2>10, <2>11, <2>12, <2>13, <2>14 DEF JobOK, FreshPc
  <2>16. EntriesOK(fat, disk, Safe', HeldHeads')
    <3>1. Safe' \subseteq Places(fat, disk) \ {<<job.cl, i>>}
      BY <1>1, <2>8 DEF Safe
    <3>2. \A c \in HeldHeads' : IsHead(fat, c) /\ \A p \in Safe' : First(disk, p) # c
      <4>1. f \in Cluster => IsHead(fat, f) /\ f # 0
        BY <2>5, Numbers DEF DataOK
      <4>2. \A p \in Safe' : f # 0 => First(disk, p) # f
        BY <2>4, <3>1, ScanFacts DEF EntriesOK
      <4> QED BY <2>8, <4>1, <4>2
    <3> QED BY <3>1, <3>2, ScanFacts DEF EntriesOK
  <2>17. cwd_cluster' \in Heads(disk)
    BY <1>2, <1>9
  <2> QED BY <1>1, <2>8, <2>15, <2>16, <2>17, ScanFacts DEF Good
<1>10. CASE /\ Len(job.path) = 1 /\ job.op = "read"
            /\ job' = [[job EXCEPT !.idx = i, !.lfn = l] EXCEPT !.pc = "read", !.new = e.first, !.left = e.size,
                                    !.steps = 0, !.lfn = {}]
            /\ UNCHANGED <<cwd_cluster, astray>>
  <2> DEFINE f == e.first
             n == e.size
  <2>1. f \in Nat /\ n \in Nat
    BY <1>5, <1>10
  <2> HIDE DEF f, n
  <2>2. job' = [job EXCEPT !.idx = i, !.lfn = {}, !.pc = "read", !.new = f, !.left = n, !.steps = 0]
    BY <1>2, <1>10 DEF f, n, Jobs
  <2> HIDE DEF l, e
  <2>3. job'.op = "read" /\ job'.pc = "read" /\ job'.dir = job.dir /\ job'.entry = job.entry
    BY <1>2, <1>10, <2>2 DEF Jobs
  <2>4. job' \in Jobs
    BY ONLY <1>2, <2>1, <2>2, PcFacts DEF Jobs
  <2>5. AtRisk' = {} /\ Unzeroed' = {} /\ HeldHeads' = {} /\ ~Pending'
    BY <2>3 DEF AtRisk, Unzeroed, HeldHeads, Pending, Partial, CreatePc, FreshPc
  <2>6. job'.pc \in PcOf(job'.op)
    BY <2>3 DEF PcOf
  <2>7. OpOK'
    BY <1>1, <1>2, <1>10, <2>3 DEF OpOK
  <2>8. ScanOK' /\ OldOK' /\ FreeOK' /\ WriteOK' /\ CreateOK'
    BY <2>3 DEF ScanOK, OldOK, FreeOK, WriteOK, CreateOK, Partial, CreatePc
  <2>9. JobOK'
    BY <2>3, <2>4, <2>5, <2>6, <2>7, <2>8 DEF JobOK, FreshPc
  <2>10. cwd_cluster' \in Heads(disk)
    BY <1>2, <1>10
  <2> QED BY <1>1, <2>5, <2>9, <2>10, ScanFacts, Quiet
<1> QED
  <2> HIDE DEF e, l
  <2> QED BY <1>6, <1>7, <1>8, <1>9, <1>10 DEF Found, Done, e, l

LEMMA ScanGood ==
    ASSUME Good, FaultsTyped, faults' = faults, Scan, ~astray'
    PROVE  Good'
<1>1. job.pc = "scan" /\ NoWrite
  BY DEF Scan
<1>2. CASE ~WalkEnds /\ \E i \in 1 .. SLOTS : FirstHit(job.cl, i) /\ Found(i)
  <2>1. job.cl \in Cluster
    BY <1>2 DEF WalkEnds
  <2>2. PICK i \in 1 .. SLOTS : FirstHit(job.cl, i) /\ Found(i)
    BY <1>2
  <2> QED BY <1>1, <2>1, <2>2, FoundGood
<1>3. CASE NotFound
  BY <1>1, <1>3, NotFoundGood
<1>4. CASE ~WalkEnds /\ job' = Onward /\ UNCHANGED <<cwd_cluster, astray>>
  <2>1. job.cl \in Cluster /\ cwd_cluster' = cwd_cluster
    BY <1>4 DEF WalkEnds
  <2> QED BY <1>1, <1>4, <2>1, OnwardGood
<1> QED BY <1>2, <1>3, <1>4, NoFault DEF Scan

LEMMA ReadGood ==
    ASSUME Good, FaultsTyped, faults' = faults, Read, cwd_cluster' = cwd_cluster
    PROVE  Good'
<1>1. job.pc = "read" /\ fat' = fat /\ disk' = disk /\ cwd_cluster' \in Heads(disk)
  BY DEF Read, NoWrite, Good
<1>2. CASE job' = NoJob
  BY <1>1, <1>2, DoneGood
<1>3. CASE /\ job.left > 0 /\ job.new \in Cluster
           /\ job' = [job EXCEPT !.new = NextCluster(@), !.left = @ - 1, !.steps = @ + 1]
  <2> DEFINE n == fat[job.new]
             m == job.left - 1
             s == job.steps + 1
  <2>1. job \in Jobs /\ OpOK /\ job.op = "read"
    BY <1>1, IdleFacts DEF Good, JobOK, PcOf, Jobs, DataPc, CreatePc
  <2>2. n \in Nat /\ m \in Nat /\ s \in Nat
    <3>1. n \in Cluster \cup {FREE, EOC}
      BY <1>3 DEF Good, FatOK
    <3>2. job.left \in Nat /\ job.steps \in Nat
      BY <2>1 DEF Jobs
    <3> QED BY <1>3, <3>1, <3>2, Numbers
  <2>3. job' = [job EXCEPT !.new = n, !.left = m, !.steps = s]
    BY <1>3 DEF NextCluster
  <2> HIDE DEF n, m, s
  <2>4. job'.op = "read" /\ job'.pc = "read" /\ job'.dir = job.dir /\ job'.entry = job.entry
    BY <1>1, <2>1, <2>3 DEF Jobs
  <2>5. job' \in Jobs
    BY ONLY <2>1, <2>2, <2>3 DEF Jobs
  <2>6. AtRisk' = {} /\ Unzeroed' = {} /\ HeldHeads' = {} /\ ~Pending' /\ AtRisk = {} /\ Unzeroed = {}
    BY <1>1, <2>4 DEF AtRisk, Unzeroed, HeldHeads, Pending, Partial, CreatePc, FreshPc
  <2>7. job'.pc \in PcOf(job'.op)
    BY <2>4 DEF PcOf
  <2>8. OpOK'
    BY <1>1, <2>1, <2>4 DEF OpOK
  <2>9. ScanOK' /\ OldOK' /\ FreeOK' /\ WriteOK' /\ CreateOK'
    BY <2>4 DEF ScanOK, OldOK, FreeOK, WriteOK, CreateOK, Partial, CreatePc
  <2>10. JobOK'
    BY <2>4, <2>5, <2>6, <2>7, <2>8, <2>9 DEF JobOK, FreshPc
  <2> QED BY <1>1, <2>6, <2>10, Quiet
<1> QED BY <1>2, <1>3, NoFault DEF Read, Done
----------------------------------------------------------------------------
(* The old entry goes. *)

\* What the operation holds that frees the clusters of the old file.
LEMMA FreeFacts ==
    ASSUME Good, job.pc = "free"
    PROVE  /\ job \in Jobs /\ job.op \in {"write", "delete"} /\ job.dir \in Heads(disk)
           /\ OpOK /\ OldOK /\ FreeOK /\ LfnOK /\ job.entry.first = 0
           /\ FatOK(fat) /\ DirsOK(fat, disk, {}) /\ Unzeroed = {} /\ AtRisk = {<<job.cl, job.idx>>}
           /\ Safe \subseteq Places(fat, disk) /\ EntriesOK(fat, disk, Safe, {job.new} \cap Cluster)
           /\ cwd_cluster \in Heads(disk)
<1>1. job \in Jobs /\ job.pc \in PcOf(job.op) /\ OpOK /\ OldOK /\ FreeOK /\ LfnOK
  BY DEF Good, JobOK
<1>2. job.op \in {"write", "delete"}
  BY <1>1, IdleFacts DEF PcOf, Jobs, DataPc, CreatePc
<1>3. Unzeroed = {} /\ AtRisk = {<<job.cl, job.idx>>} /\ HeldHeads = {job.new} \cap Cluster
  BY <1>2 DEF Unzeroed, AtRisk, HeldHeads, Pending, Partial, CreatePc, FreshPc, DataPc
<1>4. job.dir \in Heads(disk) /\ job.entry.first = 0
  BY <1>1, <1>2 DEF OpOK
<1> QED BY <1>1, <1>2, <1>3, <1>4 DEF Good, Safe

LEMMA FreeGood ==
    ASSUME Good, FaultsTyped, faults' = faults, FreeCluster, cwd_cluster' = cwd_cluster
    PROVE  Good'
<1>1. job.pc = "free"
  BY DEF FreeCluster
<1>2. CASE NoWrite /\ Go("mark")
  <2>1. fat' = fat /\ disk' = disk /\ job' = [job EXCEPT !.pc = "mark"] /\ job \in Jobs
    BY <1>1, <1>2, FreeFacts DEF NoWrite, Go
  <2>2. /\ job'.op = job.op /\ job'.pc = "mark" /\ job'.dir = job.dir /\ job'.cl = job.cl /\ job'.idx = job.idx
        /\ job'.prev = job.prev /\ job'.lfn = job.lfn /\ job'.entry = job.entry /\ job'.left = job.left
    BY <2>1 DEF Jobs
  <2>3. job' \in Jobs
    BY <2>1, PcFacts DEF Jobs
  <2>4. AtRisk' = {<<job.cl, job.idx>>} /\ Unzeroed' = {} /\ HeldHeads' = {} /\ ~Pending'
    BY <1>1, <2>2, FreeFacts DEF AtRisk, Unzeroed, HeldHeads, Pending, Partial, CreatePc, FreshPc, DataPc
  <2>5. job'.pc \in PcOf(job'.op)
    BY <1>1, <2>2, FreeFacts DEF PcOf
  <2>6. OpOK'
    BY <1>1, <2>1, <2>2, FreeFacts DEF OpOK
  <2>7. OldOK'
    BY <1>1, <2>1, <2>2, FreeFacts DEF OldOK
  <2>8. LfnOK'
    BY <1>1, <2>1, <2>2, FreeFacts DEF LfnOK
  <2>9. ScanOK' /\ FreeOK' /\ WriteOK' /\ CreateOK'
    BY <2>2 DEF ScanOK, FreeOK, WriteOK, CreateOK, Partial, CreatePc, DataPc
  <2>10. JobOK'
    BY <2>2, <2>3, <2>4, <2>5, <2>6, <2>7, <2>8, <2>9 DEF JobOK, FreshPc
  <2> QED BY <1>1, <2>1, <2>4, <2>10, FreeFacts, Quiet
<1>3. CASE /\ OnChain(job.new) /\ \E ok \in BOOLEAN : WriteFat(job.new, FREE, ok)
           /\ job' = [job EXCEPT !.new = NextCluster(@), !.steps = @ + 1]
  <2> DEFINE a == job.new
             n == fat[a]
             s == job.steps + 1
  <2>1. a \in Cluster
    <3>1. a \in Cluster \cup {EOC} /\ a < EOC
      BY <1>1, <1>3, FreeFacts DEF FreeOK, OnChain
    <3>2. ~(EOC < EOC)
      BY Numbers
    <3> QED BY <3>1, <3>2
  <2>2. disk' = disk /\ Sets(fat, fat', a, FREE)
    BY <1>1, <1>3, <2>1, FreeFacts, FatWritten
  <2>3. IsHead(fat, a) /\ (\A p \in Safe : First(disk, p) # a) /\ a \notin Heads(disk)
    BY <1>1, <2>1, FreeFacts DEF EntriesOK, FreeOK
  <2>4. n \in Cluster \cup {EOC} /\ n \in Nat
    BY <1>1, <2>1, <2>3, FreeFacts, Numbers DEF FatOK, IsHead
  <2>5. job \in Jobs /\ s \in Nat
    BY <1>1, FreeFacts DEF Jobs
  <2>6. job' = [job EXCEPT !.new = n, !.steps = s]
    BY <1>3, <2>1 DEF NextCluster
  <2>7. /\ FatOK(fat') /\ fat'[a] = FREE
        /\ \A x \in Cluster \ {a} : fat'[x] = fat[x]
        /\ \A c : IsHead(fat, c) /\ c # a =>
                     IsHead(fat', c) /\ Reach(fat', c) = Reach(fat, c) /\ a \notin Reach(fat, c)
        /\ Reach(fat', n) = Reach(fat, a) \ {a}
        /\ n \in Cluster => IsHead(fat', n)
    BY ONLY <1>1, <2>2, <2>3, Good, FreeFacts, FreeKeeps
  <2>8. n \in Cluster => ~IsHead(fat, n)
    BY <2>1 DEF IsHead
  <2> HIDE DEF a, n, s
  <2>9. \A c : IsHead(fat, c) /\ c # a => SameChain(fat, disk, fat', disk', c)
    BY <2>2, <2>7, ReachFacts DEF SameChain
  <2>10. Apart(fat, disk, fat', disk')
    <3>1. DOMAIN disk' = Cluster
      BY <1>1, <2>2, FreeFacts DEF DirsOK
    <3>2. \A d \in Heads(disk) : SameChain(fat, disk, fat', disk', d)
      BY <1>1, <2>3, <2>9, FreeFacts, HeadFacts
    <3>3. \A c \in Cluster : fat'[c] = FREE => Blank(disk'[c])
      <4>1. disk[a] = FileData
        <5>1. a \in Reach(fat, a)
          BY <2>1, ReachFacts
        <5> QED BY <1>1, <2>1, <5>1, FreeFacts DEF FreeOK, a
      <4> QED BY <1>1, <2>2, <2>7, <4>1, FreeFacts DEF DirsOK, Blank
    <3> QED BY <2>2, <3>1, <3>2, <3>3 DEF Apart
  <2>11. /\ Heads(disk') = Heads(disk) /\ DirClusters(fat', disk') = DirClusters(fat, disk)
         /\ Places(fat', disk') = Places(fat, disk) /\ DirsOK(fat', disk', {})
    BY <1>1, <2>10, FreeFacts, DirsApart
  <2>12. /\ job'.op = job.op /\ job'.pc = "free" /\ job'.dir = job.dir /\ job'.cl = job.cl /\ job'.idx = job.idx
         /\ job'.prev = job.prev /\ job'.lfn = job.lfn /\ job'.entry = job.entry /\ job'.left = job.left
         /\ job'.new = n /\ job'.steps = s
    BY <1>1, <2>5, <2>6 DEF Jobs
  <2>13. job' \in Jobs
    BY ONLY <2>4, <2>5, <2>6 DEF Jobs
  <2>14. AtRisk' = {<<job.cl, job.idx>>} /\ Unzeroed' = {} /\ HeldHeads' = {n} \cap Cluster /\ ~Pending'
    BY <1>1, <2>12, FreeFacts DEF AtRisk, Unzeroed, HeldHeads, Pending, Partial, CreatePc, FreshPc, DataPc
  <2>15. Safe' = Safe
    BY <1>1, <2>11, <2>14, FreeFacts DEF Safe
  <2>16. EntriesOK(fat', disk', Safe, {n} \cap Cluster)
    <3>1. \A p \in Safe : disk[p[1]][p[2]].k = "file" /\ First(disk, p) # 0 =>
             SameChain(fat, disk, fat', disk', First(disk, p))
      BY <1>1, <2>3, <2>9, FreeFacts DEF EntriesOK, EntryOK, DataOK, First
    <3>2. \A c \in {n} \cap Cluster : IsHead(fat', c) /\ \A p \in Safe : First(disk, p) # c
      <4>1. \A p \in Safe : First(disk, p) = 0 \/ IsHead(fat, First(disk, p))
        <5> TAKE p \in Safe
        <5>1. EntryOK(fat, disk, disk[p[1]][p[2]])
          BY <1>1, FreeFacts DEF EntriesOK
        <5> QED BY <1>1, <5>1, FreeFacts, HeadFacts DEF EntryOK, DataOK, First
      <4> QED BY <2>7, <2>8, <4>1, Numbers
    <3> DEFINE X == {a} \cap Cluster
               Y == {n} \cap Cluster
    <3>3. EntriesOK(fat, disk, Safe, X) /\ Safe \subseteq Places(fat, disk)
      BY <1>1, FreeFacts DEF a
    <3>4. \A c \in Y : IsHead(fat', c) /\ \A p \in Safe : First(disk, p) # c
      BY <3>2
    <3> HIDE DEF X, Y
    <3>5. EntriesOK(fat', disk', Safe, Y)
      BY <1>1, <2>10, <3>1, <3>3, <3>4, FreeFacts, EntriesApart
    <3> QED BY <3>5 DEF Y
  <2>17. job'.pc \in PcOf(job'.op)
    BY <1>1, <2>12, FreeFacts DEF PcOf
  <2>18. OpOK'
    BY <1>1, <2>11, <2>12, FreeFacts DEF OpOK
  <2>19. OldOK'
    <3>1. Reach(fat', job.dir) = Reach(fat, job.dir)
      BY <1>1, <2>10, FreeFacts DEF Apart, SameChain
    <3> QED BY <1>1, <2>2, <2>11, <2>12, <3>1, FreeFacts DEF OldOK
  <2>20. LfnOK'
    BY <1>1, <2>2, <2>11, <2>12, FreeFacts DEF LfnOK
  <2>21. FreeOK'
    <3>1. n \in Cluster => n \notin Heads(disk')
      BY <1>1, <2>8, <2>11, FreeFacts, HeadFacts
    <3>2. \A x \in Reach(fat', n) : disk'[x] = FileData
      BY <1>1, <2>1, <2>2, <2>7, FreeFacts DEF FreeOK, a
    <3>3. s + Cardinality(Reach(fat', n)) <= NCLUSTERS
      <4>1. a \in Reach(fat, a) /\ IsFiniteSet(Reach(fat, a)) /\ Cardinality(Reach(fat, a)) \in Nat
        BY <2>1, ReachFacts, ReachFinite
      <4>2. Cardinality(Reach(fat', n)) = Cardinality(Reach(fat, a)) - 1
        BY <2>7, <4>1, FS_RemoveElement
      <4>3. job.steps + Cardinality(Reach(fat, a)) <= NCLUSTERS /\ job.steps \in Nat
        BY <1>1, <2>5, FreeFacts DEF FreeOK, Jobs, a
      <4> QED BY <4>1, <4>2, <4>3, Numbers DEF s
    <3> QED BY <2>4, <2>12, <3>1, <3>2, <3>3 DEF FreeOK
  <2>22. ScanOK' /\ WriteOK' /\ CreateOK'
    BY <2>12 DEF ScanOK, WriteOK, CreateOK, Partial, CreatePc, DataPc
  <2>23. JobOK'
    BY <2>12, <2>13, <2>14, <2>17, <2>18, <2>19, <2>20, <2>21, <2>22 DEF JobOK, FreshPc
  <2>24. cwd_cluster' \in Heads(disk')
    BY <1>1, <2>11, FreeFacts
  <2> QED BY <2>7, <2>11, <2>14, <2>15, <2>16, <2>23, <2>24 DEF Good
<1> QED BY <1>1, <1>2, <1>3, NoFault DEF FreeCluster

LEMMA DeletedFacts ==
    ASSUME NEW c, NEW I, NEW i \in 1 .. SLOTS
    PROVE  /\ i \in I => Deleted(c, I)[i].k = "del" /\ ~Named(Deleted(c, I)[i])
           /\ i \notin I => Deleted(c, I)[i] = disk[c][i]
<1>1. \A f : Entry("del", "", f, 0).k = "del"
  BY DEF Entry
<1>2. i \in I => Deleted(c, I)[i] = Entry("del", "", disk[c][i].first, 0)
  BY DEF Deleted
<1>3. i \notin I => Deleted(c, I)[i] = disk[c][i]
  BY DEF Deleted
<1>4. i \in I => Deleted(c, I)[i].k = "del"
  BY <1>1, <1>2
<1>5. Deleted(c, I)[i].k = "del" => ~Named(Deleted(c, I)[i])
  BY DEF Named
<1> QED BY <1>3, <1>4, <1>5

\* Slots of a directory are marked as deleted, none of them free or a dot entry.
LEMMA DeleteSlots ==
    ASSUME FatOK(fat), DirsOK(fat, disk, {}), NEW x \in DirClusters(fat, disk), NEW I,
           \A i \in 1 .. SLOTS : i \in I => disk[x][i].k # "end" /\ ~Dot(disk[x][i]),
           Writes(disk, disk', x, Deleted(x, I))
    PROVE  /\ Heads(disk') = Heads(disk) /\ DirClusters(fat, disk') = DirClusters(fat, disk)
           /\ DirsOK(fat, disk', {})
           /\ \A e : EntryOK(fat, disk, e) => EntryOK(fat, disk', e)
           /\ Places(fat, disk') = {p \in Places(fat, disk) : ~(p[1] = x /\ p[2] \in I)}
           /\ \A p \in Places(fat, disk') : disk'[p[1]][p[2]] = disk[p[1]][p[2]]
           /\ \A y \in Cluster, i \in 1 .. SLOTS : disk'[y][i] = disk[y][i] \/ disk'[y][i].k = "del"
<1> DEFINE s == Deleted(x, I)
<1>1. \A i \in 1 .. SLOTS : (i \in I => s[i].k = "del" /\ ~Named(s[i])) /\ (i \notin I => s[i] = disk[x][i])
  BY DeletedFacts
<1> HIDE DEF s
<1>2. Writes(disk, disk', x, s)
  BY DEF s
<1>3. disk'[x] = s /\ \A y \in Cluster \ {x} : disk'[y] = disk[y]
  BY <1>2 DEF Writes
<1>4. \A i \in 1 .. SLOTS : s[i] = disk[x][i] \/ (~Dot(s[i]) /\ ~Dot(disk[x][i]))
  BY <1>1 DEF Dot
<1>5. SlotsOK(fat, disk', x)
  <2>1. SlotsOK(fat, disk, x)
    BY DEF DirsOK
  <2> SUFFICES ASSUME NEW i \in 1 .. SLOTS
               PROVE  /\ s[i].k # "data"
                      /\ s[i].k = "end" => fat[x] = EOC /\ \A h \in i .. SLOTS : s[h].k = "end"
    BY <1>3 DEF SlotsOK
  <2>2. s[i].k # "data"
    BY <1>1, <2>1 DEF SlotsOK
  <2>3. ASSUME s[i].k = "end" PROVE fat[x] = EOC /\ \A h \in i .. SLOTS : s[h].k = "end"
    <3>1. disk[x][i].k = "end"
      BY <1>1, <2>3
    <3>2. fat[x] = EOC /\ \A h \in i .. SLOTS : disk[x][h].k = "end"
      BY <2>1, <3>1 DEF SlotsOK
    <3>3. \A h \in i .. SLOTS : h \in 1 .. SLOTS
      BY Numbers
    <3> QED BY <1>1, <3>2, <3>3
  <2> QED BY <2>2, <2>3
<1>6. \A i \in 1 .. SLOTS : s[i].k = "dir" => s[i].first \in Heads(disk)
  BY <1>1 DEF DirsOK
<1>7. /\ Heads(disk') = Heads(disk) /\ DirClusters(fat, disk') = DirClusters(fat, disk)
      /\ DirsOK(fat, disk', {})
      /\ \A e : EntryOK(fat, disk, e) => EntryOK(fat, disk', e)
  <2>1. x \notin {}
    OBVIOUS
  <2> QED BY <1>2, <1>4, <1>5, <1>6, <2>1, Rewrite
<1>8. ASSUME NEW y \in DirClusters(fat, disk), NEW i \in 1 .. SLOTS
      PROVE  IF y = x /\ i \in I THEN disk'[y][i].k = "del" /\ ~Named(disk'[y][i]) ELSE disk'[y][i] = disk[y][i]
  <2>1. y \in Cluster
    BY HeadFacts
  <2> QED BY <1>1, <1>3, <2>1
<1>9. /\ Places(fat, disk') = {p \in Places(fat, disk) : ~(p[1] = x /\ p[2] \in I)}
      /\ \A p \in Places(fat, disk') : disk'[p[1]][p[2]] = disk[p[1]][p[2]]
  <2> DEFINE D == DirClusters(fat, disk) \X (1 .. SLOTS)
  <2>1. ASSUME NEW p \in D
        PROVE  IF p[1] = x /\ p[2] \in I THEN ~Named(disk'[p[1]][p[2]]) ELSE disk'[p[1]][p[2]] = disk[p[1]][p[2]]
    <3>1. p[1] \in DirClusters(fat, disk) /\ p[2] \in 1 .. SLOTS
      OBVIOUS
    <3> QED BY <1>8, <3>1
  <2>2. Places(fat, disk) = {p \in D : Named(disk[p[1]][p[2]])}
    BY DEF Places
  <2>3. Places(fat, disk') = {p \in D : Named(disk'[p[1]][p[2]])}
    BY <1>7 DEF Places
  <2> HIDE DEF D
  <2> QED BY <2>1, <2>2, <2>3
<1>10. \A y \in Cluster, i \in 1 .. SLOTS : disk'[y][i] = disk[y][i] \/ disk'[y][i].k = "del"
  BY <1>1, <1>3
<1> QED BY <1>7, <1>9, <1>10

\* The old entry is deleted with the slots of its long name.
Erases(I) ==
    /\ job.idx \in I /\ fat' = fat /\ Writes(disk, disk', job.cl, Deleted(job.cl, I))
    /\ \A i \in 1 .. SLOTS : i \in I =>
          /\ disk[job.cl][i].k # "end" /\ ~Dot(disk[job.cl][i])
          /\ i = job.idx \/ disk[job.cl][i].k = "lfn"

LEMMA MarkFacts ==
    ASSUME Good, FaultsTyped, faults' = faults, MarkDeleted
    PROVE  /\ job.pc = "mark" /\ job \in Jobs /\ OpOK /\ OldOK /\ LfnOK /\ FatOK(fat) /\ cwd_cluster \in Heads(disk)
           /\ job.op \in {"write", "delete", "rename"} /\ job.dir \in Heads(disk)
           /\ Unzeroed = {} /\ AtRisk = IF job.op = "rename" THEN {} ELSE {<<job.cl, job.idx>>}
           /\ DirsOK(fat, disk, {}) /\ EntriesOK(fat, disk, Safe, {})
           /\ <<job.cl, job.idx>> \in Places(fat, disk)
           /\ job.cl \in DirClusters(fat, disk) /\ job.cl \in Cluster /\ job.idx \in 1 .. SLOTS
           /\ \E I : Erases(I)
<1> DEFINE x == job.cl
           k == job.idx
           I == {k} \cup LfnRun(x, k)
<1>1. job.pc = "mark" /\ \E ok \in BOOLEAN : WriteCluster(x, Deleted(x, I), ok)
  BY DEF MarkDeleted
<1>2. /\ job \in Jobs /\ job.pc \in PcOf(job.op) /\ OpOK /\ OldOK /\ LfnOK /\ FatOK(fat)
      /\ cwd_cluster \in Heads(disk)
  BY <1>1 DEF Good, JobOK
<1>3. job.op \in {"write", "delete", "rename"}
  BY <1>1, <1>2, IdleFacts DEF PcOf, Jobs, DataPc, CreatePc
<1>4. /\ Unzeroed = {} /\ AtRisk = IF job.op = "rename" THEN {} ELSE {<<x, k>>}
      /\ DirsOK(fat, disk, {}) /\ EntriesOK(fat, disk, Safe, {})
  <2>1. Unzeroed = {}
    BY <1>1 DEF Unzeroed
  <2>2. AtRisk = IF job.op = "rename" THEN {} ELSE {<<x, k>>}
    BY <1>1, <1>3 DEF AtRisk
  <2>3. EntriesOK(fat, disk, Safe, {})
    BY DEF Good, EntriesOK
  <2> QED BY <2>1, <2>2, <2>3 DEF Good
<1>5. <<x, k>> \in Places(fat, disk) /\ job.dir \in Heads(disk)
  BY <1>1, <1>2, <1>3 DEF OldOK, OpOK
<1>6. x \in DirClusters(fat, disk) /\ x \in Cluster /\ k \in 1 .. SLOTS /\ Named(disk[x][k])
  <2>1. x \in DirClusters(fat, disk) /\ k \in 1 .. SLOTS /\ Named(disk[x][k])
    BY <1>5 DEF Places
  <2> QED BY <1>2, <1>4, <2>1, HeadFacts
<1> HIDE DEF x, k
<1>7. \A i \in 1 .. SLOTS : i \in I => disk[x][i].k # "end" /\ ~Dot(disk[x][i]) /\ (i = k \/ disk[x][i].k = "lfn")
  <2>1. \A h \in LfnRun(x, k) : disk[x][h].k = "lfn"
    <3> TAKE h \in LfnRun(x, k)
    <3>1. h \in 1 .. k - 1 /\ \A g \in h .. k - 1 : disk[x][g].k = "lfn"
      BY DEF LfnRun
    <3>2. h \in h .. k - 1
      BY <1>6, <3>1
    <3> QED BY <3>1, <3>2
  <2>2. disk[x][k].k # "end" /\ ~Dot(disk[x][k])
    BY <1>6 DEF Named, Dot
  <2>3. \A h \in LfnRun(x, k) : disk[x][h].k # "end" /\ ~Dot(disk[x][h])
    BY <2>1 DEF Dot
  <2> QED BY <2>1, <2>2, <2>3
<1>8. fat' = fat /\ Writes(disk, disk', x, Deleted(x, I))
  <2>1. DOMAIN disk = Cluster
    BY <1>4 DEF DirsOK
  <2> QED BY <1>1, <1>6, <2>1, ClusterWritten
<1>9. k \in I
  OBVIOUS
<1> HIDE DEF I
<1>10. Erases(I)
  BY <1>7, <1>8, <1>9 DEF Erases, x, k
<1> QED BY <1>1, <1>2, <1>3, <1>4, <1>5, <1>6, <1>10 DEF x, k

LEMMA MarkGood ==
    ASSUME Good, FaultsTyped, faults' = faults, MarkDeleted, cwd_cluster' = cwd_cluster
    PROVE  Good'
<1> DEFINE x == job.cl
           k == job.idx
<1>1. job.pc = "mark"
  BY MarkFacts
<1>2. /\ job \in Jobs /\ OpOK /\ OldOK /\ LfnOK /\ FatOK(fat) /\ cwd_cluster \in Heads(disk)
  BY MarkFacts
<1>3. job.op \in {"write", "delete", "rename"}
  BY MarkFacts
<1>4. /\ Unzeroed = {} /\ AtRisk = IF job.op = "rename" THEN {} ELSE {<<x, k>>}
      /\ DirsOK(fat, disk, {}) /\ EntriesOK(fat, disk, Safe, {})
  BY MarkFacts
<1>5. <<x, k>> \in Places(fat, disk) /\ job.dir \in Heads(disk)
  BY MarkFacts
<1>6. x \in DirClusters(fat, disk) /\ x \in Cluster /\ k \in 1 .. SLOTS
  BY MarkFacts
<1>7. PICK I : Erases(I)
  BY MarkFacts
<1>8. /\ fat' = fat /\ Writes(disk, disk', x, Deleted(x, I))
      /\ \A i \in 1 .. SLOTS : i \in I => disk[x][i].k # "end" /\ ~Dot(disk[x][i])
  <2>1. fat' = fat /\ Writes(disk, disk', x, Deleted(x, I))
    BY <1>7 DEF Erases
  <2>2. ASSUME NEW i \in 1 .. SLOTS, i \in I PROVE disk[x][i].k # "end" /\ ~Dot(disk[x][i])
    BY <1>7, <2>2 DEF Erases
  <2> QED BY <2>1, <2>2
<1>9. k \in I
  BY <1>7 DEF Erases
<1> HIDE DEF x, k
<1>10. /\ Heads(disk') = Heads(disk) /\ DirClusters(fat, disk') = DirClusters(fat, disk)
       /\ DirsOK(fat, disk', {})
       /\ \A e : EntryOK(fat, disk, e) => EntryOK(fat, disk', e)
       /\ Places(fat, disk') = {p \in Places(fat, disk) : ~(p[1] = x /\ p[2] \in I)}
       /\ \A p \in Places(fat, disk') : disk'[p[1]][p[2]] = disk[p[1]][p[2]]
       /\ \A y \in Cluster, i \in 1 .. SLOTS : disk'[y][i] = disk[y][i] \/ disk'[y][i].k = "del"
  BY <1>2, <1>4, <1>6, <1>8, DeleteSlots
<1> DEFINE P == Places(fat, disk')
<1>11. P \subseteq Safe /\ <<x, k>> \notin P
  <2>1. <<x, k>> \notin P /\ P \subseteq Places(fat, disk)
    BY <1>9, <1>10
  <2> QED BY <1>4, <2>1 DEF Safe
<1> HIDE DEF P
<1>12. EntriesOK(fat, disk', P, {})
  <2>1. \A p \in P : First(disk', p) = First(disk, p)
    BY <1>10 DEF First, P
  <2>2. \A p \in P : EntryOK(fat, disk', disk'[p[1]][p[2]])
    BY <1>4, <1>10, <1>11 DEF EntriesOK, P
  <2> QED BY <1>4, <1>11, <2>1, <2>2 DEF EntriesOK
<1>13. ASSUME job.op = "rename"
       PROVE  /\ EntryOK(fat, disk', job.entry)
              /\ \A c \in {job.entry.first} \cap Cluster : IsHead(fat, c) /\ \A p \in P : First(disk', p) # c
  <2>1. /\ job.entry.first = disk[x][k].first /\ job.entry.size = disk[x][k].size
        /\ job.entry.k = disk[x][k].k
    BY <1>1, <1>2, <1>13 DEF OldOK, x, k
  <2>2. <<x, k>> \in Safe
    BY <1>4, <1>5, <1>13 DEF Safe
  <2>3. EntryOK(fat, disk, disk[x][k])
    <3>1. EntryOK(fat, disk, disk[<<x, k>>[1]][<<x, k>>[2]])
      BY <1>4, <2>2 DEF EntriesOK
    <3> QED BY <3>1
  <2>4. EntryOK(fat, disk, job.entry)
    BY <2>1, <2>3 DEF EntryOK
  <2>5. ASSUME job.entry.first \in Cluster PROVE IsHead(fat, job.entry.first)
    BY <1>2, <1>4, <2>4, <2>5, HeadFacts, Numbers DEF EntryOK, DataOK
  <2>6. ASSUME job.entry.first \in Cluster, NEW p \in P PROVE First(disk', p) # job.entry.first
    <3>1. First(disk', p) = First(disk, p) /\ p \in Safe /\ p # <<x, k>>
      BY <1>10, <1>11 DEF First, P
    <3>2. First(disk, <<x, k>>) = job.entry.first /\ job.entry.first # 0
      BY <2>1, <2>6, Numbers DEF First
    <3> QED BY <1>4, <2>2, <3>1, <3>2 DEF EntriesOK
  <2> QED BY <1>10, <2>4, <2>5, <2>6
<1>14. /\ job.op \in {"write", "rename"} => job.entry.name \in PlainNames
       /\ job.op = "write" => job.entry.k = "file" /\ job.entry.first = 0 /\ job.entry.size = job.left
  BY <1>1, <1>2 DEF OpOK
<1>15. /\ JobOK' /\ AtRisk' = {} /\ Unzeroed' = {}
       /\ HeldHeads' = IF job.op = "rename" THEN {job.entry.first} \cap Cluster ELSE {}
  <2>1. CASE job.lfn = {}
    <3>1. job' = AfterOld
      BY <2>1 DEF MarkDeleted
    <3>2. job.dir \in Heads(disk')
      BY <1>5, <1>10
    <3>3. job.op = "rename" => EntryOK(fat', disk', job.entry)
      BY <1>8, <1>13
    <3> QED BY ONLY <1>2, <1>3, <1>14, <3>1, <3>2, <3>3, AfterOldFacts
  <2>2. CASE job.lfn # {}
    <3>1. job' = [job EXCEPT !.pc = "marklfn"]
      BY <2>2 DEF MarkDeleted
    <3>2. /\ job'.op = job.op /\ job'.pc = "marklfn" /\ job'.dir = job.dir /\ job'.cl = job.cl
          /\ job'.prev = job.prev /\ job'.lfn = job.lfn /\ job'.entry = job.entry /\ job'.left = job.left
      BY <1>2, <3>1 DEF Jobs
    <3>3. job' \in Jobs
      BY ONLY <1>2, <3>1, PcFacts DEF Jobs
    <3>4. /\ AtRisk' = {} /\ Unzeroed' = {}
          /\ HeldHeads' = IF job.op = "rename" THEN {job.entry.first} \cap Cluster ELSE {}
          /\ Pending' => job.op = "rename"
      BY <3>2 DEF AtRisk, Unzeroed, HeldHeads, Pending, Partial, CreatePc, FreshPc, DataPc
    <3>5. job'.pc \in PcOf(job'.op)
      BY <1>3, <3>2 DEF PcOf
    <3>6. OpOK'
      BY <1>1, <1>2, <1>3, <1>5, <1>10, <1>14, <3>2 DEF OpOK
    <3>7. LfnOK'
      <4>1. /\ job.prev \in DirClusters(fat, disk) /\ job.prev \in Cluster
            /\ \A i \in job.lfn \cap (1 .. SLOTS) : disk[job.prev][i].k \in {"lfn", "del"}
        BY <1>2, <1>4, <2>2, HeadFacts DEF LfnOK
      <4>2. \A i \in job.lfn \cap (1 .. SLOTS) : disk'[job.prev][i].k \in {"lfn", "del"}
        BY <1>10, <4>1
      <4> QED BY <1>8, <1>10, <2>2, <3>2, <4>1, <4>2 DEF LfnOK
    <3>8. ScanOK' /\ OldOK' /\ FreeOK' /\ WriteOK' /\ CreateOK'
      BY <3>2 DEF ScanOK, OldOK, FreeOK, WriteOK, CreateOK, Partial, CreatePc, DataPc
    <3>9. Pending' => EntryOK(fat', disk', job'.entry)
      BY <1>8, <1>13, <3>2, <3>4
    <3> QED BY <3>2, <3>3, <3>4, <3>5, <3>6, <3>7, <3>8, <3>9 DEF JobOK, FreshPc
  <2> QED BY <2>1, <2>2
<1>16. Safe' = P
  BY <1>8, <1>15 DEF Safe, P
<1>17. EntriesOK(fat', disk', Safe', HeldHeads')
  <2>1. \A c \in HeldHeads' : IsHead(fat, c) /\ \A p \in P : First(disk', p) # c
    BY <1>13, <1>15
  <2> QED BY <1>8, <1>12, <1>16, <2>1 DEF EntriesOK
<1>18. cwd_cluster' \in Heads(disk')
  BY <1>2, <1>10
<1> QED BY <1>2, <1>8, <1>10, <1>15, <1>17, <1>18 DEF Good

LEMMA MarkLfnGood ==
    ASSUME Good, FaultsTyped, faults' = faults, MarkLfnDeleted, cwd_cluster' = cwd_cluster
    PROVE  Good'
<1> DEFINE x == job.prev
           I == job.lfn
<1>1. job.pc = "marklfn" /\ job' = AfterOld /\ \E ok \in BOOLEAN : WriteCluster(x, Deleted(x, I), ok)
  BY NoFault DEF MarkLfnDeleted
<1>2. /\ job \in Jobs /\ job.pc \in PcOf(job.op) /\ OpOK /\ LfnOK /\ FatOK(fat)
      /\ cwd_cluster \in Heads(disk) /\ (Pending => EntryOK(fat, disk, job.entry))
  BY <1>1 DEF Good, JobOK
<1>3. job.op \in {"write", "delete", "rename"}
  BY <1>1, <1>2, IdleFacts DEF PcOf, Jobs, DataPc, CreatePc
<1>4. /\ Unzeroed = {} /\ AtRisk = {} /\ Safe = Places(fat, disk)
      /\ HeldHeads = IF job.op = "rename" THEN {job.entry.first} \cap Cluster ELSE {}
      /\ DirsOK(fat, disk, {}) /\ EntriesOK(fat, disk, Safe, HeldHeads)
      /\ job.op = "rename" => EntryOK(fat, disk, job.entry)
  <2>1. Unzeroed = {} /\ AtRisk = {} /\ (job.op = "rename" => Pending)
    BY <1>1 DEF Unzeroed, AtRisk, Pending
  <2>2. HeldHeads = IF job.op = "rename" THEN {job.entry.first} \cap Cluster ELSE {}
    BY <1>1 DEF HeldHeads, Pending, Partial, CreatePc, FreshPc, DataPc
  <2> QED BY <1>2, <2>1, <2>2 DEF Good, Safe
<1>5. job.dir \in Heads(disk)
  BY <1>2, <1>3 DEF OpOK
<1>6. /\ x \in DirClusters(fat, disk) /\ x \in Cluster
      /\ \A i \in I \cap (1 .. SLOTS) : disk[x][i].k \in {"lfn", "del"}
  BY <1>1, <1>2, <1>4, HeadFacts DEF LfnOK
<1> HIDE DEF x, I
<1>7. \A i \in 1 .. SLOTS : i \in I => disk[x][i].k # "end" /\ ~Dot(disk[x][i]) /\ ~Named(disk[x][i])
  BY <1>6 DEF Dot, Named
<1>8. fat' = fat /\ Writes(disk, disk', x, Deleted(x, I))
  <2>1. DOMAIN disk = Cluster
    BY <1>4 DEF DirsOK
  <2> QED BY <1>1, <1>6, <2>1, ClusterWritten
<1>9. /\ Heads(disk') = Heads(disk) /\ DirsOK(fat, disk', {})
      /\ \A e : EntryOK(fat, disk, e) => EntryOK(fat, disk', e)
      /\ Places(fat, disk') = {p \in Places(fat, disk) : ~(p[1] = x /\ p[2] \in I)}
      /\ \A p \in Places(fat, disk') : disk'[p[1]][p[2]] = disk[p[1]][p[2]]
  BY <1>2, <1>4, <1>6, <1>7, <1>8, DeleteSlots
<1>10. Places(fat, disk') \subseteq Safe
  BY <1>4, <1>9
<1>11. /\ job.op \in {"write", "rename"} => job.entry.name \in PlainNames
       /\ job.op = "write" => job.entry.k = "file" /\ job.entry.first = 0 /\ job.entry.size = job.left
  BY <1>1, <1>2 DEF OpOK
<1>12. /\ JobOK' /\ AtRisk' = {} /\ Unzeroed' = {}
       /\ HeldHeads' = IF job.op = "rename" THEN {job.entry.first} \cap Cluster ELSE {}
  <2>1. job.dir \in Heads(disk')
    BY <1>5, <1>9
  <2>2. job.op = "rename" => EntryOK(fat', disk', job.entry)
    BY <1>4, <1>8, <1>9
  <2>3. job' = AfterOld
    BY <1>1
  <2> QED BY ONLY <1>2, <1>3, <1>11, <2>1, <2>2, <2>3, AfterOldFacts
<1>13. HeldHeads' = HeldHeads
  BY <1>4, <1>12
<1>14. EntriesOK(fat', disk', Safe', HeldHeads')
  <2>1. Safe' = Places(fat, disk')
    BY <1>8, <1>12 DEF Safe
  <2>2. \A p \in Safe' : First(disk', p) = First(disk, p) /\ p \in Safe
    BY <1>9, <1>10, <2>1 DEF First
  <2>3. \A p \in Safe' : EntryOK(fat, disk', disk'[p[1]][p[2]])
    BY <1>4, <1>9, <1>10, <2>1 DEF EntriesOK
  <2> QED BY <1>4, <1>8, <1>13, <2>2, <2>3 DEF EntriesOK
<1>15. cwd_cluster' \in Heads(disk')
  BY <1>2, <1>9
<1> QED BY <1>2, <1>8, <1>9, <1>12, <1>14, <1>15 DEF Good
----------------------------------------------------------------------------
(* New clusters. *)

LEMMA EntryHead ==
    ASSUME NEW F, NEW K, NEW U, FatOK(F), DirsOK(F, K, U), NEW e, EntryOK(F, K, e)
    PROVE  /\ e.first = 0 \/ IsHead(F, e.first)
           /\ e.first \in Nat /\ (e.first # 0 => e.first \in Cluster)
           /\ e.k = "file" /\ e.first # 0 => e.first \notin Heads(K)
<1>1. CASE e.k = "dir"
  <2>1. e.first \in Heads(K)
    BY <1>1 DEF EntryOK
  <2>2. IsHead(F, e.first) /\ e.first \in Cluster
    BY <2>1, HeadFacts
  <2> QED BY <1>1, <2>2, Numbers
<1>2. CASE e.k = "file" /\ e.first = 0
  BY <1>2
<1>3. CASE e.k = "file" /\ e.first # 0
  <2>1. IsHead(F, e.first) /\ e.first \notin Heads(K)
    BY <1>3 DEF EntryOK, DataOK
  <2>2. e.first \in Cluster
    BY <2>1 DEF IsHead
  <2> QED BY <2>1, <2>2, Numbers
<1> QED BY <1>1, <1>2, <1>3 DEF EntryOK

\* A step from F, K to G, L keeps all the chains but those from the clusters
\* of X, which it holds; the entries S stay in place, and it holds Y next.
KeepsRest(F, K, G, L, S, X, Y) ==
    /\ FatOK(F) /\ DirsOK(F, K, {}) /\ S \subseteq Places(F, K) /\ EntriesOK(F, K, S, X)
    /\ X \cap Heads(K) = {}
    /\ \A c : IsHead(F, c) /\ c \notin X => SameChain(F, K, G, L, c)
    /\ DOMAIN L = Cluster
    /\ \A c \in Cluster : L[c] = K[c] \/ (Blank(L[c]) /\ c # root_cluster)
    /\ \A c \in Cluster : G[c] = FREE => Blank(L[c])
    /\ \A c \in Y : IsHead(G, c) /\ \A p \in S : First(K, p) # c

LEMMA Beside ==
    ASSUME NEW F, NEW K, NEW G, NEW L, NEW S, NEW X, NEW Y, KeepsRest(F, K, G, L, S, X, Y)
    PROVE  /\ Heads(L) = Heads(K) /\ DirClusters(G, L) = DirClusters(F, K)
           /\ \A x \in DirClusters(F, K) : G[x] = F[x] /\ L[x] = K[x]
           /\ \A d \in Heads(K) : Reach(G, d) = Reach(F, d)
           /\ Places(G, L) = Places(F, K) /\ DirsOK(G, L, {})
           /\ EntriesOK(G, L, S, Y)
<1> USE DEF KeepsRest
<1>1. \A d \in Heads(K) : SameChain(F, K, G, L, d)
  BY HeadFacts
<1>2. Apart(F, K, G, L)
  BY <1>1 DEF Apart
<1>3. ASSUME NEW p \in S, K[p[1]][p[2]].k = "file", First(K, p) # 0
      PROVE  SameChain(F, K, G, L, First(K, p))
  <2> DEFINE e == K[p[1]][p[2]]
  <2>1. EntryOK(F, K, e)
    BY DEF EntriesOK
  <2>2. First(K, p) = e.first
    BY DEF First
  <2>3. e.first = 0 \/ IsHead(F, e.first)
    <3> HIDE DEF e
    <3> QED BY <2>1, EntryHead
  <2>4. IsHead(F, First(K, p)) /\ First(K, p) \notin X
    BY <1>3, <2>2, <2>3 DEF EntriesOK
  <2> QED BY <2>4
<1>4. EntriesOK(G, L, S, Y)
  BY <1>2, <1>3, EntriesApart
<1>5. /\ Heads(L) = Heads(K) /\ DirClusters(G, L) = DirClusters(F, K)
      /\ \A x \in DirClusters(F, K) : G[x] = F[x] /\ L[x] = K[x]
      /\ Places(G, L) = Places(F, K) /\ DirsOK(G, L, {})
  BY <1>2, DirsApart
<1>6. \A d \in Heads(K) : Reach(G, d) = Reach(F, d)
  BY <1>1 DEF SameChain
<1> QED BY <1>4, <1>5, <1>6

\* What an allocation changes.
LEMMA AllocFacts ==
    ASSUME Good, Unzeroed = {}, FaultsTyped, faults' = faults,
           NEW c \in Cluster, Allocated(c, 0), WriteFat(c, EOC, TRUE)
    PROVE  /\ disk' = disk /\ FatOK(fat') /\ fat'[c] = EOC /\ \A x \in Cluster \ {c} : fat'[x] = fat[x]
           /\ fat[c] = FREE /\ Blank(disk[c]) /\ c # root_cluster
           /\ \A h : IsHead(fat, h) => h # c /\ SameChain(fat, disk, fat', disk', h)
           /\ Heads(disk') = Heads(disk) /\ Places(fat', disk') = Places(fat, disk)
           /\ \A d \in Heads(disk) : Reach(fat', d) = Reach(fat, d)
           /\ DirsOK(fat', disk', {}) /\ EntriesOK(fat', disk', Safe, HeldHeads \cup {c})
<1>1. fat[c] = FREE
  BY Numbers DEF Allocated, LooksFree
<1>2. FatOK(fat) /\ DirsOK(fat, disk, {}) /\ EntriesOK(fat, disk, Safe, HeldHeads) /\ Safe \subseteq Places(fat, disk)
  BY DEF Good, Safe
<1>3. disk' = disk /\ Sets(fat, fat', c, EOC)
  BY <1>2, FatWritten
<1>4. /\ FatOK(fat') /\ IsHead(fat', c)
      /\ \A h : IsHead(fat, h) => IsHead(fat', h) /\ h # c /\ Reach(fat', h) = Reach(fat, h) /\ c \notin Reach(fat, h)
  BY <1>1, <1>2, <1>3, AllocKeeps
<1>5. fat'[c] = EOC /\ \A x \in Cluster \ {c} : fat'[x] = fat[x]
  BY <1>3 DEF Sets
<1>6. \A h : IsHead(fat, h) => h # c /\ SameChain(fat, disk, fat', disk', h)
  BY <1>3, <1>4, <1>5, ReachFacts DEF SameChain
<1>7. Blank(disk[c]) /\ c # root_cluster
  <2>1. IsHead(fat, root_cluster)
    BY <1>2, HeadFacts
  <2> QED BY <1>1, <1>2, <1>6, <2>1 DEF DirsOK
<1> DEFINE Y == HeldHeads \cup {c}
<1>8. \A b \in Y : IsHead(fat', b) /\ \A p \in Safe : First(disk, p) # b
  <2>1. \A b \in HeldHeads : IsHead(fat', b) /\ \A p \in Safe : First(disk, p) # b
    BY <1>2, <1>4 DEF EntriesOK
  <2>2. ASSUME NEW p \in Safe PROVE First(disk, p) # c
    <3> DEFINE e == disk[p[1]][p[2]]
    <3>1. EntryOK(fat, disk, e)
      BY <1>2 DEF EntriesOK
    <3> HIDE DEF e
    <3>2. e.first = 0 \/ IsHead(fat, e.first)
      BY <1>2, <3>1, EntryHead
    <3> QED BY <1>6, <3>2, Numbers DEF First, e
  <2> QED BY <1>4, <2>1, <2>2
<1> HIDE DEF Y
<1> DEFINE X == {}
<1>9. EntriesOK(fat, disk, Safe, X) /\ X \cap Heads(disk) = {}
  BY <1>2 DEF EntriesOK
<1> HIDE DEF X
<1>12. \A h : IsHead(fat, h) /\ h \notin X => SameChain(fat, disk, fat', disk', h)
  BY <1>6
<1>13. \A x \in Cluster : disk'[x] = disk[x] \/ (Blank(disk'[x]) /\ x # root_cluster)
  BY <1>3
<1>10. DOMAIN disk' = Cluster /\ (\A x \in Cluster : disk'[x] = disk[x]) /\ \A x \in Cluster : fat'[x] = FREE => Blank(disk'[x])
  BY <1>2, <1>3, <1>5, Numbers DEF DirsOK
<1>11. /\ Heads(disk') = Heads(disk) /\ Places(fat', disk') = Places(fat, disk)
       /\ \A d \in Heads(disk) : Reach(fat', d) = Reach(fat, d)
       /\ DirsOK(fat', disk', {}) /\ EntriesOK(fat', disk', Safe, Y)
  <2>1. KeepsRest(fat, disk, fat', disk', Safe, X, Y)
    BY ONLY <1>2, <1>8, <1>9, <1>10, <1>12, <1>13 DEF KeepsRest
  <2> QED BY ONLY <2>1, Beside
<1> QED BY <1>1, <1>3, <1>4, <1>5, <1>6, <1>7, <1>11 DEF Y

\* The steps that may allocate, all with the same outcomes.
LEMMA AllocCases ==
    ASSUME FaultsTyped, faults' = faults, NEW pc, Alloc(pc)
    PROVE  \/ job' = NoJob /\ fat' = fat /\ disk' = disk
           \/ \E c \in Cluster : /\ Allocated(c, 0) /\ WriteFat(c, EOC, TRUE)
                                 /\ job' = [job EXCEPT !.new = c, !.pc = pc]
BY NoFault DEF Alloc, Done, NoWrite

LEMMA AllocDataGood ==
    ASSUME Good, FaultsTyped, faults' = faults, AllocData, cwd_cluster' = cwd_cluster
    PROVE  Good'
<1> DEFINE pc == IF job.op = "mkdir" THEN "dots" ELSE "link"
<1>1. job.pc = "alloc" /\ Alloc(pc) /\ cwd_cluster' \in Heads(disk)
  BY DEF AllocData, Good
<1>2. job \in Jobs /\ job.pc \in PcOf(job.op) /\ OpOK /\ WriteOK
  BY DEF Good, JobOK
<1>3. job.op \in {"write", "mkdir"} /\ pc \in {"link", "dots"} /\ (pc = "link" <=> job.op = "write")
  BY <1>1, <1>2, IdleFacts DEF PcOf, Jobs, DataPc, CreatePc
<1>4. /\ Unzeroed = {} /\ AtRisk = {}
      /\ HeldHeads = IF job.op = "write" THEN {job.entry.first} \cap Cluster ELSE {}
  BY <1>1, <1>3 DEF Unzeroed, AtRisk, HeldHeads, Pending, Partial, CreatePc, FreshPc, DataPc
<1> HIDE DEF pc
<1>5. CASE job' = NoJob /\ fat' = fat /\ disk' = disk
  BY <1>1, <1>5, DoneGood
<1>6. ASSUME NEW c \in Cluster, Allocated(c, 0), WriteFat(c, EOC, TRUE),
             job' = [job EXCEPT !.new = c, !.pc = pc]
      PROVE  Good'
  <2>1. /\ disk' = disk /\ FatOK(fat') /\ fat'[c] = EOC /\ \A x \in Cluster \ {c} : fat'[x] = fat[x]
        /\ fat[c] = FREE /\ Blank(disk[c]) /\ c # root_cluster
        /\ \A h : IsHead(fat, h) => h # c /\ SameChain(fat, disk, fat', disk', h)
        /\ Heads(disk') = Heads(disk) /\ Places(fat', disk') = Places(fat, disk)
        /\ DirsOK(fat', disk', {}) /\ EntriesOK(fat', disk', Safe, HeldHeads \cup {c})
    BY <1>4, <1>6, AllocFacts
  <2>2. /\ job'.op = job.op /\ job'.pc = pc /\ job'.dir = job.dir /\ job'.prev = job.prev
        /\ job'.entry = job.entry /\ job'.left = job.left /\ job'.new = c
    BY <1>2, <1>6 DEF Jobs
  <2>3. job' \in Jobs
    <3>1. pc \in Pcs /\ c \in Nat
      BY <1>3, PcFacts, Numbers
    <3> QED BY ONLY <1>2, <1>6, <3>1 DEF Jobs
  <2>4. AtRisk' = {} /\ Unzeroed' = {} /\ HeldHeads' = HeldHeads \cup {c} /\ ~Pending'
    <3>1. AtRisk' = {} /\ Unzeroed' = {} /\ ~Pending'
      BY <1>3, <2>2 DEF AtRisk, Unzeroed, Pending, CreatePc
    <3>2. CASE job.op = "write"
      <4>1. HeldHeads' = ({job.entry.first} \cup {c}) \cap Cluster
        BY <1>3, <2>2, <3>2 DEF HeldHeads, Partial, DataPc, FreshPc
      <4> QED BY <1>4, <3>1, <3>2, <4>1
    <3>3. CASE job.op = "mkdir"
      <4>1. HeldHeads' = ({} \cup {c}) \cap Cluster
        BY <1>3, <2>2, <3>1, <3>3 DEF HeldHeads, Partial, FreshPc
      <4> QED BY <1>4, <3>1, <3>3, <4>1
    <3> QED BY <1>3, <3>2, <3>3
  <2>5. job'.pc \in PcOf(job'.op)
    BY <1>3, <2>2 DEF PcOf, DataPc
  <2>6. OpOK'
    BY <1>1, <1>2, <1>3, <2>1, <2>2 DEF OpOK
  <2>7. ScanOK' /\ OldOK' /\ FreeOK' /\ CreateOK'
    BY <1>3, <2>2 DEF ScanOK, OldOK, FreeOK, CreateOK, CreatePc
  <2>8. ASSUME job.op = "write" PROVE job.entry.first = 0 \/ IsHead(fat, job.entry.first)
    <3>1. Partial
      BY <1>1, <2>8 DEF Partial, DataPc
    <3> QED BY <1>1, <1>2, <3>1 DEF WriteOK, PartOK
  <2>9. job.op = "mkdir" => job.entry.first = 0
    BY <1>1, <1>2 DEF OpOK
  <2>10. Fresh(job.new)'
    <3>1. c # job.entry.first
      BY <1>3, <2>1, <2>8, <2>9, Numbers
    <3> QED BY <2>1, <2>2, <3>1 DEF Fresh
  <2>11. WriteOK'
    <3> SUFFICES ASSUME job.op = "write" PROVE WriteOK'
      BY <2>2 DEF WriteOK, Partial
    <3>1. Partial
      BY <1>1 DEF Partial, DataPc
    <3>2. /\ job.left \in 1 .. job.entry.size
          /\ IF job.prev = 0 THEN job.entry.first = 0 /\ job.left = job.entry.size
             ELSE /\ PartOK(job.prev, job.entry.size - job.left)
                  /\ \A x \in Reach(fat, job.entry.first) : disk[x] = FileData
      BY <1>1, <1>2, <3>1 DEF WriteOK
    <3>3. ASSUME job.prev # 0
          PROVE  /\ PartOK(job.prev, job.entry.size - job.left)'
                 /\ \A x \in Reach(fat', job.entry.first) : disk'[x] = FileData
      <4>1. SameChain(fat, disk, fat', disk', job.entry.first)
        BY <2>1, <3>2, <3>3 DEF PartOK
      <4> QED BY <2>1, <2>2, <3>2, <3>3, <4>1 DEF PartOK, SameChain
    <3>4. job'.pc = "link"
      BY <1>3, <2>2
    <3> QED BY <2>2, <3>2, <3>3, <3>4 DEF WriteOK
  <2>12. JobOK'
    BY <1>3, <2>2, <2>3, <2>4, <2>5, <2>6, <2>7, <2>10, <2>11 DEF JobOK
  <2>13. Safe' = Safe
    BY <1>4, <2>1, <2>4 DEF Safe
  <2> QED BY <1>1, <2>1, <2>4, <2>12, <2>13 DEF Good
<1> QED BY <1>1, <1>5, <1>6, AllocCases
----------------------------------------------------------------------------
(* The data of a file. *)

LEMMA LinkDataGood ==
    ASSUME Good, FaultsTyped, faults' = faults, LinkData, cwd_cluster' = cwd_cluster
    PROVE  Good'
<1> DEFINE b == job.new
<1>1. job.pc = "link" /\ cwd_cluster \in Heads(disk)
  BY DEF LinkData, Good
<1>2. job \in Jobs /\ job.pc \in PcOf(job.op) /\ OpOK /\ WriteOK /\ Fresh(b)
  BY <1>1 DEF Good, JobOK, FreshPc
<1>3. job.op = "write" /\ Partial
  BY <1>1, <1>2, IdleFacts DEF PcOf, Jobs, DataPc, CreatePc, Partial
<1>4. b \in Cluster /\ fat[b] = EOC /\ Blank(disk[b]) /\ b # root_cluster /\ b # job.entry.first
  BY <1>2 DEF Fresh
<1>5. /\ Unzeroed = {} /\ AtRisk = {} /\ HeldHeads = {job.entry.first, b} \cap Cluster
      /\ FatOK(fat) /\ DirsOK(fat, disk, {}) /\ EntriesOK(fat, disk, Safe, HeldHeads)
      /\ Safe = Places(fat, disk)
  <2>1. Unzeroed = {} /\ AtRisk = {} /\ HeldHeads = {job.entry.first, b} \cap Cluster
    BY <1>1, <1>3 DEF Unzeroed, AtRisk, HeldHeads, Pending, CreatePc, FreshPc
  <2> QED BY <2>1 DEF Good, Safe
<1>6. IsHead(fat, b) /\ (\A p \in Safe : First(disk, p) # b) /\ b \notin Heads(disk)
  <2>1. b \in HeldHeads
    BY <1>4, <1>5
  <2> HIDE DEF b
  <2> QED BY <1>4, <1>5, <2>1, BlankNoHead DEF EntriesOK
<1>7. /\ job.left \in 1 .. job.entry.size /\ job.entry.size \in Nat /\ job.dir \in Heads(disk)
      /\ IF job.prev = 0 THEN job.entry.first = 0 /\ job.left = job.entry.size
         ELSE /\ PartOK(job.prev, job.entry.size - job.left)
              /\ \A x \in Reach(fat, job.entry.first) : disk[x] = FileData
  <2>1. job.entry.size \in Nat
    BY <1>2 DEF Jobs, Slots
  <2> QED BY <1>1, <1>2, <1>3, <2>1 DEF WriteOK, OpOK
<1>8. job.entry.name \in PlainNames /\ job.entry.k = "file" /\ job.entry \in Slots /\ b \in Nat
  BY <1>2, <1>3, <1>4, Numbers DEF OpOK, Jobs
<1>9. CASE job.prev = 0
  <2>1. fat' = fat /\ disk' = disk /\ job' = [job EXCEPT !.entry.first = b, !.pc = "data"]
    BY <1>9 DEF LinkData, NoWrite
  <2> DEFINE n == [job.entry EXCEPT !.first = b]
  <2>2. n \in Slots /\ n.first = b /\ n.size = job.entry.size /\ n.k = "file" /\ n.name = job.entry.name
    BY <1>8 DEF Slots
  <2> HIDE DEF n
  <2>3. job' = [job EXCEPT !.entry = n, !.pc = "data"]
    BY <2>1 DEF n
  <2> HIDE DEF b
  <2>4. /\ job'.op = "write" /\ job'.pc = "data" /\ job'.dir = job.dir /\ job'.new = b
        /\ job'.entry = n /\ job'.left = job.left
    BY <1>2, <1>3, <2>3 DEF Jobs, b
  <2>5. job' \in Jobs
    BY ONLY <1>2, <2>2, <2>3, PcFacts DEF Jobs
  <2>6. AtRisk' = {} /\ Unzeroed' = {} /\ HeldHeads' = {b} \cap Cluster /\ ~Pending'
    BY <2>2, <2>4 DEF AtRisk, Unzeroed, HeldHeads, Pending, Partial, CreatePc, FreshPc, DataPc
  <2>7. job'.pc \in PcOf(job'.op)
    BY <2>4 DEF PcOf, DataPc
  <2>8. OpOK'
    BY <1>7, <1>8, <2>1, <2>2, <2>4 DEF OpOK
  <2>9. ScanOK' /\ OldOK' /\ FreeOK' /\ CreateOK'
    BY <2>4 DEF ScanOK, OldOK, FreeOK, CreateOK, CreatePc
  <2>10. WriteOK'
    <3>1. Reach(fat, b) = {b}
      <4>1. Reach(fat, fat[b]) = Reach(fat, b) \ {b} /\ b \in Reach(fat, b)
        BY <1>4, <1>5, ReachTail, ReachFacts
      <4>2. Reach(fat, fat[b]) = {}
        BY <1>4, Numbers, ReachFacts
      <4> QED BY <4>1, <4>2
    <3>2. Cardinality({b}) = 1
      BY FS_Singleton
    <3>3. job.entry.size - job.left + 1 = 1
      BY <1>7, <1>9
    <3>4. PartOK(job.new, job.entry.size - job.left + 1)'
      BY <1>4, <1>6, <2>1, <2>2, <2>4, <3>1, <3>2, <3>3 DEF PartOK
    <3>5. \A x \in Reach(fat', n.first) \ {b} : disk'[x] = FileData
      BY <2>1, <2>2, <3>1
    <3> QED BY <1>7, <2>2, <2>4, <3>4, <3>5 DEF WriteOK
  <2>11. JobOK'
    BY <2>4, <2>5, <2>6, <2>7, <2>8, <2>9, <2>10 DEF JobOK, FreshPc
  <2>12. HeldHeads' \subseteq HeldHeads
    BY <1>5, <2>6 DEF b
  <2> QED BY <1>1, <1>5, <2>1, <2>6, <2>11, <2>12, Quiet
<1>10. CASE job.prev # 0
  <2> DEFINE a == job.prev
             h == job.entry.first
  <2>1. /\ IsHead(fat, h) /\ h \notin Heads(disk) /\ a \in Reach(fat, h) /\ fat[a] = EOC
        /\ Cardinality(Reach(fat, h)) = job.entry.size - job.left
        /\ \A x \in Reach(fat, h) : disk[x] = FileData
    BY <1>7, <1>10 DEF PartOK
  <2>2. job' = [job EXCEPT !.pc = "data"] /\ \E ok \in BOOLEAN : WriteFat(a, b, ok)
    BY <1>10 DEF LinkData, Go
  <2>3. /\ job'.op = "write" /\ job'.pc = "data" /\ job'.dir = job.dir /\ job'.new = b
        /\ job'.entry = job.entry /\ job'.left = job.left
    BY <1>2, <1>3, <2>2 DEF Jobs
  <2>4. job' \in Jobs
    BY ONLY <1>2, <2>2, PcFacts DEF Jobs
  <2> HIDE DEF a, b, h
  <2>5. a \in Cluster /\ h \in Cluster /\ h # b /\ b \notin Reach(fat, h) /\ a # b
    <3>1. a \in Cluster /\ h \in Cluster /\ h # b
      BY <1>4, <2>1, ReachFacts DEF IsHead, h
    <3>2. b \notin Reach(fat, h)
      BY <1>6, <3>1, HeadApart
    <3> QED BY <2>1, <3>1, <3>2
  <2>6. disk' = disk /\ Sets(fat, fat', a, b)
    BY <1>4, <1>5, <2>2, <2>5, FatWritten
  <2>7. /\ FatOK(fat') /\ fat'[b] = EOC
        /\ \A x \in Cluster \ {a} : fat'[x] = fat[x]
        /\ \A c : IsHead(fat, c) /\ c # b => IsHead(fat', c)
        /\ \A c : Reach(fat', c) = IF a \in Reach(fat, c) THEN Reach(fat, c) \cup {b} ELSE Reach(fat, c)
    BY ONLY <1>4, <1>5, <1>6, <2>1, <2>5, <2>6, LinkKeeps
  <2>8. Reach(fat', h) = Reach(fat, h) \cup {b} /\ IsHead(fat', h)
    BY <2>1, <2>5, <2>7
  <2> DEFINE X == {h, b} \cap Cluster
             Y == {h}
  <2>9. ASSUME NEW c, IsHead(fat, c), c \notin X PROVE SameChain(fat, disk, fat', disk', c)
    <3>1. c # h /\ c # b
      BY <2>9 DEF IsHead
    <3>2. a \notin Reach(fat, c)
      <4>1. Reach(fat, c) \cap Reach(fat, h) = {}
        BY <1>5, <2>1, <2>9, <3>1, ReachApart
      <4> QED BY <2>1, <4>1
    <3>3. IsHead(fat', c) /\ Reach(fat', c) = Reach(fat, c)
      BY <2>7, <2>9, <3>1, <3>2
    <3>4. \A x \in Reach(fat, c) : fat'[x] = fat[x] /\ disk'[x] = disk[x]
      BY <2>6, <2>7, <3>2, ReachFacts
    <3> QED BY <3>3, <3>4 DEF SameChain
  <2>10. X = HeldHeads /\ X \cap Heads(disk) = {} /\ EntriesOK(fat, disk, Safe, X)
    BY <1>5, <1>6, <2>1 DEF h, b
  <2>11. \A c \in Y : IsHead(fat', c) /\ \A p \in Safe : First(disk, p) # c
    BY <2>5, <2>8, <2>10 DEF EntriesOK
  <2>12. /\ DOMAIN disk' = Cluster /\ \A c \in Cluster : fat'[c] = FREE => Blank(disk'[c])
         /\ \A c \in Cluster : disk'[c] = disk[c] \/ (Blank(disk'[c]) /\ c # root_cluster)
    <3>1. fat'[a] = b /\ b # FREE
      BY <1>4, <2>6, Numbers DEF Sets
    <3> QED BY <1>5, <2>6, <2>7, <3>1 DEF DirsOK
  <2>13. Safe \subseteq Places(fat, disk)
    BY <1>5
  <2> HIDE DEF X, Y
  <2>14. /\ Heads(disk') = Heads(disk) /\ Places(fat', disk') = Places(fat, disk)
         /\ DirsOK(fat', disk', {}) /\ EntriesOK(fat', disk', Safe, Y)
    <3>1. KeepsRest(fat, disk, fat', disk', Safe, X, Y)
      BY ONLY <1>5, <2>9, <2>10, <2>11, <2>12, <2>13 DEF KeepsRest
    <3> QED BY ONLY <3>1, Beside
  <2>15. AtRisk' = {} /\ Unzeroed' = {} /\ HeldHeads' = Y /\ ~Pending'
    <3>1. AtRisk' = {} /\ Unzeroed' = {} /\ HeldHeads' = {h} \cap Cluster /\ ~Pending'
      BY <2>3 DEF AtRisk, Unzeroed, HeldHeads, Pending, Partial, CreatePc, FreshPc, DataPc, h
    <3> QED BY <2>5, <3>1 DEF Y
  <2>16. Safe' = Safe
    BY <1>5, <2>14, <2>15 DEF Safe
  <2>17. job'.pc \in PcOf(job'.op)
    BY <2>3 DEF PcOf, DataPc
  <2>18. OpOK'
    BY <1>7, <1>8, <2>3, <2>14 DEF OpOK
  <2>19. ScanOK' /\ OldOK' /\ FreeOK' /\ CreateOK'
    BY <2>3 DEF ScanOK, OldOK, FreeOK, CreateOK, CreatePc
  <2>20. WriteOK'
    <3>1. Cardinality(Reach(fat', h)) = job.entry.size - job.left + 1
      <4>1. IsFiniteSet(Reach(fat, h))
        BY ReachFinite
      <4> QED BY <2>1, <2>5, <2>8, <4>1, FS_AddElement
    <3>2. PartOK(job.new, job.entry.size - job.left + 1)'
      BY <2>1, <2>3, <2>7, <2>8, <2>14, <3>1 DEF PartOK, h
    <3>3. \A x \in Reach(fat', h) \ {b} : disk'[x] = FileData
      BY <2>1, <2>6, <2>8
    <3> QED BY <1>7, <2>3, <3>2, <3>3 DEF WriteOK, h
  <2>21. JobOK'
    BY <2>3, <2>4, <2>15, <2>17, <2>18, <2>19, <2>20 DEF JobOK, FreshPc
  <2> QED BY <1>1, <2>7, <2>14, <2>15, <2>16, <2>21 DEF Good
<1> QED BY <1>9, <1>10

LEMMA WriteDataGood ==
    ASSUME Good, FaultsTyped, faults' = faults, WriteData, cwd_cluster' = cwd_cluster
    PROVE  Good'
<1> DEFINE b == job.new
           h == job.entry.first
<1>1. job.pc = "data" /\ cwd_cluster \in Heads(disk) /\ WriteCluster(b, FileData, TRUE)
  BY NoFault DEF WriteData, Good, WriteCluster, Written
<1>2. job \in Jobs /\ job.pc \in PcOf(job.op) /\ OpOK /\ WriteOK
  BY <1>1 DEF Good, JobOK
<1>3. job.op = "write" /\ Partial
  BY <1>1, <1>2, IdleFacts DEF PcOf, Jobs, DataPc, CreatePc, Partial
<1>4. /\ job.left \in 1 .. job.entry.size /\ job.entry.size \in Nat /\ job.dir \in Heads(disk)
      /\ IsHead(fat, h) /\ h \notin Heads(disk) /\ b \in Reach(fat, h) /\ fat[b] = EOC
      /\ Cardinality(Reach(fat, h)) = job.entry.size - job.left + 1
      /\ \A x \in Reach(fat, h) \ {b} : disk[x] = FileData
  <2>1. job.entry.size \in Nat
    BY <1>2 DEF Jobs, Slots
  <2> QED BY <1>1, <1>2, <1>3, <2>1 DEF WriteOK, OpOK, PartOK
<1>5. job.entry.name \in PlainNames /\ job.entry.k = "file" /\ job.entry \in Slots
  BY <1>2, <1>3 DEF OpOK, Jobs
<1>6. /\ Unzeroed = {} /\ AtRisk = {} /\ HeldHeads = {h}
      /\ FatOK(fat) /\ DirsOK(fat, disk, {}) /\ EntriesOK(fat, disk, Safe, {h})
      /\ Safe = Places(fat, disk) /\ h \in Cluster /\ h # 0
  <2>1. Unzeroed = {} /\ AtRisk = {} /\ HeldHeads = {h} \cap Cluster
    BY <1>1, <1>3 DEF Unzeroed, AtRisk, HeldHeads, Pending, CreatePc, FreshPc
  <2>2. h \in Cluster /\ h # 0
    BY <1>4, Numbers DEF IsHead
  <2> QED BY <2>1, <2>2 DEF Good, Safe
<1> HIDE DEF b, h
<1>7. b \in Cluster /\ b \notin DirClusters(fat, disk) /\ b # root_cluster
  BY <1>4, <1>6, ReachFacts, HeadFacts
<1>8. fat' = fat /\ Writes(disk, disk', b, FileData)
  <2>1. DOMAIN disk = Cluster /\ TRUE \in BOOLEAN
    BY <1>6 DEF DirsOK
  <2> QED BY <1>1, <1>7, <2>1, ClusterWritten
<1>9. disk'[b] = FileData /\ (\A x \in Cluster \ {b} : disk'[x] = disk[x]) /\ DOMAIN disk' = Cluster
  BY <1>8 DEF Writes
<1> DEFINE X == {h}
<1>10. KeepsRest(fat, disk, fat', disk', Safe, X, X)
  <2>1. ASSUME NEW c, IsHead(fat, c), c \notin X PROVE SameChain(fat, disk, fat', disk', c)
    <3>1. Reach(fat, c) \cap Reach(fat, h) = {}
      BY <1>4, <1>6, <2>1, ReachApart
    <3>2. \A x \in Reach(fat, c) : disk'[x] = disk[x]
      BY <1>4, <1>9, <3>1, ReachFacts
    <3> QED BY <1>8, <2>1, <3>2 DEF SameChain
  <2>2. \A c \in Cluster : disk'[c] = disk[c] \/ (Blank(disk'[c]) /\ c # root_cluster)
    BY <1>7, <1>9 DEF Blank
  <2>3. \A c \in Cluster : fat'[c] = FREE => Blank(disk'[c])
    BY <1>6, <1>8, <1>9 DEF DirsOK, Blank
  <2>4. \A c \in X : IsHead(fat', c) /\ \A p \in Safe : First(disk, p) # c
    BY <1>4, <1>6, <1>8 DEF EntriesOK
  <2>5. X \cap Heads(disk) = {} /\ EntriesOK(fat, disk, Safe, X)
    BY <1>4, <1>6
  <2> HIDE DEF X
  <2> QED BY <1>6, <1>9, <2>1, <2>2, <2>3, <2>4, <2>5 DEF KeepsRest
<1> HIDE DEF X
<1>11. /\ Heads(disk') = Heads(disk) /\ Places(fat', disk') = Places(fat, disk)
       /\ DirsOK(fat', disk', {}) /\ EntriesOK(fat', disk', Safe, X)
  BY ONLY <1>10, Beside
<1>12. \A x \in Reach(fat', h) : disk'[x] = FileData
  BY <1>4, <1>8, <1>9, ReachFacts
<1>13. JobOK' /\ AtRisk' = {} /\ Unzeroed' = {} /\ HeldHeads' = X
  <2>1. CASE job.left = 1
    <3> DEFINE j == [job EXCEPT !.left = 0]
    <3>1. job' = ToCreate(j)
      BY <2>1, NoFault DEF WriteData, WriteCluster, Written
    <3>2. j \in Jobs /\ j.op = "write" /\ j.dir = job.dir /\ j.entry = job.entry
      BY <1>2, <1>3 DEF Jobs
    <3> HIDE DEF j
    <3>3. EntryOK(fat', disk', j.entry)
      <4>1. job.entry.size - 1 + 1 = job.entry.size
        BY <1>4
      <4>2. DataOK(fat', disk', h, job.entry.size)
        BY <1>4, <1>8, <1>11, <1>12, <2>1, <4>1 DEF DataOK
      <4> QED BY <1>4, <1>5, <1>6, <3>2, <4>2 DEF EntryOK, h
    <3>4. j.dir \in Heads(disk')
      BY <1>4, <1>11, <3>2
    <3>5. JobOK' /\ AtRisk' = {} /\ Unzeroed' = {} /\ HeldHeads' = {j.entry.first} \cap Cluster
      BY <1>5, <3>1, <3>2, <3>3, <3>4, ToCreateFacts
    <3> QED BY <1>6, <3>2, <3>5 DEF X, h
  <2>2. CASE job.left # 1
    <3> DEFINE m == job.left - 1
    <3>1. m \in 1 .. job.entry.size /\ m \in Nat /\ job.entry.size - m = job.entry.size - job.left + 1
      BY <1>4, <2>2
    <3>2. job' = [job EXCEPT !.left = m, !.prev = b, !.pc = "alloc"]
      BY <2>2, NoFault DEF WriteData, WriteCluster, Written, b
    <3> HIDE DEF m
    <3>3. /\ job'.op = "write" /\ job'.pc = "alloc" /\ job'.dir = job.dir /\ job'.prev = b
          /\ job'.entry = job.entry /\ job'.left = m
      BY <1>2, <1>3, <3>2 DEF Jobs
    <3>4. job' \in Jobs
      <4>1. b \in Nat
        BY <1>7, Numbers
      <4> QED BY ONLY <1>2, <3>1, <3>2, <4>1, PcFacts DEF Jobs
    <3>5. AtRisk' = {} /\ Unzeroed' = {} /\ HeldHeads' = X /\ ~Pending'
      <4>1. AtRisk' = {} /\ Unzeroed' = {} /\ HeldHeads' = {h} \cap Cluster /\ ~Pending'
        BY <3>3 DEF AtRisk, Unzeroed, HeldHeads, Pending, Partial, CreatePc, FreshPc, DataPc, h
      <4> QED BY <1>6, <4>1 DEF X
    <3>6. job'.pc \in PcOf(job'.op)
      BY <3>3 DEF PcOf, DataPc
    <3>7. OpOK'
      BY <1>4, <1>5, <1>11, <3>3 DEF OpOK
    <3>8. ScanOK' /\ OldOK' /\ FreeOK' /\ CreateOK'
      BY <3>3 DEF ScanOK, OldOK, FreeOK, CreateOK, CreatePc
    <3>9. WriteOK'
      <4>1. PartOK(job.prev, job.entry.size - job.left)'
        BY <1>4, <1>8, <1>11, <3>1, <3>3 DEF PartOK, h
      <4>2. b # 0
        BY <1>7, Numbers
      <4> QED BY <1>12, <3>1, <3>3, <4>1, <4>2 DEF WriteOK, h
    <3> QED BY <3>3, <3>4, <3>5, <3>6, <3>7, <3>8, <3>9 DEF JobOK, FreshPc
  <2> QED BY <2>1, <2>2
<1>14. Safe' = Safe
  BY <1>6, <1>11, <1>13 DEF Safe
<1> QED BY <1>1, <1>6, <1>8, <1>11, <1>13, <1>14 DEF Good
----------------------------------------------------------------------------
(* A new directory. *)

LEMMA WriteDotsGood ==
    ASSUME Good, FaultsTyped, faults' = faults, WriteDots, cwd_cluster' = cwd_cluster
    PROVE  Good'
<1> DEFINE b == job.new
           n == [job.entry EXCEPT !.first = b]
           j == [job EXCEPT !.entry = n]
<1>1. /\ job.pc = "dots" /\ cwd_cluster \in Heads(disk) /\ WriteCluster(b, Dots(b, job.dir), TRUE)
      /\ job' = ToCreate([job EXCEPT !.entry.first = b])
  BY NoFault DEF WriteDots, Good, WriteCluster, Written, Dots
<1>2. job \in Jobs /\ job.pc \in PcOf(job.op) /\ OpOK /\ Fresh(b)
  BY <1>1 DEF Good, JobOK, FreshPc
<1>3. job.op = "mkdir"
  BY <1>1, <1>2, IdleFacts DEF PcOf, Jobs, DataPc, CreatePc
<1>4. /\ b \in Cluster /\ fat[b] = EOC /\ Blank(disk[b]) /\ b # root_cluster /\ b \in Nat
      /\ job.dir \in Heads(disk) /\ job.entry.k = "dir" /\ job.entry.size = 0
      /\ job.entry.name \in PlainNames /\ job.entry \in Slots
  BY <1>1, <1>2, <1>3, Numbers DEF Fresh, OpOK, Jobs
<1>5. /\ Unzeroed = {} /\ AtRisk = {} /\ Safe = Places(fat, disk)
      /\ FatOK(fat) /\ DirsOK(fat, disk, {}) /\ EntriesOK(fat, disk, Safe, {b})
  <2>1. Unzeroed = {} /\ AtRisk = {}
    BY <1>1 DEF Unzeroed, AtRisk
  <2>2. b \in HeldHeads
    BY <1>1, <1>4 DEF HeldHeads, FreshPc
  <2>3. EntriesOK(fat, disk, Safe, {b})
    BY <2>2 DEF Good, EntriesOK
  <2> QED BY <2>1, <2>3 DEF Good, Safe
<1>6. IsHead(fat, b) /\ \A p \in Safe : First(disk, p) # b
  BY <1>5 DEF EntriesOK
<1>7. n \in Slots /\ n.first = b /\ n.size = 0 /\ n.k = "dir" /\ n.name = job.entry.name
  BY <1>4 DEF Slots
<1>8. [job EXCEPT !.entry.first = b] = j
  BY <1>2 DEF Jobs
<1> HIDE DEF n
<1>9. j \in Jobs /\ j.entry = n /\ j.op = "mkdir" /\ j.dir = job.dir
  BY <1>2, <1>3, <1>7 DEF Jobs
<1> HIDE DEF j, b
<1>10. fat' = fat /\ Writes(disk, disk', b, Dots(b, job.dir))
  <2>1. DOMAIN disk = Cluster /\ TRUE \in BOOLEAN
    BY <1>5 DEF DirsOK
  <2> QED BY <1>1, <1>4, <2>1, ClusterWritten
<1>11. /\ Heads(disk') = Heads(disk) \cup {b} /\ b \notin Heads(disk)
       /\ DirClusters(fat, disk') = DirClusters(fat, disk) \cup {b}
       /\ Places(fat, disk') = Places(fat, disk)
       /\ \A x \in DirClusters(fat, disk) : disk'[x] = disk[x]
       /\ DirsOK(fat, disk', {})
       /\ \A e : EntryOK(fat, disk, e) /\ e.first # b => EntryOK(fat, disk', e)
  BY <1>4, <1>5, <1>6, <1>10, NewDirectory
<1>12. EntryOK(fat', disk', j.entry)
  BY <1>4, <1>7, <1>9, <1>11 DEF EntryOK
<1>13. JobOK' /\ AtRisk' = {} /\ Unzeroed' = {} /\ HeldHeads' = {j.entry.first} \cap Cluster
  <2>1. job' = ToCreate(j) /\ j.dir \in Heads(disk')
    BY <1>1, <1>4, <1>8, <1>9, <1>11
  <2> QED BY <1>4, <1>7, <1>9, <1>12, <2>1, ToCreateFacts
<1>14. Safe' = Safe /\ HeldHeads' = {b}
  <2>1. HeldHeads' = {b}
    BY <1>4, <1>7, <1>9, <1>13
  <2>2. Safe' = Safe
    BY <1>5, <1>10, <1>11, <1>13 DEF Safe
  <2> QED BY <2>1, <2>2
<1>15. EntriesOK(fat', disk', Safe, {b})
  <2>1. \A p \in Safe : disk'[p[1]][p[2]] = disk[p[1]][p[2]]
    BY <1>5, <1>11 DEF Places
  <2>2. \A p \in Safe : First(disk', p) = First(disk, p)
    BY <2>1 DEF First
  <2>3. ASSUME NEW p \in Safe PROVE EntryOK(fat, disk', disk'[p[1]][p[2]])
    <3>1. EntryOK(fat, disk, disk[p[1]][p[2]]) /\ disk[p[1]][p[2]].first # b
      BY <1>5, <1>6 DEF EntriesOK, First
    <3> QED BY <1>11, <2>1, <3>1
  <2> QED BY <1>5, <1>6, <1>10, <2>2, <2>3 DEF EntriesOK
<1> QED BY <1>1, <1>5, <1>10, <1>11, <1>13, <1>14, <1>15 DEF Good
----------------------------------------------------------------------------
(* dir_write_entries. *)

LEMMA CreateFacts ==
    ASSUME Good, job.pc \in CreatePc
    PROVE  /\ job \in Jobs /\ job.op \in {"write", "rename", "mkdir"} /\ OpOK /\ CreateOK
           /\ job.dir \in Heads(disk) /\ job.entry \in Slots /\ job.entry.name \in PlainNames
           /\ EntryOK(fat, disk, job.entry) /\ AtRisk = {} /\ Safe = Places(fat, disk)
           /\ FatOK(fat) /\ DirsOK(fat, disk, Unzeroed) /\ EntriesOK(fat, disk, Safe, HeldHeads)
           /\ HeldHeads = {c \in Cluster : c = job.entry.first \/ (job.pc \in FreshPc /\ c = job.new)}
           /\ cwd_cluster \in Heads(disk) /\ (job.pc \in FreshPc => Fresh(job.new))
           /\ job.pc # "zerolast" => Unzeroed = {}
<1>1. /\ job \in Jobs /\ job.pc \in PcOf(job.op) /\ OpOK /\ CreateOK /\ Pending
      /\ EntryOK(fat, disk, job.entry) /\ (job.pc \in FreshPc => Fresh(job.new))
  BY DEF Good, JobOK, Pending
<1>2. job.pc \notin {NoJob.pc, "scan", "read", "free", "mark", "marklfn", "alloc", "link", "data", "dots"}
  BY IdleFacts DEF CreatePc
<1>3. job.op \in {"write", "rename", "mkdir"}
  BY <1>1, <1>2 DEF PcOf, Jobs
<1>4. job.dir \in Heads(disk) /\ job.entry \in Slots /\ job.entry.name \in PlainNames
  BY <1>1, <1>3 DEF OpOK, Jobs
<1>5. AtRisk = {} /\ (job.pc # "zerolast" => Unzeroed = {})
  BY <1>2 DEF AtRisk, Unzeroed
<1>6. HeldHeads = {c \in Cluster : c = job.entry.first \/ (job.pc \in FreshPc /\ c = job.new)}
  BY <1>1, <1>2 DEF HeldHeads
<1> QED BY <1>1, <1>3, <1>4, <1>5, <1>6 DEF Good, Safe

\* The steps that follow differ in what CreateOK says of their places.
LEMMA CreateJob ==
    ASSUME Good, job.pc \in CreatePc, job' \in Jobs, job'.pc \in CreatePc,
           job'.op = job.op, job'.dir = job.dir, job'.entry = job.entry,
           job.dir \in Heads(disk'), EntryOK(fat', disk', job.entry), CreateOK',
           job'.pc \in FreshPc => Fresh(job.new)'
    PROVE  /\ JobOK' /\ AtRisk' = {}
           /\ HeldHeads' = {c \in Cluster : c = job.entry.first \/ (job'.pc \in FreshPc /\ c = job'.new)}
           /\ job'.pc # "zerolast" => Unzeroed' = {}
<1>1. /\ job.op \in {"write", "rename", "mkdir"} /\ OpOK /\ job.entry.name \in PlainNames
      /\ job.pc \notin {"scan", "free", "mark", "marklfn", "alloc", "link", "data", "dots"}
  <2>1. job.pc \notin {"scan", "free", "mark", "marklfn", "alloc", "link", "data", "dots"}
    BY DEF CreatePc
  <2> QED BY <2>1, CreateFacts
<1>2. job'.pc \notin {"scan", "read", "free", "mark", "marklfn", "alloc", "link", "data", "dots"}
  BY DEF CreatePc
<1>3. Pending' /\ ~Partial'
  BY <1>2 DEF Pending, Partial, DataPc
<1>4. AtRisk' = {} /\ (job'.pc # "zerolast" => Unzeroed' = {})
  BY <1>2 DEF AtRisk, Unzeroed
<1>5. HeldHeads' = {c \in Cluster : c = job.entry.first \/ (job'.pc \in FreshPc /\ c = job'.new)}
  BY <1>2, <1>3 DEF HeldHeads
<1>6. job'.pc \in PcOf(job'.op)
  BY <1>1 DEF PcOf
<1>7. OpOK'
  BY <1>1, <1>2 DEF OpOK
<1>8. ScanOK' /\ OldOK' /\ FreeOK' /\ WriteOK'
  BY <1>2, <1>3 DEF ScanOK, OldOK, FreeOK, WriteOK
<1> QED BY <1>2, <1>4, <1>5, <1>6, <1>7, <1>8 DEF JobOK

LEMMA SeekGood ==
    ASSUME Good, FaultsTyped, faults' = faults, SeekRoom, cwd_cluster' = cwd_cluster
    PROVE  Good'
<1>1. job.pc = "seek" /\ fat' = fat /\ disk' = disk /\ job.pc \in CreatePc /\ job.pc \notin FreshPc
  BY DEF SeekRoom, NoWrite, CreatePc, FreshPc
<1>2. /\ job \in Jobs /\ job.dir \in Heads(disk) /\ EntryOK(fat, disk, job.entry) /\ AtRisk = {} /\ Unzeroed = {}
      /\ HeldHeads = {c \in Cluster : c = job.entry.first}
      /\ FatOK(fat) /\ DirsOK(fat, disk, {}) /\ cwd_cluster' \in Heads(disk)
  BY <1>1, CreateFacts
<1>3. /\ job.cl \in Reach(fat, job.dir) \cup {EOC} /\ job.put = Entries(job.entry)
      /\ \/ job.prev = 0 /\ job.cl = job.dir
         \/ job.prev \in Reach(fat, job.dir) /\ fat[job.prev] = job.cl /\ NoEnd(disk[job.prev])
      /\ job.steps + Cardinality(Reach(fat, job.cl)) <= NCLUSTERS
  BY <1>1, CreateFacts DEF CreateOK
<1>4. job.cl \in Cluster => job.cl \in Reach(fat, job.dir) /\ job.cl \in DirClusters(fat, disk) /\ SlotsOK(fat, disk, job.cl)
  <2>1. job.cl \in Cluster => job.cl \in Reach(fat, job.dir)
    BY <1>3, Numbers
  <2>2. job.cl \in Cluster => job.cl \in DirClusters(fat, disk)
    BY <1>2, <2>1, HeadFacts
  <2> QED BY <1>2, <2>1, <2>2 DEF DirsOK
<1>5. ASSUME job' \in Jobs, job'.pc \in CreatePc \ (FreshPc \cup {"zerolast"}),
             job'.op = job.op, job'.dir = job.dir, job'.entry = job.entry, CreateOK'
      PROVE  Good'
  <2>1. /\ JobOK' /\ AtRisk' = {} /\ Unzeroed' = {}
        /\ HeldHeads' = {c \in Cluster : c = job.entry.first}
    BY <1>1, <1>2, <1>5, CreateJob
  <2> QED BY <1>1, <1>2, <2>1, Quiet
<1>6. ASSUME job.cl \in Cluster, NEW i \in 1 .. SLOTS, FirstRoom(job.cl, i),
             job' = [job EXCEPT !.idx = i, !.pc = "put"]
      PROVE  Good'
  <2>1. /\ job'.op = job.op /\ job'.pc = "put" /\ job'.dir = job.dir /\ job'.entry = job.entry
        /\ job'.cl = job.cl /\ job'.idx = i /\ job'.put = job.put
    BY <1>2, <1>6 DEF Jobs
  <2>2. job' \in Jobs
    <3>1. i \in Nat
      BY Numbers
    <3> QED BY ONLY <1>2, <1>6, <3>1, PcFacts DEF Jobs
  <2>3. disk[job.cl][i].k = "end" /\ \A h \in 1 .. SLOTS : disk[job.cl][h].k = "end" => i <= h
    BY <1>6 DEF FirstRoom, Room
  <2>4. fat[job.cl] = EOC /\ \A h \in i .. SLOTS : disk[job.cl][h].k = "end"
    BY <1>4, <1>6, <2>3 DEF SlotsOK
  <2>5. \A h \in 1 .. SLOTS : (h >= i <=> h \in i .. SLOTS) /\ (h >= i <=> i <= h)
    BY Numbers
  <2>6. \A h \in 1 .. SLOTS : disk[job.cl][h].k = "end" <=> h >= i
    BY <2>3, <2>4, <2>5
  <2>7. CreateOK'
    BY <1>1, <1>3, <1>4, <1>6, <2>1, <2>4, <2>6 DEF CreateOK, LastOf
  <2>8. job'.pc \in CreatePc \ (FreshPc \cup {"zerolast"})
    BY <2>1 DEF CreatePc, FreshPc
  <2> QED BY <1>5, <2>1, <2>2, <2>7, <2>8
<1>7. ASSUME job.cl \in Cluster, Room(job.cl) = {}, job' = Onward PROVE Good'
  <2> DEFINE n == fat[job.cl]
             s == job.steps + 1
  <2>1. n \in Cluster \cup {EOC} /\ n \in Reach(fat, job.dir) \cup {EOC} /\ n \in Nat
    <3>1. n \in Cluster \cup {EOC}
      BY <1>2, <1>4, <1>7, HeadFacts
    <3>2. n \in Cluster => n \in Reach(fat, job.dir)
      BY <1>4, <1>7, ReachFacts DEF Closed
    <3> QED BY <3>1, <3>2, Numbers
  <2>2. s \in Nat /\ job.cl \in Nat
    BY <1>2 DEF Jobs
  <2>3. job' = [job EXCEPT !.prev = job.cl, !.cl = n, !.steps = s]
    BY <1>7 DEF Onward, NextCluster
  <2>4. s + Cardinality(Reach(fat, n)) <= NCLUSTERS
    <3>1. Reach(fat, n) = Reach(fat, job.cl) \ {job.cl} /\ job.cl \in Reach(fat, job.cl)
      BY <1>2, <1>7, ReachTail, ReachFacts
    <3>2. IsFiniteSet(Reach(fat, job.cl)) /\ Cardinality(Reach(fat, job.cl)) \in Nat
      BY ReachFinite
    <3>3. Cardinality(Reach(fat, n)) = Cardinality(Reach(fat, job.cl)) - 1
      BY <3>1, <3>2, FS_RemoveElement
    <3>4. job.steps \in Nat
      BY <1>2 DEF Jobs
    <3> QED BY <1>3, <3>2, <3>3, <3>4, Numbers
  <2> HIDE DEF n, s
  <2>5. /\ job'.op = job.op /\ job'.pc = "seek" /\ job'.dir = job.dir /\ job'.entry = job.entry
        /\ job'.cl = n /\ job'.prev = job.cl /\ job'.steps = s /\ job'.put = job.put
    BY <1>1, <1>2, <2>3 DEF Jobs
  <2>6. job' \in Jobs
    BY ONLY <1>2, <2>1, <2>2, <2>3 DEF Jobs
  <2>7. NoEnd(disk[job.cl])
    BY <1>7 DEF NoEnd, Room
  <2>8. CreateOK'
    BY <1>1, <1>3, <1>4, <1>7, <2>1, <2>4, <2>5, <2>7 DEF CreateOK, n
  <2>9. job'.pc \in CreatePc \ (FreshPc \cup {"zerolast"})
    BY <2>5 DEF CreatePc, FreshPc
  <2> QED BY <1>5, <2>5, <2>6, <2>8, <2>9
<1>8. ASSUME job.cl \notin Cluster \/ TooLong, Go("grow") PROVE Good'
  <2>1. job.cl \notin Cluster
    <3> SUFFICES ASSUME job.cl \in Cluster PROVE FALSE
      OBVIOUS
    <3>1. job.steps >= NCLUSTERS /\ job.steps \in Nat
      BY <1>2, <1>8 DEF TooLong, max_chain_length, Jobs
    <3>2. Cardinality(Reach(fat, job.cl)) \in Nat /\ Cardinality(Reach(fat, job.cl)) >= 1
      BY ReachFinite
    <3> QED BY <1>3, <3>1, <3>2, Numbers
  <2>2. job.prev \in Reach(fat, job.dir) /\ fat[job.prev] = EOC /\ NoEnd(disk[job.prev])
    <3>1. job.cl = EOC
      BY <1>3, <2>1, ReachFacts
    <3>2. job.dir \in Cluster
      BY <1>2, HeadFacts
    <3> QED BY <1>3, <3>1, <3>2, Numbers
  <2>3. job' = [job EXCEPT !.pc = "grow"]
    BY <1>8 DEF Go
  <2>4. /\ job'.op = job.op /\ job'.pc = "grow" /\ job'.dir = job.dir /\ job'.entry = job.entry
        /\ job'.prev = job.prev /\ job'.put = job.put
    BY <1>2, <2>3 DEF Jobs
  <2>5. job' \in Jobs
    BY ONLY <1>2, <2>3, PcFacts DEF Jobs
  <2>6. CreateOK'
    BY <1>1, <1>3, <2>2, <2>4 DEF CreateOK, LastOf
  <2>7. job'.pc \in CreatePc \ (FreshPc \cup {"zerolast"})
    BY <2>4 DEF CreatePc, FreshPc
  <2> QED BY <1>5, <2>4, <2>5, <2>6, <2>7
<1> QED BY <1>6, <1>7, <1>8, NoFault DEF SeekRoom

LEMMA GrowGood ==
    ASSUME Good, FaultsTyped, faults' = faults, Grow \/ Extend, cwd_cluster' = cwd_cluster
    PROVE  Good'
<1> DEFINE pc == IF job.pc = "grow" THEN "zero" ELSE "hookfirst"
<1>1. job.pc \in {"grow", "extend"} /\ Alloc(pc) /\ (job.pc = "grow" <=> pc = "zero") /\ pc \in {"zero", "hookfirst"}
  BY DEF Grow, Extend
<1> HIDE DEF pc
<1>2. job.pc \in CreatePc /\ job.pc \notin FreshPc /\ job.pc \notin {"free", "mark", "zerolast"}
  BY <1>1 DEF CreatePc, FreshPc
<1>3. /\ job \in Jobs /\ job.dir \in Heads(disk) /\ EntryOK(fat, disk, job.entry) /\ AtRisk = {} /\ Unzeroed = {}
      /\ HeldHeads = {c \in Cluster : c = job.entry.first} /\ CreateOK /\ Safe = Places(fat, disk)
      /\ FatOK(fat) /\ DirsOK(fat, disk, {}) /\ cwd_cluster' \in Heads(disk)
  BY <1>2, CreateFacts
<1>4. CASE job' = NoJob /\ fat' = fat /\ disk' = disk
  BY <1>2, <1>3, <1>4, DoneGood
<1>5. ASSUME NEW c \in Cluster, Allocated(c, 0), WriteFat(c, EOC, TRUE),
             job' = [job EXCEPT !.new = c, !.pc = pc]
      PROVE  Good'
  <2>1. /\ disk' = disk /\ FatOK(fat') /\ fat'[c] = EOC /\ \A x \in Cluster \ {c} : fat'[x] = fat[x]
        /\ fat[c] = FREE /\ Blank(disk[c]) /\ c # root_cluster
        /\ \A h : IsHead(fat, h) => h # c /\ SameChain(fat, disk, fat', disk', h)
        /\ Heads(disk') = Heads(disk) /\ Places(fat', disk') = Places(fat, disk)
        /\ \A d \in Heads(disk) : Reach(fat', d) = Reach(fat, d)
        /\ DirsOK(fat', disk', {}) /\ EntriesOK(fat', disk', Safe, HeldHeads \cup {c})
    BY <1>3, <1>5, AllocFacts
  <2>2. /\ job'.op = job.op /\ job'.pc = pc /\ job'.dir = job.dir /\ job'.prev = job.prev
        /\ job'.cl = job.cl /\ job'.entry = job.entry /\ job'.new = c /\ job'.put = job.put
    BY <1>3, <1>5 DEF Jobs
  <2>3. job' \in Jobs
    <3>1. pc \in Pcs /\ c \in Nat
      BY <1>1, PcFacts, Numbers
    <3> QED BY ONLY <1>3, <1>5, <3>1 DEF Jobs
  <2> DEFINE e == job.entry
  <2>4. /\ e.first = 0 \/ IsHead(fat, e.first)
        /\ EntryOK(fat, disk, e)
    <3>1. EntryOK(fat, disk, e)
      BY <1>3
    <3> HIDE DEF e
    <3> QED BY <1>3, <3>1, EntryHead
  <2>5. EntryOK(fat', disk', e)
    <3>1. e.k = "file" /\ e.first # 0 => SameChain(fat, disk, fat', disk', e.first)
      BY <2>1, <2>4
    <3> HIDE DEF e
    <3> QED BY <2>1, <2>4, <3>1, EntryApart
  <2>6. Fresh(job.new)'
    <3>1. c # e.first
      BY <2>1, <2>4, Numbers
    <3> QED BY <2>1, <2>2, <3>1 DEF Fresh
  <2>7. ASSUME NEW x, LastOf(x) PROVE LastOf(x)' /\ x # c
    <3>1. x \in Reach(fat, job.dir) /\ fat[x] = EOC /\ x \in Cluster /\ x # c
      BY <2>1, <2>7, ReachFacts, Numbers DEF LastOf
    <3> QED BY <1>3, <2>1, <2>2, <3>1 DEF LastOf
  <2>8. CreateOK'
    <3>1. CASE pc = "zero"
      <4>1. LastOf(job.prev) /\ NoEnd(disk[job.prev]) /\ (job.put = Entries(e) \/ job.put = <<e>>)
        BY <1>1, <1>2, <1>3, <3>1 DEF CreateOK
      <4>2. LastOf(job.prev)'
        BY <2>2, <2>7, <4>1 DEF LastOf
      <4> QED BY <2>1, <2>2, <3>1, <4>1, <4>2 DEF CreateOK
    <3>2. CASE pc = "hookfirst"
      <4>1. LastOf(job.cl) /\ NoEnd(disk[job.cl]) /\ job.put = <<e>>
        BY <1>1, <1>2, <1>3, <3>2 DEF CreateOK
      <4>2. LastOf(job.cl)'
        BY <2>2, <2>7, <4>1 DEF LastOf
      <4> QED BY <2>1, <2>2, <3>2, <4>1, <4>2 DEF CreateOK
    <3> QED BY <1>1, <3>1, <3>2
  <2>9. job'.pc \in CreatePc /\ job'.pc \in FreshPc /\ job'.pc # "zerolast"
    BY <1>1, <2>2 DEF CreatePc, FreshPc
  <2>10. /\ JobOK' /\ AtRisk' = {} /\ Unzeroed' = {}
         /\ HeldHeads' = {x \in Cluster : x = job.entry.first \/ x = c}
    <3>1. job.dir \in Heads(disk')
      BY <1>3, <2>1
    <3> QED BY <1>2, <2>2, <2>3, <2>5, <2>6, <2>8, <2>9, <3>1, CreateJob
  <2>11. HeldHeads' = HeldHeads \cup {c} /\ Safe' = Safe
    BY <1>3, <2>1, <2>10 DEF Safe
  <2> QED BY <1>3, <2>1, <2>10, <2>11 DEF Good
<1> QED BY <1>1, <1>4, <1>5, AllocCases

LEMMA ZeroClusterGood ==
    ASSUME Good, FaultsTyped, faults' = faults, ZeroCluster, cwd_cluster' = cwd_cluster
    PROVE  Good'
<1> DEFINE b == job.new
<1>1. job.pc = "zero" /\ job' = [job EXCEPT !.pc = "hook"] /\ \E ok \in BOOLEAN : WriteCluster(b, Zeroed, ok)
  BY DEF ZeroCluster, Go
<1>2. job.pc \in CreatePc /\ job.pc \in FreshPc /\ job.pc # "zerolast"
  BY <1>1 DEF CreatePc, FreshPc
<1>3. /\ job \in Jobs /\ job.dir \in Heads(disk) /\ EntryOK(fat, disk, job.entry) /\ AtRisk = {} /\ Unzeroed = {}
      /\ HeldHeads = {c \in Cluster : c = job.entry.first \/ c = b} /\ CreateOK /\ Safe = Places(fat, disk)
      /\ FatOK(fat) /\ DirsOK(fat, disk, {}) /\ cwd_cluster' \in Heads(disk) /\ EntriesOK(fat, disk, Safe, HeldHeads)
  BY <1>2, CreateFacts
<1>4. /\ b \in Cluster /\ fat[b] = EOC /\ Blank(disk[b]) /\ b # root_cluster /\ b # job.entry.first
  BY <1>2, CreateFacts DEF Fresh
<1>5. /\ job'.op = job.op /\ job'.pc = "hook" /\ job'.dir = job.dir /\ job'.prev = job.prev
      /\ job'.entry = job.entry /\ job'.new = b /\ job'.put = job.put /\ job' \in Jobs
  <2>1. job' \in Jobs
    BY ONLY <1>1, <1>3, PcFacts DEF Jobs
  <2> QED BY <1>1, <1>3, <2>1 DEF Jobs
<1> HIDE DEF b
<1>6. fat' = fat /\ Writes(disk, disk', b, Zeroed)
  <2>1. DOMAIN disk = Cluster
    BY <1>3 DEF DirsOK
  <2> QED BY <1>1, <1>4, <2>1, ClusterWritten
<1>7. disk'[b] = Zeroed /\ (\A x \in Cluster \ {b} : disk'[x] = disk[x]) /\ DOMAIN disk' = Cluster
  BY <1>6 DEF Writes
<1> DEFINE Y == {c \in Cluster : c = job.entry.first \/ c = b}
           X == {b}
<1>8. b \notin Heads(disk) /\ IsHead(fat, b)
  <2>1. b \in HeldHeads
    BY <1>3, <1>4
  <2> QED BY <1>3, <1>4, <2>1, BlankNoHead DEF EntriesOK
<1>9. \A c \in Y : IsHead(fat, c) /\ \A p \in Safe : First(disk, p) # c
  BY <1>3 DEF EntriesOK
<1>10. EntriesOK(fat, disk, Safe, X) /\ X \cap Heads(disk) = {}
  BY <1>3, <1>4, <1>8, <1>9 DEF EntriesOK
<1>11. ASSUME NEW c, IsHead(fat, c), c \notin X PROVE SameChain(fat, disk, fat', disk', c)
  <2>1. b \notin Reach(fat, c)
    BY <1>8, <1>11, HeadApart
  <2>2. \A x \in Reach(fat, c) : disk'[x] = disk[x]
    BY <1>7, <2>1, ReachFacts
  <2> QED BY <1>6, <1>11, <2>2 DEF SameChain
<1>12. /\ \A c \in Cluster : disk'[c] = disk[c] \/ (Blank(disk'[c]) /\ c # root_cluster)
       /\ \A c \in Cluster : fat'[c] = FREE => Blank(disk'[c])
  BY <1>3, <1>4, <1>6, <1>7 DEF Blank, DirsOK
<1>13. \A c \in Y : IsHead(fat', c) /\ \A p \in Safe : First(disk, p) # c
  BY <1>6, <1>9
<1>14. Safe \subseteq Places(fat, disk)
  BY <1>3
<1> HIDE DEF X, Y
<1>15. KeepsRest(fat, disk, fat', disk', Safe, X, Y)
  BY ONLY <1>3, <1>7, <1>10, <1>11, <1>12, <1>13, <1>14 DEF KeepsRest
<1>16. /\ Heads(disk') = Heads(disk) /\ Places(fat', disk') = Places(fat, disk)
       /\ \A x \in DirClusters(fat, disk) : fat'[x] = fat[x] /\ disk'[x] = disk[x]
       /\ DirsOK(fat', disk', {}) /\ EntriesOK(fat', disk', Safe, Y)
  BY ONLY <1>15, Beside
<1> DEFINE e == job.entry
<1>17. EntryOK(fat', disk', e)
  <2>1. EntryOK(fat, disk, e) /\ e.first # b
    BY <1>3, <1>4
  <2> HIDE DEF e
  <2>2. e.first = 0 \/ IsHead(fat, e.first)
    BY <1>3, <2>1, EntryHead
  <2>3. e.k = "file" /\ e.first # 0 => SameChain(fat, disk, fat', disk', e.first)
    BY <1>11, <2>1, <2>2 DEF X
  <2> QED BY <1>16, <2>1, <2>3, EntryApart
<1>18. CreateOK'
  <2>1. LastOf(job.prev) /\ NoEnd(disk[job.prev]) /\ (job.put = Entries(e) \/ job.put = <<e>>)
    BY <1>1, <1>2, <1>3 DEF CreateOK
  <2>2. job.prev \in DirClusters(fat, disk)
    BY <1>3, <2>1, HeadFacts DEF LastOf
  <2>3. disk'[job.prev] = disk[job.prev]
    BY <1>16, <2>2
  <2>4. LastOf(job.prev)'
    BY <1>5, <1>6, <2>1 DEF LastOf
  <2> QED BY <1>5, <1>7, <2>1, <2>3, <2>4 DEF CreateOK
<1>19. Fresh(job.new)'
  BY <1>4, <1>5, <1>6, <1>7 DEF Fresh, Blank
<1>20. job'.pc \in CreatePc /\ job'.pc \in FreshPc /\ job'.pc # "zerolast"
  BY <1>5 DEF CreatePc, FreshPc
<1>21. /\ JobOK' /\ AtRisk' = {} /\ Unzeroed' = {} /\ HeldHeads' = Y
  <2>1. job.dir \in Heads(disk')
    BY <1>3, <1>16
  <2>2. /\ JobOK' /\ AtRisk' = {} /\ Unzeroed' = {}
        /\ HeldHeads' = {c \in Cluster : c = job.entry.first \/ c = b}
    BY <1>2, <1>5, <1>17, <1>18, <1>19, <1>20, <2>1, CreateJob
  <2> QED BY <2>2 DEF Y
<1>22. Safe' = Safe
  BY <1>3, <1>16, <1>21 DEF Safe
<1> QED BY <1>3, <1>6, <1>16, <1>21, <1>22 DEF Good

\* What it takes to link the new cluster behind the last one, a.
LEMMA HookFacts ==
    ASSUME Good, FaultsTyped, faults' = faults, job.pc \in {"hook", "hookfirst"}, NEW a, LastOf(a), NoEnd(disk[a]),
           NEW U, U \subseteq {job.new}, job.new \in U \/ disk[job.new] = Zeroed,
           NEW ok \in BOOLEAN, WriteFat(a, job.new, ok)
    PROVE  /\ disk' = disk /\ FatOK(fat') /\ fat'[job.new] = EOC /\ job.new \in Cluster
           /\ DirsOK(fat', disk', U) /\ Places(fat', disk') = Places(fat, disk)
           /\ job.new \in Reach(fat', job.dir) /\ EntryOK(fat', disk', job.entry)
           /\ EntriesOK(fat', disk', Safe, {c \in Cluster : c = job.entry.first})
<1> DEFINE b == job.new
<1>1. job.pc \in CreatePc /\ job.pc \in FreshPc /\ job.pc # "zerolast"
  BY DEF CreatePc, FreshPc
<1>2. /\ job.dir \in Heads(disk) /\ EntryOK(fat, disk, job.entry) /\ Unzeroed = {}
      /\ HeldHeads = {c \in Cluster : c = job.entry.first \/ c = b} /\ Safe = Places(fat, disk)
      /\ FatOK(fat) /\ DirsOK(fat, disk, {}) /\ EntriesOK(fat, disk, Safe, HeldHeads)
  BY <1>1, CreateFacts
<1>3. b \in Cluster /\ fat[b] = EOC /\ Blank(disk[b]) /\ b # root_cluster /\ b # job.entry.first
  BY <1>1, CreateFacts DEF Fresh
<1>4. WriteFat(a, b, ok) /\ U \subseteq {b} /\ (b \in U \/ disk[b] = Zeroed)
  OBVIOUS
<1> HIDE DEF b
<1>5. a \in Reach(fat, job.dir) /\ a \in DirClusters(fat, disk) /\ fat[a] = EOC /\ a \in Cluster
  <2>1. a \in Reach(fat, job.dir) /\ fat[a] = EOC
    BY DEF LastOf
  <2>2. a \in DirClusters(fat, disk)
    BY <1>2, <2>1, HeadFacts
  <2> QED BY <1>2, <2>1, <2>2, HeadFacts
<1>6. IsHead(fat, b) /\ \A p \in Safe : First(disk, p) # b
  <2>1. b \in HeldHeads
    BY <1>2, <1>3
  <2> QED BY <1>2, <2>1 DEF EntriesOK
<1>7. disk' = disk /\ Sets(fat, fat', a, b)
  BY <1>2, <1>3, <1>4, <1>5, FatWritten
<1>8. /\ FatOK(fat') /\ fat'[b] = EOC
      /\ Places(fat', disk) = Places(fat, disk)
      /\ DirsOK(fat', disk, U)
      /\ \A c : a \in Reach(fat, c) => Reach(fat', c) = Reach(fat, c) \cup {b}
      /\ \A e : EntryOK(fat, disk, e) /\ e.first # b => EntryOK(fat', disk, e)
      /\ \A c : IsHead(fat, c) /\ c # b => IsHead(fat', c)
  BY ONLY <1>2, <1>3, <1>4, <1>5, <1>6, <1>7, NoEnd(disk[a]), Hook
<1> DEFINE Y == {c \in Cluster : c = job.entry.first}
<1>9. EntriesOK(fat', disk, Safe, Y)
  <2>1. \A p \in Safe : EntryOK(fat', disk, disk[p[1]][p[2]])
    BY <1>2, <1>6, <1>8 DEF EntriesOK, First
  <2>2. \A c \in Y : IsHead(fat', c) /\ \A p \in Safe : First(disk, p) # c
    BY <1>2, <1>3, <1>8 DEF EntriesOK
  <2>3. \A p, q \in Safe : p # q /\ First(disk, p) # 0 => First(disk, p) # First(disk, q)
    BY <1>2 DEF EntriesOK
  <2> QED BY <2>1, <2>2, <2>3 DEF EntriesOK
<1>10. b \in Reach(fat', job.dir) /\ EntryOK(fat', disk, job.entry)
  BY <1>2, <1>3, <1>5, <1>8
<1> QED BY <1>3, <1>7, <1>8, <1>9, <1>10 DEF b

LEMMA ZeroedFacts == \A i \in 1 .. SLOTS : Zeroed[i] = EndSlot /\ Zeroed[i].k = "end" /\ ~Named(Zeroed[i]) /\ ~Dot(Zeroed[i])
<1>1. \A i \in 1 .. SLOTS : Zeroed[i] = EndSlot
  BY DEF Zeroed
<1>2. EndSlot.k = "end" /\ ~Named(EndSlot)
  BY SlotFacts
<1> QED BY <1>1, <1>2 DEF Dot

LEMMA HookClusterGood ==
    ASSUME Good, FaultsTyped, faults' = faults, HookCluster, cwd_cluster' = cwd_cluster
    PROVE  Good'
<1> DEFINE b == job.new
           a == job.prev
<1>1. job.pc = "hook" /\ job' = [job EXCEPT !.cl = b, !.idx = 1, !.pc = "put"]
  BY DEF HookCluster
<1>2. job.pc \in CreatePc /\ job.pc \in FreshPc
  BY <1>1 DEF CreatePc, FreshPc
<1>3. /\ job \in Jobs /\ job.dir \in Heads(disk) /\ AtRisk = {} /\ CreateOK /\ Safe = Places(fat, disk)
      /\ cwd_cluster' \in Heads(disk) /\ FatOK(fat) /\ DirsOK(fat, disk, {})
  BY <1>1, <1>2, CreateFacts
<1>4. LastOf(a) /\ NoEnd(disk[a]) /\ disk[b] = Zeroed /\ (job.put = Entries(job.entry) \/ job.put = <<job.entry>>)
  BY <1>1, <1>2, <1>3 DEF CreateOK
<1>5. a # 0
  BY <1>4, ReachFacts, Numbers DEF LastOf
<1>6. PICK ok \in BOOLEAN : WriteFat(a, b, ok)
  BY <1>5 DEF HookCluster
<1> DEFINE U == {}
<1>7. /\ disk' = disk /\ FatOK(fat') /\ fat'[b] = EOC /\ b \in Cluster
      /\ DirsOK(fat', disk', U) /\ Places(fat', disk') = Places(fat, disk)
      /\ b \in Reach(fat', job.dir) /\ EntryOK(fat', disk', job.entry)
      /\ EntriesOK(fat', disk', Safe, {c \in Cluster : c = job.entry.first})
  <2>1. U \subseteq {b}
    OBVIOUS
  <2> HIDE DEF U
  <2> QED BY <1>1, <1>4, <1>6, <2>1, HookFacts
<1>8. /\ job'.op = job.op /\ job'.pc = "put" /\ job'.dir = job.dir /\ job'.entry = job.entry
      /\ job'.cl = b /\ job'.idx = 1 /\ job'.put = job.put /\ job' \in Jobs
  <2>1. job' \in Jobs
    <3>1. b \in Nat /\ 1 \in Nat
      BY <1>7, Numbers
    <3> QED BY ONLY <1>1, <1>3, <3>1, PcFacts DEF Jobs
  <2> QED BY <1>1, <1>3, <2>1 DEF Jobs
<1> HIDE DEF a, b
<1>9. CreateOK'
  <2>1. \A h \in 1 .. SLOTS : disk'[b][h].k = "end" <=> h >= 1
    BY <1>4, <1>7, ZeroedFacts
  <2>2. LastOf(job.cl)'
    BY <1>7, <1>8 DEF LastOf
  <2> QED BY <1>4, <1>8, <2>1, <2>2, Numbers DEF CreateOK
<1>10. job'.pc \in CreatePc /\ job'.pc \notin FreshPc /\ job'.pc # "zerolast"
  BY <1>8 DEF CreatePc, FreshPc
<1>11. JobOK' /\ AtRisk' = {} /\ Unzeroed' = {} /\ HeldHeads' = {c \in Cluster : c = job.entry.first}
  <2>1. job.dir \in Heads(disk')
    BY <1>3, <1>7
  <2> QED BY <1>2, <1>7, <1>8, <1>9, <1>10, <2>1, CreateJob
<1>12. Safe' = Safe
  BY <1>3, <1>7, <1>11 DEF Safe
<1> QED BY <1>3, <1>7, <1>11, <1>12 DEF Good

LEMMA HookFirstGood ==
    ASSUME Good, FaultsTyped, faults' = faults, HookFirst, cwd_cluster' = cwd_cluster
    PROVE  Good'
<1> DEFINE b == job.new
           a == job.cl
<1>1. job.pc = "hookfirst" /\ job' = [job EXCEPT !.pc = "zerolast"] /\ \E ok \in BOOLEAN : WriteFat(a, b, ok)
  BY DEF HookFirst, Go
<1>2. job.pc \in CreatePc /\ job.pc \in FreshPc
  BY <1>1 DEF CreatePc, FreshPc
<1>3. /\ job \in Jobs /\ job.dir \in Heads(disk) /\ AtRisk = {} /\ CreateOK /\ Safe = Places(fat, disk)
      /\ cwd_cluster' \in Heads(disk) /\ FatOK(fat) /\ DirsOK(fat, disk, {})
  BY <1>1, <1>2, CreateFacts
<1>4. LastOf(a) /\ NoEnd(disk[a]) /\ job.put = <<job.entry>>
  BY <1>1, <1>2, <1>3 DEF CreateOK
<1>5. PICK ok \in BOOLEAN : WriteFat(a, b, ok)
  BY <1>1
<1> DEFINE U == {b}
<1>6. /\ disk' = disk /\ FatOK(fat') /\ fat'[b] = EOC /\ b \in Cluster
      /\ DirsOK(fat', disk', U) /\ Places(fat', disk') = Places(fat, disk)
      /\ b \in Reach(fat', job.dir) /\ EntryOK(fat', disk', job.entry)
      /\ EntriesOK(fat', disk', Safe, {c \in Cluster : c = job.entry.first})
  <2>1. U \subseteq {b} /\ b \in U
    OBVIOUS
  <2> HIDE DEF U
  <2> QED BY <1>1, <1>4, <1>5, <2>1, HookFacts
<1>7. /\ job'.op = job.op /\ job'.pc = "zerolast" /\ job'.dir = job.dir /\ job'.entry = job.entry
      /\ job'.new = b /\ job'.put = job.put /\ job' \in Jobs
  <2>1. job' \in Jobs
    BY ONLY <1>1, <1>3, PcFacts DEF Jobs
  <2> QED BY <1>1, <1>3, <2>1 DEF Jobs
<1> HIDE DEF a, b
<1>8. CreateOK'
  <2>1. LastOf(job.new)'
    BY <1>6, <1>7 DEF LastOf
  <2> QED BY <1>4, <1>7, <2>1 DEF CreateOK
<1>9. job'.pc \in CreatePc /\ job'.pc \notin FreshPc
  BY <1>7 DEF CreatePc, FreshPc
<1>10. JobOK' /\ AtRisk' = {} /\ HeldHeads' = {c \in Cluster : c = job.entry.first}
  <2>1. job.dir \in Heads(disk')
    BY <1>3, <1>6
  <2> QED BY <1>2, <1>6, <1>7, <1>8, <1>9, <2>1, CreateJob
<1>11. Unzeroed' = U
  BY <1>7 DEF Unzeroed
<1>12. Safe' = Safe
  BY <1>3, <1>6, <1>10 DEF Safe
<1> QED BY <1>3, <1>6, <1>10, <1>11, <1>12 DEF Good

LEMMA NextDirGood ==
    ASSUME Good, FaultsTyped, faults' = faults, NextDirCluster, cwd_cluster' = cwd_cluster
    PROVE  Good'
<1>1. job.pc = "next" /\ fat' = fat /\ disk' = disk
  BY DEF NextDirCluster, NoWrite
<1>2. job.pc \in CreatePc /\ job.pc \notin FreshPc /\ job.pc # "zerolast"
  BY <1>1 DEF CreatePc, FreshPc
<1>3. /\ job \in Jobs /\ job.dir \in Heads(disk) /\ EntryOK(fat, disk, job.entry) /\ AtRisk = {} /\ Unzeroed = {}
      /\ HeldHeads = {c \in Cluster : c = job.entry.first} /\ CreateOK
      /\ cwd_cluster' \in Heads(disk)
  BY <1>2, CreateFacts
<1>4. LastOf(job.cl) /\ NoEnd(disk[job.cl]) /\ job.put = <<job.entry>>
  BY <1>1, <1>2, <1>3 DEF CreateOK
<1>5. ~OnChain(NextCluster(job.cl))
  <2>1. NextCluster(job.cl) = EOC
    BY <1>4, ReachFacts DEF NextCluster, LastOf
  <2> QED BY <2>1, Numbers DEF OnChain
<1>6. job' = [job EXCEPT !.pc = "extend"]
  BY <1>5 DEF NextDirCluster, Go
<1>7. /\ job'.op = job.op /\ job'.pc = "extend" /\ job'.dir = job.dir /\ job'.entry = job.entry
      /\ job'.cl = job.cl /\ job'.put = job.put /\ job' \in Jobs
  <2>1. job' \in Jobs
    BY ONLY <1>3, <1>6, PcFacts DEF Jobs
  <2> QED BY <1>3, <1>6, <2>1 DEF Jobs
<1>8. CreateOK'
  <2>1. LastOf(job.cl)'
    BY <1>1, <1>4, <1>7 DEF LastOf
  <2> QED BY <1>1, <1>4, <1>7, <2>1 DEF CreateOK
<1>9. job'.pc \in CreatePc /\ job'.pc \notin FreshPc /\ job'.pc # "zerolast"
  BY <1>7 DEF CreatePc, FreshPc
<1>10. JobOK' /\ AtRisk' = {} /\ Unzeroed' = {} /\ HeldHeads' = {c \in Cluster : c = job.entry.first}
  BY <1>1, <1>2, <1>3, <1>7, <1>8, <1>9, CreateJob
<1> QED BY <1>1, <1>3, <1>10, Quiet

LEMMA ZeroLastGood ==
    ASSUME Good, FaultsTyped, faults' = faults, ZeroLast, cwd_cluster' = cwd_cluster
    PROVE  Good'
<1> DEFINE b == job.new
<1>1. /\ job.pc = "zerolast" /\ job' = [job EXCEPT !.cl = b, !.idx = 1, !.pc = "putnew"]
      /\ \E ok \in BOOLEAN : WriteCluster(b, Zeroed, ok)
  BY DEF ZeroLast
<1>2. job.pc \in CreatePc /\ job.pc \notin FreshPc
  BY <1>1 DEF CreatePc, FreshPc
<1> DEFINE U == {b}
           V == {}
<1>3. /\ job \in Jobs /\ job.dir \in Heads(disk) /\ EntryOK(fat, disk, job.entry) /\ AtRisk = {}
      /\ HeldHeads = {c \in Cluster : c = job.entry.first} /\ CreateOK /\ Safe = Places(fat, disk)
      /\ FatOK(fat) /\ DirsOK(fat, disk, U) /\ EntriesOK(fat, disk, Safe, HeldHeads)
      /\ cwd_cluster' \in Heads(disk)
  <2>1. Unzeroed = U
    BY <1>1 DEF Unzeroed
  <2> HIDE DEF U
  <2> QED BY <1>2, <2>1, CreateFacts
<1>4. b \in Reach(fat, job.dir) /\ fat[b] = EOC /\ job.put = <<job.entry>>
  BY <1>1, <1>2, <1>3 DEF CreateOK, LastOf
<1>5. b \in DirClusters(fat, disk) /\ b \in Cluster /\ Blank(disk[b])
  <2>1. b \in DirClusters(fat, disk) /\ b \in Cluster
    <3> HIDE DEF U, b
    <3> QED BY <1>3, <1>4, HeadFacts, ReachFacts
  <2> QED BY <1>3, <2>1 DEF DirsOK
<1>6. fat' = fat /\ Writes(disk, disk', b, Zeroed)
  <2>1. DOMAIN disk = Cluster
    BY <1>3 DEF DirsOK
  <2> HIDE DEF b
  <2> QED BY <1>1, <1>5, <2>1, ClusterWritten
<1>7. /\ job'.op = job.op /\ job'.pc = "putnew" /\ job'.dir = job.dir /\ job'.entry = job.entry
      /\ job'.cl = b /\ job'.idx = 1 /\ job'.put = job.put /\ job' \in Jobs
  <2>1. job' \in Jobs
    <3>1. b \in Nat /\ 1 \in Nat
      BY <1>5, Numbers
    <3> QED BY ONLY <1>1, <1>3, <3>1, PcFacts DEF Jobs
  <2> QED BY <1>1, <1>3, <2>1 DEF Jobs
<1> HIDE DEF b
<1>8. /\ \A i \in 1 .. SLOTS : Zeroed[i] = disk[b][i] \/ (~Dot(Zeroed[i]) /\ ~Dot(disk[b][i]))
      /\ \A i \in 1 .. SLOTS : Zeroed[i].k = "dir" => Zeroed[i].first \in Heads(disk)
  BY <1>5, BlankFacts, ZeroedFacts DEF Dot
<1>9. disk'[b] = Zeroed
  BY <1>6 DEF Writes
<1>10. SlotsOK(fat, disk', b)
  <2>1. \A i \in 1 .. SLOTS : \A h \in i .. SLOTS : h \in 1 .. SLOTS
    BY Numbers
  <2> QED BY <1>4, <1>9, <2>1, ZeroedFacts DEF SlotsOK
<1>11. b \notin V /\ \A y : y # b => (y \in V <=> y \in U)
  OBVIOUS
<1> HIDE DEF U, V
<1>12. /\ \A y \in Cluster \ {b} : disk'[y] = disk[y]
       /\ Heads(disk') = Heads(disk) /\ DirClusters(fat, disk') = DirClusters(fat, disk)
       /\ DirsOK(fat, disk', V)
       /\ \A e : EntryOK(fat, disk, e) => EntryOK(fat, disk', e)
  BY ONLY <1>3, <1>5, <1>6, <1>8, <1>10, <1>11, Rewrite
<1>13. Places(fat, disk') = Places(fat, disk) /\ \A p \in Places(fat, disk) : p[1] # b /\ disk'[p[1]] = disk[p[1]]
  <2>1. \A i \in 1 .. SLOTS : ~Named(disk[b][i]) /\ ~Named(disk'[b][i])
    BY <1>5, <1>9, BlankFacts, ZeroedFacts
  <2>2. \A x \in DirClusters(fat, disk) : x \in Cluster
    BY <1>3, HeadFacts
  <2> QED BY <1>12, <2>1, <2>2 DEF Places
<1>14. EntriesOK(fat, disk', Safe, HeldHeads)
  <2>1. \A p \in Safe : disk'[p[1]][p[2]] = disk[p[1]][p[2]] /\ First(disk', p) = First(disk, p)
    BY <1>3, <1>13 DEF First
  <2> QED BY <1>3, <1>12, <2>1 DEF EntriesOK
<1>15. CreateOK'
  <2>1. \A h \in 1 .. SLOTS : disk'[b][h].k = "end" <=> h >= 1
    BY <1>9, ZeroedFacts
  <2>2. LastOf(job.cl)'
    BY <1>4, <1>6, <1>7 DEF LastOf
  <2> QED BY <1>4, <1>7, <1>9, <2>1, <2>2, Numbers DEF CreateOK
<1>16. job'.pc \in CreatePc /\ job'.pc \notin FreshPc /\ job'.pc # "zerolast"
  BY <1>7 DEF CreatePc, FreshPc
<1>17. JobOK' /\ AtRisk' = {} /\ Unzeroed' = {} /\ HeldHeads' = {c \in Cluster : c = job.entry.first}
  <2>1. job.dir \in Heads(disk') /\ EntryOK(fat', disk', job.entry)
    BY <1>3, <1>6, <1>12
  <2> QED BY <1>2, <1>7, <1>15, <1>16, <2>1, CreateJob
<1>18. Safe' = Safe
  BY <1>3, <1>6, <1>13, <1>17 DEF Safe
<1> QED BY <1>3, <1>6, <1>12, <1>14, <1>17, <1>18 DEF Good, V

\* The entry goes to slot q, its long name before it, unless the cluster is
\* full by then: then the entry itself is left over.
FilledAt(old, q) ==
    /\ \A i \in 1 .. SLOTS : i < job.idx \/ i > q => Filled(old)[i] = old[i]
    /\ \A i \in 1 .. SLOTS : i >= job.idx /\ i < q => Filled(old)[i].k = "lfn"
    /\ IF q \in 1 .. SLOTS THEN Filled(old)[q] = job.entry /\ Rest = << >>
       ELSE q > SLOTS /\ Rest = <<job.entry>>

LEMMA FilledFacts ==
    ASSUME job.put = Entries(job.entry) \/ job.put = <<job.entry>>, job.idx \in 1 .. SLOTS, NEW old
    PROVE  \E q \in Nat : q >= job.idx /\ FilledAt(old, q)
<1> DEFINE e == job.entry
           x == job.idx
           l == LfnSlot(e.name)
           p == job.put
<1>1. SLOTS \in Nat /\ x \in Nat /\ x >= 1 /\ x <= SLOTS
  BY Numbers
<1>2. p = <<e>> \/ p = <<l, e>>
  BY DEF Entries
<1>3. l.k = "lfn"
  BY DEF LfnSlot
<1>4. CASE p = <<e>>
  <2>1. Len(p) = 1 /\ p[1] = e
    BY <1>4
  <2>2. Fits = 1
    BY <1>1, <2>1 DEF Fits
  <2>3. Rest = << >>
    <3>1. Rest = SubSeq(p, 2, 1)
      BY <2>1, <2>2 DEF Rest
    <3>2. SubSeq(p, 2, 1) = << >>
      BY <1>4
    <3> QED BY <3>1, <3>2
  <2>4. \A i \in 1 .. SLOTS : Filled(old)[i] = IF i = x THEN p[1] ELSE old[i]
    BY <1>1, <2>2 DEF Filled
  <2>5. \A i \in 1 .. SLOTS : i < x \/ i > x => Filled(old)[i] = old[i]
    BY <1>1, <2>4
  <2>6. \A i \in 1 .. SLOTS : ~(i >= x /\ i < x)
    BY <1>1
  <2>7. FilledAt(old, x)
    BY <2>1, <2>3, <2>4, <2>5, <2>6 DEF FilledAt
  <2> QED BY <1>1, <2>7
<1>5. CASE p = <<l, e>> /\ x < SLOTS
  <2>1. Len(p) = 2 /\ p[1] = l /\ p[2] = e
    BY <1>5
  <2>2. Fits = 2
    BY <1>1, <1>5, <2>1 DEF Fits
  <2>3. Rest = << >>
    <3>1. Rest = SubSeq(p, 3, 2)
      BY <2>1, <2>2 DEF Rest
    <3>2. SubSeq(p, 3, 2) = << >>
      BY <1>5
    <3> QED BY <3>1, <3>2
  <2>4. \A i \in 1 .. SLOTS : Filled(old)[i] = IF i = x THEN p[1] ELSE IF i = x + 1 THEN p[2] ELSE old[i]
    <3> TAKE i \in 1 .. SLOTS
    <3>1. i \in x .. x + 2 - 1 <=> i = x \/ i = x + 1
      BY <1>1
    <3>2. Filled(old)[i] = IF i \in x .. x + 2 - 1 THEN p[i - x + 1] ELSE old[i]
      BY <2>2 DEF Filled
    <3>3. CASE i = x
      <4>1. i - x + 1 = 1
        BY <1>1, <3>3
      <4> QED BY <3>1, <3>2, <3>3, <4>1
    <3>4. CASE i = x + 1
      <4>1. i - x + 1 = 2 /\ i # x
        BY <1>1, <3>4
      <4> QED BY <3>1, <3>2, <3>4, <4>1
    <3> QED BY <3>1, <3>2, <3>3, <3>4
  <2> DEFINE q == x + 1
  <2>5. q \in 1 .. SLOTS /\ q \in Nat /\ q >= x /\ q # x
    BY <1>1, <1>5
  <2>6. \A i \in 1 .. SLOTS : (i < x \/ i > q => i # x /\ i # q) /\ (i >= x /\ i < q => i = x)
    BY <1>1
  <2>9. \A i \in 1 .. SLOTS : Filled(old)[i] = IF i = x THEN p[1] ELSE IF i = q THEN p[2] ELSE old[i]
    BY <2>4
  <2> HIDE DEF q
  <2>7. FilledAt(old, q)
    <3>1. \A i \in 1 .. SLOTS : i < x \/ i > q => Filled(old)[i] = old[i]
      BY <2>6, <2>9
    <3>2. \A i \in 1 .. SLOTS : i >= x /\ i < q => Filled(old)[i].k = "lfn"
      BY <1>3, <2>1, <2>6, <2>9
    <3>3. Filled(old)[q] = e
      BY <2>1, <2>5, <2>9
    <3> QED BY <2>3, <2>5, <3>1, <3>2, <3>3 DEF FilledAt
  <2> QED BY <2>5, <2>7
<1>6. CASE p = <<l, e>> /\ x = SLOTS
  <2>1. Len(p) = 2 /\ p[1] = l /\ p[2] = e
    BY <1>6
  <2>2. Fits = 1
    BY <1>1, <1>6, <2>1 DEF Fits
  <2>3. Rest = <<e>>
    <3>1. Rest = SubSeq(p, 2, 2)
      BY <2>1, <2>2 DEF Rest
    <3> DEFINE t == SubSeq(p, 2, 2)
    <3>2. p \in Seq({l, e})
      BY <1>6
    <3>3. t \in Seq({l, e}) /\ Len(t) = 1 /\ t[1] = p[2]
      BY <2>1, <3>2
    <3> HIDE DEF t
    <3>4. t[1] = e
      BY <2>1, <3>3
    <3>5. t = <<e>>
      BY ONLY <3>3, <3>4
    <3> QED BY <3>1, <3>5 DEF t
  <2>4. \A i \in 1 .. SLOTS : Filled(old)[i] = IF i = x THEN p[1] ELSE old[i]
    BY <1>1, <2>2 DEF Filled
  <2> DEFINE q == SLOTS + 1
  <2>5. q \notin 1 .. SLOTS /\ q \in Nat /\ q >= x /\ q > SLOTS
    BY <1>1
  <2>6. \A i \in 1 .. SLOTS : (i < x \/ i > q => i # x) /\ (i >= x /\ i < q => i = x)
    BY <1>1, <1>6
  <2> HIDE DEF q
  <2>7. FilledAt(old, q)
    BY <1>3, <2>1, <2>3, <2>4, <2>5, <2>6 DEF FilledAt
  <2> QED BY <2>5, <2>7
<1> QED BY <1>1, <1>2, <1>4, <1>5, <1>6

\* The slots are written, the entry itself to slot q unless the cluster is full.
PutAt(q) ==
    /\ fat' = fat /\ Heads(disk') = Heads(disk) /\ DirClusters(fat, disk') = DirClusters(fat, disk)
    /\ DirsOK(fat, disk', {}) /\ \A n : EntryOK(fat, disk, n) => EntryOK(fat, disk', n)
    /\ \A p \in Places(fat, disk) :
          /\ p \in Places(fat, disk') /\ disk'[p[1]][p[2]] = disk[p[1]][p[2]]
          /\ First(disk', p) = First(disk, p) /\ p # <<job.cl, q>>
    /\ \A p \in Places(fat, disk') : p \in Places(fat, disk) \/ (p = <<job.cl, q>> /\ q \in 1 .. SLOTS)
    /\ IF q \in 1 .. SLOTS THEN job' = NoJob /\ disk'[job.cl][q] = job.entry
       ELSE job' = [job EXCEPT !.put = <<job.entry>>, !.pc = "next"] /\ NoEnd(disk'[job.cl])

LEMMA PutFacts ==
    ASSUME Good, FaultsTyped, faults' = faults, PutEntries
    PROVE  /\ job.pc \in {"put", "putnew"} /\ job.cl \in Reach(fat, job.dir) /\ fat[job.cl] = EOC
           /\ job.cl \in Cluster /\ Named(job.entry)
           /\ job.entry.k = "dir" => job.entry.first \in Heads(disk)
           /\ job.entry.first # 0 => job.entry.first \in HeldHeads
           /\ \E q \in Nat : PutAt(q)
<1> DEFINE x == job.cl
           e == job.entry
           s == Filled(disk[x])
           U == {}
<1>1. job.pc \in {"put", "putnew"}
  BY DEF PutEntries
<1>2. job.pc \in CreatePc /\ job.pc \notin FreshPc /\ job.pc # "zerolast"
  BY <1>1 DEF CreatePc, FreshPc
<1>3. /\ job \in Jobs /\ job.dir \in Heads(disk) /\ EntryOK(fat, disk, e) /\ AtRisk = {} /\ Unzeroed = U
      /\ HeldHeads = {c \in Cluster : c = e.first} /\ CreateOK /\ Safe = Places(fat, disk)
      /\ FatOK(fat) /\ DirsOK(fat, disk, U) /\ EntriesOK(fat, disk, Safe, HeldHeads)
      /\ e.name \in PlainNames /\ e \in Slots
  BY <1>2, CreateFacts
<1>4. /\ LastOf(x) /\ job.idx \in 1 .. SLOTS /\ (job.put = Entries(e) \/ job.put = <<e>>)
      /\ \A h \in 1 .. SLOTS : disk[x][h].k = "end" <=> h >= job.idx
      /\ job.pc = "putnew" => disk[x] = Zeroed
  BY <1>1, <1>2, <1>3 DEF CreateOK
<1>5. /\ WriteCluster(x, s, TRUE)
      /\ job' = IF Rest = << >> THEN NoJob ELSE [job EXCEPT !.put = Rest, !.pc = "next"]
  <2>1. (IF job.pc = "putnew" THEN Zeroed ELSE disk[x]) = disk[x]
    BY <1>4
  <2>2. ~WriteCluster(x, s, FALSE)
    BY NoFault DEF WriteCluster, Written
  <2> QED BY <2>1, <2>2, NoFault DEF PutEntries
<1>6. PICK q \in Nat : q >= job.idx /\ FilledAt(disk[x], q)
  BY <1>4, FilledFacts
<1>7. /\ \A i \in 1 .. SLOTS : i < job.idx \/ i > q => s[i] = disk[x][i]
      /\ \A i \in 1 .. SLOTS : i >= job.idx /\ i < q => s[i].k = "lfn"
      /\ q \in 1 .. SLOTS => s[q] = e /\ Rest = << >>
      /\ q \notin 1 .. SLOTS => q > SLOTS /\ Rest = <<e>>
  BY <1>6 DEF FilledAt
<1> HIDE DEF x, s, U
<1>8. x \in Reach(fat, job.dir) /\ fat[x] = EOC /\ x \in DirClusters(fat, disk) /\ x \in Cluster
  <2>1. x \in Reach(fat, job.dir) /\ fat[x] = EOC
    BY <1>4 DEF LastOf
  <2>2. x \in DirClusters(fat, disk)
    BY <1>3, <2>1, HeadFacts
  <2> QED BY <1>3, <2>1, <2>2, HeadFacts
<1>9. SlotsOK(fat, disk, x)
  BY <1>3, <1>8 DEF DirsOK, U
<1>10. fat' = fat /\ Writes(disk, disk', x, s)
  <2>1. DOMAIN disk = Cluster /\ TRUE \in BOOLEAN
    BY <1>3 DEF DirsOK
  <2> QED BY <1>5, <1>8, <2>1, ClusterWritten
<1>11. disk'[x] = s
  BY <1>10 DEF Writes
<1>12. /\ e.k \in {"file", "dir"} /\ e.name \notin {".", ".."}
       /\ e.k = "dir" => e.first \in Heads(disk)
       /\ e.first # 0 => e.first \in HeldHeads
  <2>1. e.k \in {"file", "dir"} /\ (e.k = "dir" => e.first \in Heads(disk))
    BY <1>3 DEF EntryOK
  <2>2. e.name \notin {".", ".."}
    BY <1>3, DiskAssumption DEF PlainNames
  <2>3. EntryOK(fat, disk, e) 
    BY <1>3
  <2>4. e.first # 0 => e.first \in Cluster
    <3> HIDE DEF e
    <3> QED BY <1>3, <2>3, EntryHead
  <2> QED BY <1>3, <2>1, <2>2, <2>4
<1> HIDE DEF e
<1>13. \A i \in 1 .. SLOTS : \/ i < job.idx /\ s[i] = disk[x][i] /\ disk[x][i].k # "end"
                             \/ i >= job.idx /\ i < q /\ s[i].k = "lfn" /\ disk[x][i].k = "end"
                             \/ i = q /\ s[i] = e /\ disk[x][i].k = "end"
                             \/ i > q /\ s[i] = disk[x][i] /\ disk[x][i].k = "end"
  <2> TAKE i \in 1 .. SLOTS
  <2>1. i \in Nat /\ job.idx \in Nat /\ q \in Nat
    BY <1>4, Numbers
  <2>2. CASE i < job.idx
    BY <1>4, <1>7, <2>1, <2>2
  <2>3. CASE i >= job.idx /\ i < q
    BY <1>4, <1>7, <2>3
  <2>4. CASE i = q
    BY <1>4, <1>6, <1>7, <2>4
  <2>5. CASE i > q
    <3>1. i >= job.idx
      BY <1>6, <2>1, <2>5
    <3> QED BY <1>4, <1>7, <2>5, <3>1
  <2> QED BY <2>1, <2>2, <2>3, <2>4, <2>5
<1>14. \A i \in 1 .. SLOTS : s[i] = disk[x][i] \/ (~Dot(s[i]) /\ ~Dot(disk[x][i]))
  BY <1>12, <1>13 DEF Dot
<1>15. \A i \in 1 .. SLOTS : s[i].k = "dir" => s[i].first \in Heads(disk)
  <2> SUFFICES ASSUME NEW i \in 1 .. SLOTS, s[i].k = "dir" PROVE s[i].first \in Heads(disk)
    OBVIOUS
  <2>1. disk[x][i].k = "dir" => disk[x][i].first \in Heads(disk)
    BY <1>3, <1>8 DEF DirsOK
  <2> QED BY <1>12, <1>13, <2>1
<1>16. SlotsOK(fat, disk', x)
  <2> SUFFICES ASSUME NEW i \in 1 .. SLOTS
               PROVE  s[i].k # "data" /\ (s[i].k = "end" => \A h \in i .. SLOTS : s[h].k = "end")
    BY <1>8, <1>11 DEF SlotsOK
  <2>1. s[i].k # "data"
    BY <1>9, <1>12, <1>13 DEF SlotsOK
  <2>2. ASSUME s[i].k = "end", NEW h \in i .. SLOTS PROVE s[h].k = "end"
    <3>1. i > q
      BY <1>12, <1>13, <2>2
    <3>2. h \in 1 .. SLOTS /\ h > q
      BY <3>1, Numbers
    <3>3. h >= job.idx /\ ~(h < job.idx) /\ ~(h < q) /\ h # q
      BY <1>4, <1>6, <3>2, Numbers
    <3> QED BY <1>13, <3>2, <3>3
  <2> QED BY <2>1, <2>2
<1>17. x \notin U /\ \A y : y # x => (y \in U <=> y \in U)
  BY DEF U
<1>18. /\ \A y \in Cluster \ {x} : disk'[y] = disk[y]
       /\ Heads(disk') = Heads(disk) /\ DirClusters(fat, disk') = DirClusters(fat, disk)
       /\ DirsOK(fat, disk', U)
       /\ \A n : EntryOK(fat, disk, n) => EntryOK(fat, disk', n)
  BY ONLY <1>3, <1>8, <1>10, <1>14, <1>15, <1>16, <1>17, Rewrite
<1>19. \A y \in DirClusters(fat, disk) : y \in Cluster
  BY <1>3, HeadFacts
<1>20. \A i \in 1 .. SLOTS : (Named(s[i]) <=> Named(disk[x][i]) \/ i = q) /\ (Named(disk[x][i]) => s[i] = disk[x][i] /\ i # q)
  <2> TAKE i \in 1 .. SLOTS
  <2>1. Named(e)
    BY <1>12 DEF Named
  <2>2. \A r : r.k \in {"end", "lfn"} => ~Named(r)
    BY DEF Named
  <2>3. CASE i = q
    <3>1. ~(i < job.idx) /\ ~(i < q) /\ ~(i > q)
      BY <1>4, <1>6, <2>3, Numbers
    <3>2. s[i] = e /\ disk[x][i].k = "end"
      BY <1>13, <2>3, <3>1
    <3> QED BY <2>1, <2>2, <2>3, <3>2
  <2>4. CASE i # q
    BY <1>13, <2>2, <2>4
  <2> QED BY <2>3, <2>4
<1>21. \A p \in Places(fat, disk) : /\ p \in Places(fat, disk') /\ disk'[p[1]][p[2]] = disk[p[1]][p[2]]
                                    /\ First(disk', p) = First(disk, p) /\ p # <<x, q>>
  <2> TAKE p \in Places(fat, disk)
  <2>1. p \in DirClusters(fat, disk) \X (1 .. SLOTS) /\ Named(disk[p[1]][p[2]]) /\ p[1] \in Cluster
    BY <1>19 DEF Places
  <2>2. disk'[p[1]][p[2]] = disk[p[1]][p[2]] /\ p # <<x, q>>
    BY <1>11, <1>18, <1>20, <2>1
  <2> QED BY <1>18, <2>1, <2>2 DEF Places, First
<1>22. ASSUME NEW p \in Places(fat, disk'), p \notin Places(fat, disk)
       PROVE  p = <<x, q>> /\ q \in 1 .. SLOTS
  <2>1. p \in DirClusters(fat, disk) \X (1 .. SLOTS) /\ Named(disk'[p[1]][p[2]]) /\ p[1] \in Cluster
    BY <1>18, <1>19 DEF Places
  <2>2. ~Named(disk[p[1]][p[2]])
    BY <1>22, <2>1 DEF Places
  <2>3. p[1] = x
    BY <1>18, <2>1, <2>2
  <2>4. p[2] = q
    BY <1>11, <1>20, <2>1, <2>2, <2>3
  <2> QED BY <2>1, <2>3, <2>4
<1>23. CASE q \in 1 .. SLOTS
  <2>1. job' = NoJob /\ disk'[x][q] = e
    BY <1>5, <1>7, <1>11, <1>23
  <2> QED BY <1>1, <1>8, <1>10, <1>12, <1>18, <1>21, <1>22, <1>23, <2>1 DEF PutAt, Named, U, x, e
<1>24. CASE q \notin 1 .. SLOTS
  <2>1. job' = [job EXCEPT !.put = <<e>>, !.pc = "next"] /\ q > SLOTS
    <3>1. Rest # << >> /\ Rest = <<e>>
      BY <1>7, <1>24
    <3> QED BY <1>5, <1>7, <1>24, <3>1
  <2>2. NoEnd(s)
    <3>1. \A i \in 1 .. SLOTS : ~(i > q)
      BY <2>1, Numbers
    <3> QED BY <1>12, <1>13, <3>1 DEF NoEnd
  <2> QED BY <1>1, <1>8, <1>10, <1>11, <1>12, <1>18, <1>21, <1>22, <1>24, <2>1, <2>2 DEF PutAt, Named, U, x, e
<1> QED BY <1>23, <1>24

LEMMA PutGood ==
    ASSUME Good, FaultsTyped, faults' = faults, PutEntries, cwd_cluster' = cwd_cluster
    PROVE  Good'
<1> DEFINE x == job.cl
           e == job.entry
<1>1. job.pc \in CreatePc /\ job.pc \notin FreshPc /\ job.pc # "zerolast"
  BY DEF PutEntries, CreatePc, FreshPc
<1>2. /\ job \in Jobs /\ job.dir \in Heads(disk) /\ EntryOK(fat, disk, e) /\ AtRisk = {} /\ Unzeroed = {}
      /\ HeldHeads = {c \in Cluster : c = e.first} /\ CreateOK /\ Safe = Places(fat, disk)
      /\ FatOK(fat) /\ EntriesOK(fat, disk, Safe, HeldHeads)
      /\ cwd_cluster' \in Heads(disk) /\ e \in Slots
  BY <1>1, CreateFacts
<1>3. x \in Reach(fat, job.dir) /\ fat[x] = EOC /\ (e.first # 0 => e.first \in HeldHeads)
  BY PutFacts
<1>4. PICK q \in Nat : PutAt(q)
  BY PutFacts
<1> HIDE DEF x, e
<1>5. /\ fat' = fat /\ Heads(disk') = Heads(disk) /\ DirsOK(fat, disk', {})
      /\ \A n : EntryOK(fat, disk, n) => EntryOK(fat, disk', n)
      /\ \A p \in Places(fat, disk) :
            /\ p \in Places(fat, disk') /\ disk'[p[1]][p[2]] = disk[p[1]][p[2]]
            /\ First(disk', p) = First(disk, p)
      /\ \A p \in Places(fat, disk') : p \in Places(fat, disk) \/ (p = <<x, q>> /\ q \in 1 .. SLOTS)
  BY <1>4 DEF PutAt, x
<1>6. /\ q \in 1 .. SLOTS => job' = NoJob /\ disk'[x][q] = e
      /\ q \notin 1 .. SLOTS => job' = [job EXCEPT !.put = <<e>>, !.pc = "next"] /\ NoEnd(disk'[x])
  BY <1>4 DEF PutAt, x, e
<1>7. CASE q \in 1 .. SLOTS
  <2>1. job' = NoJob /\ disk'[x][q] = e
    BY <1>6, <1>7
  <2>2. JobOK' /\ AtRisk' = {} /\ HeldHeads' = {} /\ Unzeroed' = {}
    BY <2>1, NoJobFacts
  <2>3. Safe' = Places(fat, disk')
    BY <1>5, <2>2 DEF Safe
  <2> DEFINE z == <<x, q>>
  <2>4. z[1] = x /\ z[2] = q /\ First(disk', z) = e.first
    BY <2>1 DEF First
  <2> HIDE DEF z
  <2>5. \A p \in Places(fat, disk') : p = z \/ p \in Safe
    BY <1>2, <1>5 DEF z
  <2>6. \A p \in Safe : /\ EntryOK(fat, disk', disk'[p[1]][p[2]])
                        /\ First(disk', p) = First(disk, p)
                        /\ e.first # 0 => First(disk, p) # e.first
    BY <1>2, <1>3, <1>5 DEF EntriesOK
  <2>7. EntryOK(fat, disk', disk'[z[1]][z[2]])
    BY <1>2, <1>5, <2>1, <2>4
  <2>8. ASSUME NEW p \in Places(fat, disk'), NEW r \in Places(fat, disk'), p # r, First(disk', p) # 0
        PROVE  First(disk', p) # First(disk', r)
    <3>1. CASE p = z
      BY <2>4, <2>5, <2>6, <2>8, <3>1
    <3>2. CASE r = z
      BY <2>4, <2>5, <2>6, <2>8, <3>2
    <3>3. CASE p # z /\ r # z
      BY <1>2, <2>5, <2>6, <2>8, <3>3 DEF EntriesOK
    <3> QED BY <3>1, <3>2, <3>3
  <2>9. EntriesOK(fat', disk', Safe', HeldHeads')
    BY <1>5, <2>2, <2>3, <2>5, <2>6, <2>7, <2>8 DEF EntriesOK
  <2> QED BY <1>2, <1>5, <2>2, <2>9 DEF Good
<1>8. CASE q \notin 1 .. SLOTS
  <2>1. job' = [job EXCEPT !.put = <<e>>, !.pc = "next"] /\ NoEnd(disk'[x])
    BY <1>6, <1>8
  <2>2. <<e>> \in PutSeqs
    <3>1. e \in Slots \cup {LfnSlot(n) : n \in PlainNames}
      BY <1>2
    <3> QED BY <3>1 DEF PutSeqs
  <2>3. /\ job'.op = job.op /\ job'.pc = "next" /\ job'.dir = job.dir /\ job'.entry = e
        /\ job'.cl = x /\ job'.put = <<e>> /\ job' \in Jobs
    <3>1. job' \in Jobs
      BY ONLY <1>2, <2>1, <2>2, PcFacts DEF Jobs
    <3> QED BY <1>2, <2>1, <3>1 DEF Jobs, e, x
  <2>4. CreateOK'
    <3>1. LastOf(job.cl)'
      BY <1>3, <1>5, <2>3 DEF LastOf
    <3> QED BY <2>1, <2>3, <3>1 DEF CreateOK
  <2>5. job'.pc \in CreatePc /\ job'.pc \notin FreshPc /\ job'.pc # "zerolast"
    BY <2>3 DEF CreatePc, FreshPc
  <2>6. JobOK' /\ AtRisk' = {} /\ Unzeroed' = {} /\ HeldHeads' = {c \in Cluster : c = e.first}
    <3>1. job.dir \in Heads(disk') /\ EntryOK(fat', disk', e)
      BY <1>2, <1>5
    <3> QED BY <1>1, <2>3, <2>4, <2>5, <3>1, CreateJob DEF e
  <2>7. Safe' = Safe
    BY <1>2, <1>5, <1>8, <2>6 DEF Safe
  <2>8. EntriesOK(fat, disk', Safe, HeldHeads)
    BY <1>2, <1>5 DEF EntriesOK
  <2> QED BY <1>2, <1>5, <2>6, <2>7, <2>8 DEF Good
<1> QED BY <1>7, <1>8
----------------------------------------------------------------------------
(* The invariant. *)

LEMMA GoodInit ==
    ASSUME Init
    PROVE  IInv
<1>1. /\ fat = [c \in Cluster |-> IF c = root_cluster THEN EOC ELSE FREE] /\ disk = [c \in Cluster |-> Zeroed]
      /\ cwd_cluster = root_cluster /\ job = NoJob
      /\ faults = [crash |-> 0, read |-> 0, write |-> 0, memory |-> 0]
  BY DEF Init
<1>2. FaultsTyped
  BY <1>1 DEF FaultsTyped
<1>3. fat \in [Cluster -> Cluster \cup {FREE, EOC}] /\ \A x \in Cluster : fat[x] = IF x = root_cluster THEN EOC ELSE FREE
  BY <1>1
<1>4. \A x \in Cluster : fat[x] \notin Cluster
  BY <1>3, Numbers
<1>5. FatOK(fat)
  BY <1>3, <1>4 DEF FatOK
<1>6. Heads(disk) = {root_cluster}
  <2>1. \A c \in Cluster : disk[c][1] # Entry("dir", ".", c, 0)
    <3> TAKE c \in Cluster
    <3>1. disk[c] = Zeroed
      BY <1>1
    <3>2. disk[c][1].k = "end"
      BY <3>1, ZeroedFacts, Numbers
    <3>3. Entry("dir", ".", c, 0).k = "dir"
      BY DotFacts
    <3> QED BY <3>2, <3>3
  <2> QED BY <2>1 DEF Heads
<1>7. IsHead(fat, root_cluster)
  BY <1>3, <1>4, Numbers DEF IsHead
<1>8. DirClusters(fat, disk) = {root_cluster}
  <2>1. Reach(fat, fat[root_cluster]) = Reach(fat, root_cluster) \ {root_cluster} /\ root_cluster \in Reach(fat, root_cluster)
    BY <1>5, Numbers, ReachTail, ReachFacts
  <2>2. Reach(fat, fat[root_cluster]) = {}
    BY <1>4, Numbers, ReachFacts
  <2> QED BY <1>6, <2>1, <2>2, Numbers DEF DirClusters
<1>9. \A i \in 1 .. SLOTS : disk[root_cluster][i].k = "end" /\ ~Named(disk[root_cluster][i])
  BY <1>1, ZeroedFacts, Numbers
<1>10. Places(fat, disk) = {}
  BY <1>8, <1>9 DEF Places
<1>11. DirsOK(fat, disk, {})
  <2>1. \A i \in 1 .. SLOTS : \A h \in i .. SLOTS : h \in 1 .. SLOTS
    BY Numbers
  <2>2. SlotsOK(fat, disk, root_cluster)
    BY <1>3, <1>9, <2>1, Numbers DEF SlotsOK
  <2>3. \A c \in Cluster : Blank(disk[c])
    BY <1>1 DEF Blank
  <2>4. DOMAIN disk = Cluster
    BY <1>1
  <2> QED BY <1>6, <1>7, <1>8, <1>9, <2>2, <2>3, <2>4 DEF DirsOK
<1>12. /\ job.op = "none" /\ job.pc = NoJob.pc /\ job \in Jobs
       /\ job.pc \notin {"scan", "read", "free", "mark", "marklfn", "dots", "alloc", "link", "data", "seek", "grow",
                         "zero", "hook", "put", "putnew", "next", "extend", "hookfirst", "zerolast", "undo"}
  BY <1>1, IdleFacts, NoJobType
<1>13. HeldHeads = {} /\ Unzeroed = {} /\ ~Pending
  BY <1>12 DEF HeldHeads, Unzeroed, Pending, Partial, CreatePc, FreshPc, DataPc
<1>14. JobOK
  <2>1. job.pc \in PcOf(job.op)
    BY <1>12 DEF PcOf
  <2>2. OpOK /\ ScanOK /\ OldOK /\ FreeOK /\ WriteOK /\ CreateOK
    BY <1>1, <1>12 DEF OpOK, ScanOK, OldOK, FreeOK, WriteOK, CreateOK, Partial, CreatePc, DataPc
  <2> QED BY <1>12, <1>13, <2>1, <2>2 DEF JobOK, FreshPc
<1>15. EntriesOK(fat, disk, Safe, HeldHeads)
  BY <1>10, <1>13 DEF Safe, EntriesOK
<1> QED BY <1>1, <1>2, <1>5, <1>6, <1>11, <1>13, <1>14, <1>15 DEF Good, IInv

\* A fault is counted: without one, the count stays.
FaultSome == Fault("crash") \/ Fault("read") \/ Fault("write") \/ Fault("memory")

LEMMA FaultKeeps ==
    ASSUME FaultsTyped, FaultSome
    PROVE  FaultsTyped' /\ ~NoFaults'
<1>1. /\ faults.crash \in Nat /\ faults.read \in Nat /\ faults.write \in Nat /\ faults.memory \in Nat
      /\ faults \in [crash : Nat, read : Nat, write : Nat, memory : Nat]
  BY DEF FaultsTyped
<1>2. CASE faults' = [faults EXCEPT !["crash"] = @ + 1]
  <2> DEFINE n == faults.crash + 1
  <2>1. n \in Nat /\ n > 0
    BY <1>1
  <2> HIDE DEF n
  <2>2. faults' = [faults EXCEPT !.crash = n]
    BY <1>2 DEF n
  <2>3. FaultsTyped' /\ faults'.crash = n /\ faults'.read \in Nat /\ faults'.write \in Nat /\ faults'.memory \in Nat
    BY ONLY <1>1, <2>1, <2>2 DEF FaultsTyped
  <2> QED BY <2>1, <2>3 DEF NoFaults, Faults
<1>3. CASE faults' = [faults EXCEPT !["read"] = @ + 1]
  <2> DEFINE n == faults.read + 1
  <2>1. n \in Nat /\ n > 0
    BY <1>1
  <2> HIDE DEF n
  <2>2. faults' = [faults EXCEPT !.read = n]
    BY <1>3 DEF n
  <2>3. FaultsTyped' /\ faults'.read = n /\ faults'.crash \in Nat /\ faults'.write \in Nat /\ faults'.memory \in Nat
    BY ONLY <1>1, <2>1, <2>2 DEF FaultsTyped
  <2> QED BY <2>1, <2>3 DEF NoFaults, Faults
<1>4. CASE faults' = [faults EXCEPT !["write"] = @ + 1]
  <2> DEFINE n == faults.write + 1
  <2>1. n \in Nat /\ n > 0
    BY <1>1
  <2> HIDE DEF n
  <2>2. faults' = [faults EXCEPT !.write = n]
    BY <1>4 DEF n
  <2>3. FaultsTyped' /\ faults'.write = n /\ faults'.read \in Nat /\ faults'.crash \in Nat /\ faults'.memory \in Nat
    BY ONLY <1>1, <2>1, <2>2 DEF FaultsTyped
  <2> QED BY <2>1, <2>3 DEF NoFaults, Faults
<1>5. CASE faults' = [faults EXCEPT !["memory"] = @ + 1]
  <2> DEFINE n == faults.memory + 1
  <2>1. n \in Nat /\ n > 0
    BY <1>1
  <2> HIDE DEF n
  <2>2. faults' = [faults EXCEPT !.memory = n]
    BY <1>5 DEF n
  <2>3. FaultsTyped' /\ faults'.memory = n /\ faults'.read \in Nat /\ faults'.write \in Nat /\ faults'.crash \in Nat
    BY ONLY <1>1, <2>1, <2>2 DEF FaultsTyped
  <2> QED BY <2>1, <2>3 DEF NoFaults, Faults
<1> QED BY <1>2, <1>3, <1>4, <1>5 DEF FaultSome, Fault

LEMMA FaultCases ==
    ASSUME Next
    PROVE  FaultSome \/ faults' = faults
<1> USE DEF FaultSome
<1>1. CASE Begin
  BY <1>1 DEF Begin, fat32_read_file, fat32_write_file, fat32_delete_file, fat32_rename_file, fat32_mkdir,
              fat32_cd, cd_root, cd_dotdot, Start
<1>2. CASE Scan
  BY <1>2 DEF Scan
<1>3. CASE AllocData \/ Grow \/ Extend
  BY <1>3 DEF AllocData, Grow, Extend, Alloc, WriteFat, Written
<1>4. CASE Read \/ FreeCluster
  BY <1>4 DEF Read, FreeCluster, WriteFat, Written
<1>5. CASE MarkDeleted \/ MarkLfnDeleted
  BY <1>5 DEF MarkDeleted, MarkLfnDeleted, WriteCluster, Written
<1>6. CASE LinkData \/ WriteData \/ WriteDots \/ UndoMkdir
  BY <1>6 DEF LinkData, WriteData, WriteDots, UndoMkdir, WriteFat, WriteCluster, Written
<1>7. CASE SeekRoom \/ ZeroCluster \/ HookCluster
  BY <1>7 DEF SeekRoom, ZeroCluster, HookCluster, WriteFat, WriteCluster, Written
<1>8. CASE PutEntries \/ NextDirCluster \/ HookFirst \/ ZeroLast
  BY <1>8 DEF PutEntries, NextDirCluster, HookFirst, ZeroLast, WriteFat, WriteCluster, Written
<1>9. CASE OutOfMemory \/ Crash
  BY <1>9 DEF OutOfMemory, Crash
<1> QED BY <1>1, <1>2, <1>3, <1>4, <1>5, <1>6, <1>7, <1>8, <1>9 DEF Next, Step

LEMMA StepGood ==
    ASSUME Good, FaultsTyped, faults' = faults, Step, ~astray'
    PROVE  Good'
<1>1. CASE Scan
  BY <1>1, ScanGood
<1>2. CASE (AllocData \/ Grow \/ Extend) /\ cwd_cluster' = cwd_cluster
  BY <1>2, AllocDataGood, GrowGood
<1>3. CASE UndoMkdir
  <2>1. job.pc = "undo" /\ job.pc \in Pcs
    BY <1>3 DEF UndoMkdir, Good, JobOK, Jobs
  <2> QED BY <2>1, IdleFacts DEF Pcs, CreatePc, DataPc
<1>4. CASE OutOfMemory
  BY <1>4, NoFault DEF OutOfMemory
<1>5. CASE /\ \/ Read \/ FreeCluster \/ MarkDeleted \/ MarkLfnDeleted
              \/ LinkData \/ WriteData \/ WriteDots
              \/ SeekRoom \/ ZeroCluster \/ HookCluster
              \/ PutEntries \/ NextDirCluster \/ HookFirst \/ ZeroLast
           /\ cwd_cluster' = cwd_cluster
  BY <1>5, ReadGood, FreeGood, MarkGood, MarkLfnGood, LinkDataGood, WriteDataGood, WriteDotsGood,
     SeekGood, ZeroClusterGood, HookClusterGood, PutGood, NextDirGood, HookFirstGood, ZeroLastGood
<1> QED BY <1>1, <1>2, <1>3, <1>4, <1>5 DEF Step

\* Once it has been led astray the file system stays so.
LEMMA AstrayStays ==
    ASSUME Next, astray
    PROVE  astray'
<1>1. CASE Begin
  BY <1>1 DEF Begin, fat32_read_file, fat32_write_file, fat32_delete_file, fat32_rename_file, fat32_mkdir,
              fat32_cd, cd_root, cd_dotdot, Start
<1>2. CASE Scan
  BY <1>2 DEF Scan, Found, NotFound
<1>3. CASE Step /\ ~Scan
  BY <1>3 DEF Step
<1>4. CASE Crash
  BY <1>4 DEF Crash
<1> QED BY <1>1, <1>2, <1>3, <1>4 DEF Next

LEMMA GoodStep ==
    ASSUME IInv, [Next]_vars
    PROVE  IInv'
<1>1. CASE UNCHANGED vars
  <2>1. /\ fat' = fat /\ disk' = disk /\ cwd_cluster' = cwd_cluster /\ job' = job /\ faults' = faults
        /\ astray' = astray
    BY <1>1 DEF vars
  <2>2. FaultsTyped' /\ (NoFaults' <=> NoFaults)
    BY <2>1 DEF IInv, FaultsTyped, NoFaults, Faults
  <2>3. Good => Good'
    <3> USE <2>1
    <3>1. /\ Unzeroed' = Unzeroed /\ AtRisk' = AtRisk /\ HeldHeads' = HeldHeads /\ Safe' = Safe
          /\ (Pending' <=> Pending) /\ (Partial' <=> Partial)
      BY DEF Unzeroed, AtRisk, HeldHeads, Safe, Pending, Partial
    <3>2. JobOK => JobOK'
      <4>1. (OpOK => OpOK') /\ (ScanOK => ScanOK') /\ (LfnOK => LfnOK') /\ (OldOK => OldOK')
        BY DEF OpOK, ScanOK, LfnOK, OldOK
      <4>2. (FreeOK => FreeOK') /\ (WriteOK => WriteOK')
        BY <3>1 DEF FreeOK, WriteOK, PartOK
      <4>3. (CreateOK => CreateOK') /\ (Fresh(job.new) => Fresh(job.new)')
        BY DEF CreateOK, LastOf, Fresh
      <4> QED BY <3>1, <4>1, <4>2, <4>3 DEF JobOK
    <3> QED BY <3>1, <3>2 DEF Good
  <2> QED BY <2>1, <2>2, <2>3 DEF IInv
<1>2. CASE Next /\ FaultSome
  BY <1>2, FaultKeeps DEF IInv
<1>3. CASE Next /\ ~FaultSome
  <2>1. faults' = faults /\ FaultsTyped
    BY <1>3, FaultCases DEF IInv
  <2>2. FaultsTyped' /\ (NoFaults' <=> NoFaults)
    BY <2>1 DEF FaultsTyped, NoFaults, Faults
  <2>3. ASSUME NoFaults', ~astray' PROVE Good'
    <3>1. ~astray
      BY <1>3, <2>3, AstrayStays
    <3>2. Good
      BY <2>2, <2>3, <3>1 DEF IInv
    <3>3. CASE Begin
      BY <2>3, <3>1, <3>2, <3>3, BeginGood
    <3>4. CASE Step
      BY <2>1, <2>3, <3>2, <3>4, StepGood
    <3>5. CASE Crash
      BY <1>3, <3>5 DEF Crash, FaultSome
    <3> QED BY <1>3, <3>3, <3>4, <3>5 DEF Next
  <2> QED BY <2>2, <2>3 DEF IInv
<1> QED BY <1>1, <1>2, <1>3

\* Without a fault, in every state of every operation: no chain of the table
\* crosses another, runs in a circle or into free clusters; each entry that is
\* not being deleted leads to a chain of its own, whole when it is a file's;
\* the operation holds what it has taken and no entry leads to yet.
THEOREM Invariance == Spec => []IInv
<1>1. Init => IInv
  BY GoodInit
<1>2. IInv /\ [Next]_vars => IInv'
  BY GoodStep
<1> QED BY <1>1, <1>2, PTL DEF Spec
----------------------------------------------------------------------------
(* Chain and DirsFrom, as the recursive functions compute them. *)

\* A set of numbers has a least one.
LEMMA LeastNumber ==
    ASSUME NEW S \in SUBSET Nat, S # {}
    PROVE  \E x \in S : \A y \in S : x <= y
<1> DEFINE R == OpToRel(<, Nat)
<1>1. IsWellFoundedOn(R, Nat)
  BY NatLessThanWellFounded
<1>2. PICK x \in S : \A y \in S : <<y, x>> \notin R
  <2> HIDE DEF R
  <2> QED BY <1>1, WFMin
<1>3. \A y \in S : x <= y
  <2> SUFFICES ASSUME NEW y \in S, y < x PROVE FALSE
    OBVIOUS
  <2>1. <<y, x>> \in R
    BY DEF OpToRel
  <2> QED BY <1>2, <2>1
<1> QED BY <1>3

\* The sets that follow A, each made of the one before it by T.
Follow(f, N, A, T) == f = [n \in 0 .. N |-> IF n = 0 THEN A ELSE T[f[n - 1]]]

LEMMA FollowExists ==
    ASSUME NEW N \in Nat, NEW A, NEW T
    PROVE  \E f : Follow(f, N, A, T)
<1> DEFINE Miss == {k \in Nat : ~\E f : Follow(f, k, A, T)}
<1>1. SUFFICES ASSUME Miss # {} PROVE FALSE
  OBVIOUS
<1>2. PICK k \in Miss : \A y \in Miss : k <= y
  BY <1>1, LeastNumber
<1>3. CASE k = 0
  <2>1. Follow([n \in 0 .. 0 |-> A], 0, A, T)
    BY DEF Follow
  <2> QED BY <1>2, <1>3, <2>1
<1>4. CASE k # 0
  <2>1. PICK i \in Nat : k = i + 1
    BY <1>2, <1>4
  <2>2. PICK g : Follow(g, i, A, T)
    BY <1>2, <2>1
  <2> DEFINE f == [n \in 0 .. k |-> IF n = 0 THEN A ELSE T[g[n - 1]]]
  <2>3. ASSUME NEW n \in 0 .. i PROVE f[n] = g[n]
    <3>1. n \in 0 .. k
      BY <2>1
    <3>2. f[n] = IF n = 0 THEN A ELSE T[g[n - 1]]
      BY <3>1
    <3> HIDE DEF f
    <3> QED BY <2>2, <3>2 DEF Follow
  <2>4. \A n \in 0 .. k : f[n] = IF n = 0 THEN A ELSE T[f[n - 1]]
    <3> SUFFICES ASSUME NEW n \in 0 .. k
                 PROVE  f[n] = IF n = 0 THEN A ELSE T[f[n - 1]]
      OBVIOUS
    <3>1. f[n] = IF n = 0 THEN A ELSE T[g[n - 1]]
      OBVIOUS
    <3>2. n # 0 => n - 1 \in 0 .. i
      BY <2>1
    <3> HIDE DEF f
    <3> QED BY <2>3, <3>1, <3>2
  <2>5. f = [n \in 0 .. k |-> f[n]]
    OBVIOUS
  <2> HIDE DEF f
  <2>6. Follow(f, k, A, T)
    BY <2>4, <2>5 DEF Follow
  <2> QED BY <1>2, <2>6
<1> QED BY <1>3, <1>4

\* Sets that only grow, within D, grow no more after as many steps as D has
\* elements: the last one is the least set that T adds nothing to.
Widens(N, D, A, T) ==
    /\ N \in Nat /\ IsFiniteSet(D) /\ Cardinality(D) <= N /\ A \in SUBSET D
    /\ T \in [SUBSET D -> SUBSET D] /\ \A S \in SUBSET D : S \subseteq T[S]

LEMMA FollowClosed ==
    ASSUME NEW N, NEW D, NEW A, NEW T, NEW f, Widens(N, D, A, T), Follow(f, N, A, T)
    PROVE  /\ f[N] \in SUBSET D /\ A \subseteq f[N] /\ T[f[N]] = f[N]
           /\ \A S \in SUBSET D : A \subseteq S /\ (\A R \in SUBSET S : T[R] \subseteq S) => f[N] \subseteq S
<1> USE DEF Widens
<1>1. f[0] = A
  BY DEF Follow
<1>2. ASSUME NEW n \in 0 .. N, n # N PROVE f[n + 1] = T[f[n]] /\ n + 1 \in 0 .. N
  <2>1. n + 1 \in 0 .. N /\ n + 1 # 0 /\ (n + 1) - 1 = n
    BY <1>2
  <2>2. f[n + 1] = T[f[(n + 1) - 1]]
    BY <2>1 DEF Follow
  <2> QED BY <2>1, <2>2
<1> DEFINE Fine(n) == /\ f[n] \in SUBSET D /\ A \subseteq f[n]
                      /\ T[f[n]] = f[n] \/ Cardinality(f[n]) >= n
           Off == {n \in 0 .. N : ~Fine(n)}
<1>3. Fine(0)
  <2>1. IsFiniteSet(A)
    BY FS_Subset
  <2>2. Cardinality(A) \in Nat
    BY <2>1, FS_CardinalityType
  <2> QED BY <1>1, <2>2
<1>4. ASSUME NEW n \in 0 .. N, n # N, Fine(n) PROVE Fine(n + 1)
  <2>1. f[n + 1] = T[f[n]] /\ f[n] \in SUBSET D /\ f[n] \subseteq T[f[n]] /\ f[n + 1] \in SUBSET D /\ A \subseteq f[n + 1]
    BY <1>2, <1>4
  <2>2. CASE T[f[n]] = f[n]
    BY <2>1, <2>2
  <2>3. CASE T[f[n]] # f[n] /\ Cardinality(f[n]) >= n
    <3>1. PICK x \in f[n + 1] : x \notin f[n]
      BY <2>1, <2>3
    <3>2. IsFiniteSet(f[n]) /\ IsFiniteSet(f[n + 1])
      BY <2>1, FS_Subset
    <3>3. Cardinality(f[n] \cup {x}) = Cardinality(f[n]) + 1
      BY <3>1, <3>2, FS_AddElement
    <3>4. f[n] \cup {x} \in SUBSET f[n + 1]
      BY <2>1, <3>1
    <3>5. Cardinality(f[n] \cup {x}) <= Cardinality(f[n + 1])
      BY <3>2, <3>4, FS_Subset
    <3>6. Cardinality(f[n]) \in Nat /\ Cardinality(f[n + 1]) \in Nat
      BY <3>2, FS_CardinalityType
    <3>7. Cardinality(f[n + 1]) >= n + 1
      BY <2>3, <3>3, <3>5, <3>6
    <3> QED BY <2>1, <3>7
  <2> QED BY <1>4, <2>2, <2>3
<1>5. Off = {}
  <2> SUFFICES ASSUME Off # {} PROVE FALSE
    OBVIOUS
  <2>1. PICK k \in Off : \A y \in Off : k <= y
    <3>1. Off \in SUBSET Nat
      OBVIOUS
    <3> HIDE DEF Off
    <3> QED BY <3>1, LeastNumber
  <2>2. k \in 0 .. N /\ ~Fine(k)
    BY <2>1
  <2> HIDE DEF Fine
  <2>3. k # 0
    BY <1>3, <2>2
  <2>4. PICK i \in Nat : k = i + 1
    BY <2>2, <2>3
  <2>5. i \in 0 .. N /\ i # N /\ i \notin Off
    BY <2>1, <2>2, <2>4
  <2> QED BY <1>4, <2>2, <2>4, <2>5
<1>6. Fine(N)
  <2>1. N \in 0 .. N
    OBVIOUS
  <2> HIDE DEF Fine
  <2> QED BY <1>5, <2>1
<1>7. T[f[N]] = f[N]
  <2> SUFFICES ASSUME T[f[N]] # f[N] PROVE FALSE
    OBVIOUS
  <2>1. f[N] \in SUBSET D /\ T[f[N]] \in SUBSET D /\ f[N] \subseteq T[f[N]] /\ Cardinality(f[N]) >= N
    BY <1>6
  <2>2. PICK x \in D : x \notin f[N]
    BY <2>1
  <2>3. IsFiniteSet(f[N]) /\ f[N] # D
    BY <2>1, <2>2, FS_Subset
  <2>4. Cardinality(f[N]) <= Cardinality(D) /\ Cardinality(f[N]) # Cardinality(D)
    BY <2>1, <2>3, FS_Subset
  <2>5. Cardinality(f[N]) \in Nat /\ Cardinality(D) \in Nat
    BY <2>3, FS_CardinalityType
  <2> QED BY <2>1, <2>4, <2>5
<1>8. ASSUME NEW S \in SUBSET D, A \subseteq S, \A R \in SUBSET S : T[R] \subseteq S PROVE f[N] \subseteq S
  <2> DEFINE Out == {n \in 0 .. N : ~(f[n] \subseteq S)}
  <2>1. Out = {}
    <3> SUFFICES ASSUME Out # {} PROVE FALSE
      OBVIOUS
    <3>1. PICK k \in Out : \A y \in Out : k <= y
      <4>1. Out \in SUBSET Nat
        OBVIOUS
      <4> HIDE DEF Out
      <4> QED BY <4>1, LeastNumber
    <3>2. k \in 0 .. N /\ k # 0 /\ ~(f[k] \subseteq S)
      BY <1>1, <1>8, <3>1
    <3>3. PICK i \in Nat : k = i + 1
      BY <3>2
    <3>4. i \in 0 .. N /\ i # N /\ f[i] \subseteq S
      BY <3>1, <3>2, <3>3
    <3>5. f[k] = T[f[i]]
      BY <1>2, <3>3, <3>4
    <3> QED BY <1>8, <3>2, <3>4, <3>5
  <2>2. N \in 0 .. N
    OBVIOUS
  <2> QED BY <2>1, <2>2
<1> QED BY <1>6, <1>7, <1>8

LEMMA ChainReach ==
    ASSUME NEW c
    PROVE  Chain(c) = Reach(fat, c)
<1> DEFINE T == [S \in SUBSET Cluster |-> S \cup ({fat[x] : x \in S} \cap Cluster)]
           A == {c} \cap Cluster
           Is(g) == g = [n \in 0 .. NCLUSTERS |->
                            IF n = 0 THEN A ELSE g[n - 1] \cup ({fat[x] : x \in g[n - 1]} \cap Cluster)]
           w == CHOOSE g : Is(g)
<1>1. Chain(c) = w[NCLUSTERS]
  BY DEF Chain
<1>2. /\ NCLUSTERS \in Nat /\ IsFiniteSet(Cluster) /\ Cardinality(Cluster) <= NCLUSTERS /\ A \in SUBSET Cluster
      /\ T \in [SUBSET Cluster -> SUBSET Cluster] /\ \A S \in SUBSET Cluster : S \subseteq T[S]
  <2>1. NCLUSTERS \in Nat /\ IsFiniteSet(Cluster) /\ Cardinality(Cluster) = NCLUSTERS
    BY Numbers
  <2>2. Cardinality(Cluster) <= NCLUSTERS
    BY <2>1
  <2>3. \A S \in SUBSET Cluster : S \cup ({fat[x] : x \in S} \cap Cluster) \in SUBSET Cluster
    OBVIOUS
  <2>4. T \in [SUBSET Cluster -> SUBSET Cluster]
    BY <2>3
  <2>5. \A S \in SUBSET Cluster : S \subseteq T[S]
    OBVIOUS
  <2> QED BY <2>1, <2>2, <2>4, <2>5
<1>3. \A S \in SUBSET Cluster : T[S] = S \cup ({fat[x] : x \in S} \cap Cluster)
  OBVIOUS
<1> HIDE DEF T, A
<1>4. PICK f : Follow(f, NCLUSTERS, A, T)
  BY <1>2, FollowExists
<1>5. \A g : Follow(g, NCLUSTERS, A, T) => \A n \in 0 .. NCLUSTERS : g[n] \in SUBSET Cluster
  <2> SUFFICES ASSUME NEW g, Follow(g, NCLUSTERS, A, T), \E n \in 0 .. NCLUSTERS : g[n] \notin SUBSET Cluster
               PROVE  FALSE
    OBVIOUS
  <2> DEFINE Off == {n \in 0 .. NCLUSTERS : g[n] \notin SUBSET Cluster}
  <2>1. PICK k \in Off : \A y \in Off : k <= y
    <3>1. Off \in SUBSET Nat /\ Off # {}
      BY <1>2
    <3> HIDE DEF Off
    <3> QED BY <3>1, LeastNumber
  <2>2. g[0] = A
    BY <1>2 DEF Follow
  <2>3. k \in 0 .. NCLUSTERS /\ k # 0 /\ g[k] \notin SUBSET Cluster
    BY <1>2, <2>1, <2>2
  <2>4. k - 1 \in 0 .. NCLUSTERS /\ k - 1 \notin Off
    BY <1>2, <2>1, <2>3
  <2>5. g[k] = T[g[k - 1]]
    BY <2>3 DEF Follow
  <2> QED BY <1>2, <2>3, <2>4, <2>5
<1>6. Is(f)
  <2>1. \A n \in 0 .. NCLUSTERS : n # 0 => n - 1 \in 0 .. NCLUSTERS
    BY <1>2
  <2>2. \A n \in 0 .. NCLUSTERS : n # 0 => T[f[n - 1]] = f[n - 1] \cup ({fat[x] : x \in f[n - 1]} \cap Cluster)
    BY <1>3, <1>4, <1>5, <2>1
  <2> QED BY <1>4, <2>2 DEF Follow
<1>7. Is(w)
  <2> HIDE DEF Is
  <2> QED BY <1>6
<1> HIDE DEF w
<1>8. Follow(w, NCLUSTERS, A, T)
  <2>1. \A n \in 0 .. NCLUSTERS : w[n] \in SUBSET Cluster
    <3> DEFINE Off == {n \in 0 .. NCLUSTERS : w[n] \notin SUBSET Cluster}
    <3> SUFFICES ASSUME Off # {} PROVE FALSE
      OBVIOUS
    <3>1. PICK k \in Off : \A y \in Off : k <= y
      <4>1. Off \in SUBSET Nat
        BY <1>2
      <4> HIDE DEF Off
      <4> QED BY <4>1, LeastNumber
    <3>2. w[0] = A
      BY <1>2, <1>7
    <3>3. k \in 0 .. NCLUSTERS /\ k # 0 /\ w[k] \notin SUBSET Cluster
      BY <1>2, <3>1, <3>2
    <3>4. k - 1 \in 0 .. NCLUSTERS /\ k - 1 \notin Off
      BY <1>2, <3>1, <3>3
    <3>5. w[k] = w[k - 1] \cup ({fat[x] : x \in w[k - 1]} \cap Cluster)
      BY <1>7, <3>3
    <3> QED BY <3>3, <3>4, <3>5
  <2>2. \A n \in 0 .. NCLUSTERS : n # 0 => n - 1 \in 0 .. NCLUSTERS
    BY <1>2
  <2>3. \A n \in 0 .. NCLUSTERS : n # 0 => T[w[n - 1]] = w[n - 1] \cup ({fat[x] : x \in w[n - 1]} \cap Cluster)
    BY <1>3, <2>1, <2>2
  <2> QED BY <1>7, <2>3 DEF Follow
<1>9. /\ w[NCLUSTERS] \in SUBSET Cluster /\ A \subseteq w[NCLUSTERS] /\ T[w[NCLUSTERS]] = w[NCLUSTERS]
      /\ \A S \in SUBSET Cluster : A \subseteq S /\ (\A R \in SUBSET S : T[R] \subseteq S) => w[NCLUSTERS] \subseteq S
  <2>1. Widens(NCLUSTERS, Cluster, A, T)
    BY <1>2 DEF Widens
  <2> QED BY ONLY <1>8, <2>1, FollowClosed
<1>10. Reach(fat, c) \subseteq w[NCLUSTERS]
  <2>1. Closed(fat, w[NCLUSTERS]) /\ (c \in Cluster => c \in w[NCLUSTERS])
    BY <1>3, <1>9 DEF Closed, A
  <2> QED BY <1>9, <2>1, ReachFacts
<1>11. w[NCLUSTERS] \subseteq Reach(fat, c)
  <2> DEFINE S == Reach(fat, c)
  <2>1. S \in SUBSET Cluster /\ A \subseteq S /\ \A x \in S : fat[x] \in Cluster => fat[x] \in S
    BY ReachFacts DEF A, Closed
  <2> HIDE DEF S
  <2>2. \A R \in SUBSET S : T[R] \subseteq S
    BY <1>3, <2>1
  <2>3. w[NCLUSTERS] \subseteq S
    BY <1>9, <2>1, <2>2
  <2> QED BY <2>3 DEF S
<1> QED BY <1>1, <1>10, <1>11

LEMMA EntriesInFacts ==
    ASSUME NEW d \in Heads(disk)
    PROVE  EntriesIn(d) = {p \in Places(fat, disk) : p[1] \in Reach(fat, d)}
<1>1. EntriesIn(d) = {p \in Reach(fat, d) \X (1 .. SLOTS) : Named(disk[p[1]][p[2]])}
  BY ChainReach DEF EntriesIn, Named
<1>2. Reach(fat, d) \subseteq DirClusters(fat, disk)
  BY ReachFacts DEF DirClusters
<1> QED BY <1>1, <1>2 DEF Places

\* The directories that the directories S hold.
SubDirs(S) == {At(p).first : p \in {q \in UNION {EntriesIn(d) : d \in S} : At(q).k = "dir"}}

LEMMA SubDirsFacts ==
    ASSUME FatOK(fat), NEW U, DirsOK(fat, disk, U), NEW S \in SUBSET Heads(disk)
    PROVE  /\ SubDirs(S) \in SUBSET Heads(disk)
           /\ \A d \in S : \A p \in EntriesIn(d) : At(p).k = "dir" => At(p).first \in SubDirs(S)
<1>1. ASSUME NEW d \in S, NEW p \in EntriesIn(d), At(p).k = "dir" PROVE At(p).first \in Heads(disk)
  <2>1. p \in Places(fat, disk)
    BY EntriesInFacts
  <2>2. p[1] \in DirClusters(fat, disk) /\ p[2] \in 1 .. SLOTS
    BY <2>1 DEF Places
  <2> QED BY <1>1, <2>2 DEF DirsOK, At
<1> QED BY <1>1 DEF SubDirs

LEMMA DirsFromFacts ==
    ASSUME FatOK(fat), NEW U, DirsOK(fat, disk, U), NEW A \in SUBSET Heads(disk)
    PROVE  /\ DirsFrom(A) \in SUBSET Heads(disk) /\ A \subseteq DirsFrom(A)
           /\ \A d \in DirsFrom(A) : \A p \in EntriesIn(d) : At(p).k = "dir" => At(p).first \in DirsFrom(A)
<1> DEFINE D == Heads(disk)
           T == [S \in SUBSET D |-> S \cup SubDirs(S)]
           Is(g) == g = [n \in 0 .. NCLUSTERS |-> IF n = 0 THEN A ELSE g[n - 1] \cup SubDirs(g[n - 1])]
           w == CHOOSE g : Is(g)
<1>1. DirsFrom(A) = w[NCLUSTERS]
  BY DEF DirsFrom, SubDirs
<1>2. \A S \in SUBSET D : SubDirs(S) \in SUBSET D
  BY SubDirsFacts
<1>3. \A S \in SUBSET D : T[S] = S \cup SubDirs(S)
  OBVIOUS
<1>4. NCLUSTERS \in Nat /\ A \in SUBSET D
  BY Numbers
<1>5. Widens(NCLUSTERS, D, A, T)
  <2>1. D \in SUBSET Cluster
    BY HeadFacts
  <2> HIDE DEF D
  <2>2. IsFiniteSet(D) /\ Cardinality(D) <= Cardinality(Cluster) /\ Cardinality(Cluster) = NCLUSTERS
    BY <2>1, Numbers, FS_Subset
  <2>3. T \in [SUBSET D -> SUBSET D] /\ \A S \in SUBSET D : S \subseteq T[S]
    BY <1>2
  <2> HIDE DEF T
  <2> QED BY <1>4, <2>2, <2>3 DEF Widens
<1> HIDE DEF D, T
<1>6. PICK f : Follow(f, NCLUSTERS, A, T)
  BY <1>4, FollowExists
<1>7. \A n \in 0 .. NCLUSTERS : n # 0 => n - 1 \in 0 .. NCLUSTERS
  BY <1>4
<1>8. Is(f)
  <2> DEFINE Off == {n \in 0 .. NCLUSTERS : f[n] \notin SUBSET D}
  <2>1. ASSUME Off # {} PROVE FALSE
    <3>1. PICK k \in Off : \A y \in Off : k <= y
      <4>1. Off \in SUBSET Nat
        BY <1>4
      <4> HIDE DEF Off
      <4> QED BY <2>1, <4>1, LeastNumber
    <3>2. f[0] = A
      BY <1>4, <1>6 DEF Follow
    <3>3. k \in 0 .. NCLUSTERS /\ k # 0 /\ f[k] \notin SUBSET D
      BY <1>4, <3>1, <3>2
    <3>4. k - 1 \in 0 .. NCLUSTERS /\ k - 1 \notin Off
      BY <1>4, <3>1, <3>3
    <3>5. f[k] = T[f[k - 1]]
      BY <1>6, <3>3 DEF Follow
    <3> QED BY <1>5, <3>3, <3>4, <3>5 DEF Widens
  <2>2. \A n \in 0 .. NCLUSTERS : f[n] \in SUBSET D
    BY <2>1
  <2>3. \A n \in 0 .. NCLUSTERS : n # 0 => T[f[n - 1]] = f[n - 1] \cup SubDirs(f[n - 1])
    BY <1>3, <1>7, <2>2
  <2> QED BY <1>6, <2>3 DEF Follow
<1>9. Is(w)
  <2> HIDE DEF Is
  <2> QED BY <1>8
<1> HIDE DEF w
<1>10. Follow(w, NCLUSTERS, A, T)
  <2> DEFINE Off == {n \in 0 .. NCLUSTERS : w[n] \notin SUBSET D}
  <2>1. ASSUME Off # {} PROVE FALSE
    <3>1. PICK k \in Off : \A y \in Off : k <= y
      <4>1. Off \in SUBSET Nat
        BY <1>4
      <4> HIDE DEF Off
      <4> QED BY <2>1, <4>1, LeastNumber
    <3>2. w[0] = A
      BY <1>4, <1>9
    <3>3. k \in 0 .. NCLUSTERS /\ k # 0 /\ w[k] \notin SUBSET D
      BY <1>4, <3>1, <3>2
    <3>4. k - 1 \in 0 .. NCLUSTERS /\ k - 1 \notin Off
      BY <1>4, <3>1, <3>3
    <3>5. w[k] = w[k - 1] \cup SubDirs(w[k - 1])
      BY <1>9, <3>3
    <3> QED BY <1>2, <3>3, <3>4, <3>5 DEF D
  <2>2. \A n \in 0 .. NCLUSTERS : w[n] \in SUBSET D
    BY <2>1
  <2>3. \A n \in 0 .. NCLUSTERS : n # 0 => T[w[n - 1]] = w[n - 1] \cup SubDirs(w[n - 1])
    BY <1>3, <1>7, <2>2
  <2> QED BY <1>9, <2>3 DEF Follow
<1> DEFINE V == w[NCLUSTERS]
<1>11. V \in SUBSET D /\ A \subseteq V /\ T[V] = V
  BY ONLY <1>5, <1>10, FollowClosed
<1> HIDE DEF V
<1>12. V \cup SubDirs(V) = V /\ V \in SUBSET Heads(disk)
  BY <1>3, <1>11 DEF D
<1>13. \A d \in V : \A p \in EntriesIn(d) : At(p).k = "dir" => At(p).first \in SubDirs(V)
  BY <1>12, SubDirsFacts
<1> QED BY <1>1, <1>11, <1>12, <1>13 DEF V
----------------------------------------------------------------------------
(* What the operations promise. *)

\* The directory in the hands of the operation is a directory.
LEMMA MovedFacts ==
    ASSUME Good
    PROVE  Moved \subseteq Heads(disk)
<1>1. job \in Jobs /\ job.pc \in PcOf(job.op) /\ OpOK /\ OldOK /\ (Pending => EntryOK(fat, disk, job.entry))
      /\ DirsOK(fat, disk, Unzeroed) /\ FatOK(fat)
  BY DEF Good, JobOK
<1>2. ASSUME Pending, job.entry.k = "dir" PROVE job.entry.first \in Heads(disk)
  BY <1>1, <1>2 DEF EntryOK
<1>3. ASSUME ~Pending, job.entry.k = "dir", job.entry.first # 0 PROVE job.entry.first \in Heads(disk)
  <2>1. CASE job.op = "none"
    <3>1. NoJob.entry.first = 0
      BY DEF NoJob, EndSlot
    <3> QED BY <1>1, <1>3, <2>1, <3>1 DEF OpOK
  <2>2. CASE job.op \in {"read", "cd", "delete", "write"}
    BY <1>1, <1>3, <2>2 DEF OpOK
  <2>3. CASE job.op = "rename"
    <3>1. job.pc \in {"scan", "mark"}
      BY <1>1, <1>3, <2>3 DEF PcOf, Pending
    <3>2. CASE job.pc = "scan"
      BY <1>1, <1>3, <2>3, <3>2 DEF OpOK
    <3>3. CASE job.pc = "mark"
      <4>1. /\ <<job.cl, job.idx>> \in Places(fat, disk) /\ job.entry.first = disk[job.cl][job.idx].first
            /\ job.entry.k = disk[job.cl][job.idx].k
        BY <1>1, <2>3, <3>3 DEF OldOK
      <4>2. job.cl \in DirClusters(fat, disk) /\ job.idx \in 1 .. SLOTS
        BY <4>1 DEF Places
      <4> QED BY <1>1, <1>3, <4>1, <4>2 DEF DirsOK
    <3> QED BY <3>1, <3>2, <3>3
  <2>4. CASE job.op = "mkdir"
    <3>1. job.pc \in {"scan", "alloc", "dots"}
      BY <1>1, <1>3, <2>4 DEF PcOf, Pending
    <3> QED BY <1>1, <1>3, <2>4, <3>1 DEF OpOK
  <2> QED BY <1>1, <2>1, <2>2, <2>3, <2>4 DEF Jobs
<1> QED BY <1>2, <1>3 DEF Moved

LEMMA GoodLive ==
    ASSUME Good
    PROVE  /\ FatOK(fat) /\ DirsOK(fat, disk, Unzeroed) /\ EntriesOK(fat, disk, Safe, HeldHeads)
           /\ Kept \in SUBSET Heads(disk) /\ Live \subseteq Places(fat, disk) /\ Live \ AtRisk \subseteq Safe
<1>1. FatOK(fat) /\ DirsOK(fat, disk, Unzeroed) /\ EntriesOK(fat, disk, Safe, HeldHeads)
  BY DEF Good
<1> DEFINE A == {root_cluster} \cup Moved
<1>2. A \in SUBSET Heads(disk)
  BY MovedFacts DEF Heads
<1>3. Kept = DirsFrom(A)
  BY DEF Kept
<1> HIDE DEF A
<1>4. Kept \in SUBSET Heads(disk)
  BY <1>1, <1>2, <1>3, DirsFromFacts
<1>5. Live \subseteq Places(fat, disk)
  BY <1>4, EntriesInFacts DEF Live
<1> QED BY <1>1, <1>4, <1>5 DEF Safe

\* The entry being renamed leads to a whole file or to a directory, which no
\* entry on the disk leads to.
LEMMA InHandFacts ==
    ASSUME Good
    PROVE  /\ InHand \notin Live
           /\ InHand \in Renamed =>
                 /\ EntryOK(fat, disk, job.entry)
                 /\ job.entry.first # 0 => \A p \in Safe : First(disk, p) # job.entry.first
<1>1. FatOK(fat) /\ DirsOK(fat, disk, Unzeroed) /\ EntriesOK(fat, disk, Safe, HeldHeads)
      /\ Live \subseteq Places(fat, disk)
  BY GoodLive
<1>2. InHand \notin Live
  <2>1. \A p \in Places(fat, disk) : p[1] \in Cluster
    BY DEF Places, DirClusters
  <2>2. InHand[1] \notin Cluster
    BY Numbers DEF InHand
  <2> QED BY <1>1, <2>1, <2>2
<1>3. ASSUME InHand \in Renamed
      PROVE  /\ EntryOK(fat, disk, job.entry)
             /\ job.entry.first # 0 => \A p \in Safe : First(disk, p) # job.entry.first
  <2>1. job.op = "rename" /\ job.pc \notin {"scan", "mark"} /\ job.pc \in PcOf(job.op)
    BY <1>3 DEF Renamed, Good, JobOK
  <2>2. Pending
    BY <2>1 DEF PcOf, Pending
  <2>3. EntryOK(fat, disk, job.entry)
    BY <2>2 DEF Good, JobOK
  <2> DEFINE e == job.entry
  <2>4. EntryOK(fat, disk, e)
    BY <2>3
  <2> HIDE DEF e
  <2>5. e.first = 0 \/ IsHead(fat, e.first)
    BY <1>1, <2>4, EntryHead
  <2>6. e.first # 0 => e.first \in HeldHeads
    BY <2>2, <2>5 DEF HeldHeads, IsHead, e
  <2> QED BY <1>1, <2>3, <2>6 DEF EntriesOK, e
<1> QED BY <1>2, <1>3

LEMMA GoodAtRisk ==
    ASSUME Good
    PROVE  OnlyTargetAtRisk
<1> DEFINE placed == Live \ AtRisk
           safe == placed \cup Renamed
           heads == {<<root_cluster, 0>>} \cup {p \in safe : EntryAt(p).first # 0}
           first(p) == IF p = <<root_cluster, 0>> THEN root_cluster ELSE EntryAt(p).first
<1>1. /\ FatOK(fat) /\ DirsOK(fat, disk, Unzeroed) /\ EntriesOK(fat, disk, Safe, HeldHeads)
      /\ Kept \in SUBSET Heads(disk) /\ placed \subseteq Safe
  BY GoodLive
<1>2. IsHead(fat, root_cluster) /\ root_cluster \in Heads(disk)
  BY <1>1, HeadFacts
<1>3. ASSUME NEW p \in safe
      PROVE  /\ EntryOK(fat, disk, EntryAt(p)) /\ EntryAt(p).first # root_cluster
             /\ EntryAt(p).first # 0 => IsHead(fat, EntryAt(p).first)
             /\ IF p = InHand THEN p \in Renamed /\ EntryAt(p) = job.entry
                ELSE p \in Safe /\ EntryAt(p).first = First(disk, p)
  <2> DEFINE e == EntryAt(p)
  <2>1. IF p = InHand THEN p \in Renamed /\ e = job.entry
        ELSE p \in Safe /\ e = disk[p[1]][p[2]] /\ e.first = First(disk, p)
    <3>1. CASE p = InHand
      BY <3>1, InHandFacts DEF EntryAt
    <3>2. CASE p # InHand
      <4>1. p \in Safe
        BY <1>1, <3>2 DEF Renamed
      <4> QED BY <3>2, <4>1 DEF EntryAt, At, First
    <3> QED BY <3>1, <3>2
  <2> HIDE DEF e
  <2>2. EntryOK(fat, disk, e)
    BY <1>1, <2>1, InHandFacts DEF EntriesOK
  <2>3. e.first = 0 \/ IsHead(fat, e.first)
    BY <1>1, <2>2, EntryHead
  <2>4. e.first # root_cluster
    <3>1. root_cluster # 0
      BY Numbers
    <3> QED BY <1>2, <2>2, <3>1 DEF EntryOK, DataOK
  <2> QED BY <2>1, <2>2, <2>3, <2>4 DEF e
<1>4. ASSUME NEW p \in heads, NEW q \in heads, p # q PROVE Chain(first(p)) \cap Chain(first(q)) = {}
  <2>1. IsHead(fat, first(p)) /\ IsHead(fat, first(q))
    BY <1>2, <1>3
  <2>2. first(p) # first(q)
    <3>1. CASE p = <<root_cluster, 0>>
      <4>1. q \in safe /\ first(q) = EntryAt(q).first /\ first(p) = root_cluster
        BY <1>4, <3>1
      <4> QED BY <1>3, <4>1
    <3>2. CASE q = <<root_cluster, 0>>
      <4>1. p \in safe /\ first(p) = EntryAt(p).first /\ first(q) = root_cluster
        BY <1>4, <3>2
      <4> QED BY <1>3, <4>1
    <3>3. CASE p # <<root_cluster, 0>> /\ q # <<root_cluster, 0>>
      <4>1. /\ p \in safe /\ q \in safe /\ EntryAt(p).first # 0 /\ EntryAt(q).first # 0
            /\ first(p) = EntryAt(p).first /\ first(q) = EntryAt(q).first
        BY <3>3
      <4>2. CASE p # InHand /\ q # InHand
        <5>1. /\ p \in Safe /\ EntryAt(p).first = First(disk, p)
              /\ q \in Safe /\ EntryAt(q).first = First(disk, q)
          BY <1>3, <4>1, <4>2
        <5> QED BY <1>1, <1>4, <4>1, <5>1 DEF EntriesOK
      <4>3. CASE p = InHand
        <5>1. p \in Renamed /\ EntryAt(p) = job.entry /\ q \in Safe /\ EntryAt(q).first = First(disk, q)
          BY <1>3, <1>4, <4>1, <4>3
        <5> QED BY <4>1, <4>3, <5>1, InHandFacts
      <4>4. CASE q = InHand
        <5>1. q \in Renamed /\ EntryAt(q) = job.entry /\ p \in Safe /\ EntryAt(p).first = First(disk, p)
          BY <1>3, <1>4, <4>1, <4>4
        <5> QED BY <4>1, <4>4, <5>1, InHandFacts
      <4> QED BY <4>2, <4>3, <4>4
    <3> QED BY <3>1, <3>2, <3>3
  <2> HIDE DEF first
  <2> QED BY <1>1, <2>1, <2>2, ReachApart, ChainReach
<1>5. ASSUME NEW p \in safe, EntryAt(p).k = "file"
      PROVE  IF EntryAt(p).first = 0 THEN EntryAt(p).size = 0
             ELSE /\ Whole(EntryAt(p).first, EntryAt(p).size)
                  /\ \A x \in Chain(EntryAt(p).first) : disk[x] = FileData
  <2> DEFINE c == EntryAt(p).first
             n == EntryAt(p).size
  <2>1. IF c = 0 THEN n = 0 ELSE DataOK(fat, disk, c, n)
    BY <1>3, <1>5 DEF EntryOK
  <2> HIDE DEF c, n
  <2>2. ASSUME c # 0 PROVE Whole(c, n) /\ \A x \in Chain(c) : disk[x] = FileData
    <3>1. IsHead(fat, c) /\ Cardinality(Reach(fat, c)) = n /\ \A x \in Reach(fat, c) : disk[x] = FileData
      BY <2>1, <2>2 DEF DataOK
    <3>2. \E x \in Reach(fat, c) : fat[x] = EOC
      BY <1>1, <3>1, ReachEnds DEF IsHead
    <3> QED BY <3>1, <3>2, ChainReach DEF Whole
  <2> QED BY <2>1, <2>2 DEF c, n
<1>6. ASSUME NEW d \in Kept
      PROVE  /\ \E x \in Chain(d) : fat[x] = EOC
             /\ \A x \in Chain(d) \ Unzeroed, i \in 1 .. SLOTS :
                   /\ disk[x][i].k # "data"
                   /\ disk[x][i].k = "end" =>
                         /\ fat[x] = EOC
                         /\ \A h \in i .. SLOTS : disk[x][h].k = "end"
  <2>1. d \in Heads(disk) /\ IsHead(fat, d) /\ Reach(fat, d) \subseteq DirClusters(fat, disk)
    BY <1>1, HeadFacts
  <2>2. \E x \in Reach(fat, d) : fat[x] = EOC
    BY <1>1, <2>1, ReachEnds DEF IsHead
  <2>3. \A x \in Reach(fat, d) \ Unzeroed : SlotsOK(fat, disk, x)
    BY <1>1, <2>1 DEF DirsOK
  <2> QED BY <2>2, <2>3, ChainReach DEF SlotsOK
<1> QED BY <1>4, <1>5, <1>6 DEF OnlyTargetAtRisk

\* In every state of every operation of fs/fat32.c on a disk that does not
\* fail, until a dot entry is renamed or cd .. in the root leads elsewhere, each
\* file but the one being replaced or deleted is whole and shares no cluster,
\* the one being renamed and what is in a directory being renamed included, and
\* each directory holds entries only, none after its end mark, but for a cluster
\* that has been linked to it and not yet zeroed.  A power loss damages no other
\* file; what is being renamed is whole then, but no entry leads to it.
THEOREM TargetAtRisk == Spec => []OnlyTargetAtRisk
<1>1. IInv => OnlyTargetAtRisk
  <2>1. CASE ~(NoFaults /\ ~astray)
    BY <2>1 DEF OnlyTargetAtRisk
  <2>2. CASE NoFaults /\ ~astray
    BY <2>2, GoodAtRisk DEF IInv
  <2> QED BY <2>1, <2>2
<1> QED BY <1>1, Invariance, PTL
----------------------------------------------------------------------------
(* No space is lost: what holds besides, until the disk is full.            *)

\* Every chain is a directory's, a file's that an entry leads to, or held by
\* the operation at work.
Owners(K, S, X) == Heads(K) \cup {First(K, p) : p \in S} \cup X
Owned(F, K, S, X) == \A c \in Cluster : IsHead(F, c) => c \in Owners(K, S, X)

\* With a directory, S has those that its entries lead to.
DownClosed(F, K, S) ==
    \A d \in S : \A x \in Reach(F, d), i \in 1 .. SLOTS :
        Named(K[x][i]) /\ K[x][i].k = "dir" => K[x][i].first \in S

\* The directories D are below the root and the directories M.
Below(F, K, M, D) ==
    \A S \in SUBSET Heads(K) : root_cluster \in S /\ M \subseteq S /\ DownClosed(F, K, S) => D \subseteq S

\* The directory that no entry leads to: it is being made or renamed.
HeldDir == IF Pending /\ job.entry.k = "dir" THEN {job.entry.first} ELSE {}

\* Every directory is below the root or the one held, and the directory that
\* will have its entry is not below it.
NoneLost ==
    /\ Owned(fat, disk, Safe, HeldHeads)
    /\ Below(fat, disk, HeldDir, Heads(disk))
    /\ HeldDir # {} => Below(fat, disk, {}, {job.dir})

LInv == NoFaults /\ ~astray /\ ~full => NoneLost

LEMMA NewHeads ==
    ASSUME NEW F, FatOK(F), NEW G, NEW a \in Cluster, NEW v \in Cluster \cup {FREE, EOC}, Sets(F, G, a, v),
           NEW c, IsHead(G, c)
    PROVE  /\ v = EOC /\ F[a] = FREE => c = a \/ IsHead(F, c)
           /\ v \in Cluster /\ F[a] = EOC => IsHead(F, c) /\ c # v
           /\ v = FREE => (IsHead(F, c) /\ c # a) \/ c = F[a]
<1>1. G[a] = v /\ (\A x \in Cluster \ {a} : G[x] = F[x]) /\ c \in Cluster /\ G[c] # FREE /\ \A x \in Cluster : G[x] # c
  BY DEF Sets, IsHead
<1>2. c # a => F[c] = G[c]
  BY <1>1
<1>3. ASSUME v = EOC, F[a] = FREE, c # a PROVE IsHead(F, c)
  <2>1. \A x \in Cluster : F[x] # c
    BY <1>1, <1>3, Numbers
  <2> QED BY <1>1, <1>2, <1>3, <2>1 DEF IsHead
<1>4. ASSUME v \in Cluster, F[a] = EOC PROVE IsHead(F, c) /\ c # v
  <2>1. \A x \in Cluster : F[x] # c
    BY <1>1, <1>4, Numbers
  <2>2. F[c] # FREE
    BY <1>1, <1>2, <1>4, Numbers
  <2> QED BY <1>1, <2>1, <2>2 DEF IsHead
<1>5. ASSUME v = FREE, c # F[a] PROVE IsHead(F, c) /\ c # a
  <2>1. c # a
    BY <1>1, <1>5
  <2>2. \A x \in Cluster : F[x] # c
    BY <1>1, <1>5
  <2> QED BY <1>1, <1>2, <2>1, <2>2 DEF IsHead
<1> QED BY <1>3, <1>4, <1>5

\* Blank contents do not make or unmake a directory.
LEMMA BlankWrite ==
    ASSUME NEW K, NEW L, NEW x \in Cluster, NEW s, Writes(K, L, x, s), Blank(s), x \notin Heads(K) \/ Blank(K[x])
    PROVE  Heads(L) = Heads(K)
<1>1. L[x] = s /\ \A y \in Cluster \ {x} : L[y] = K[y]
  BY DEF Writes
<1>2. CASE x = root_cluster
  <2>1. \A y \in Cluster \ {x} : y \in Heads(L) <=> y \in Heads(K)
    BY <1>1 DEF Heads
  <2> QED BY <1>2, <2>1 DEF Heads
<1>3. CASE x # root_cluster
  <2>1. x \notin Heads(L)
    BY <1>1, <1>3, BlankNoHead
  <2>2. x \notin Heads(K)
    BY <1>3, BlankNoHead
  <2>3. \A y \in Cluster \ {x} : y \in Heads(L) <=> y \in Heads(K)
    BY <1>1 DEF Heads
  <2>4. Heads(L) \subseteq Cluster /\ Heads(K) \subseteq Cluster
    BY Numbers DEF Heads
  <2> QED BY <2>1, <2>2, <2>3, <2>4
<1> QED BY <1>2, <1>3

\* The entries at the places Q may go, all others stay where they are.
Stay(Q) ==
    /\ Heads(disk) \subseteq Heads(disk')
    /\ \A d \in Heads(disk) : Reach(fat, d) \subseteq Reach(fat', d)
    /\ \A x \in DirClusters(fat, disk), i \in 1 .. SLOTS :
          Named(disk[x][i]) /\ <<x, i>> \notin Q => disk'[x][i] = disk[x][i]

LEMMA OwnedKept ==
    ASSUME Owned(fat, disk, Safe, HeldHeads), NEW Q, Stay(Q),
           \A p \in Q \cup AtRisk' :
              p \in AtRisk \/ First(disk, p) \in Owners(disk', Safe', HeldHeads') \cup {0},
           \A c \in Cluster : IsHead(fat', c) =>
              \/ c \in Owners(disk', Safe', HeldHeads')
              \/ IsHead(fat, c) /\ c \notin HeldHeads
    PROVE  Owned(fat', disk', Safe', HeldHeads')
<1> SUFFICES ASSUME NEW c \in Cluster, IsHead(fat', c), IsHead(fat, c), c \notin HeldHeads
             PROVE  c \in Owners(disk', Safe', HeldHeads')
  BY DEF Owned
<1>1. c \in Heads(disk) \/ \E p \in Safe : First(disk, p) = c
  BY DEF Owned, Owners
<1>2. CASE c \in Heads(disk)
  BY <1>2 DEF Stay, Owners
<1>3. ASSUME NEW p \in Safe, First(disk, p) = c PROVE c \in Owners(disk', Safe', HeldHeads')
  <2>1. p \in Places(fat, disk) /\ p \notin AtRisk /\ c # 0
    BY Numbers DEF Safe
  <2>2. CASE p \in Q \cup AtRisk'
    BY <1>3, <2>1, <2>2
  <2>3. CASE p \notin Q \cup AtRisk'
    <3>1. p = <<p[1], p[2]>> /\ p[1] \in DirClusters(fat, disk) /\ p[2] \in 1 .. SLOTS /\ Named(disk[p[1]][p[2]])
      BY <2>1 DEF Places
    <3>2. disk'[p[1]][p[2]] = disk[p[1]][p[2]]
      BY <2>3, <3>1 DEF Stay
    <3>3. p[1] \in DirClusters(fat', disk')
      BY <3>1 DEF Stay, DirClusters
    <3>4. p \in Safe'
      BY <2>3, <3>1, <3>2, <3>3 DEF Safe, Places
    <3>5. First(disk', p) = c
      BY <1>3, <3>2 DEF First
    <3> QED BY <3>4, <3>5 DEF Owners
  <2> QED BY <2>2, <2>3
<1> QED BY <1>1, <1>2, <1>3

LEMMA BelowKept ==
    ASSUME NEW Q, Stay(Q), Heads(disk') = Heads(disk), \A p \in Q : disk[p[1]][p[2]].k # "dir",
           NEW M, NEW D, Below(fat, disk, M, D)
    PROVE  Below(fat', disk', M, D)
<1> SUFFICES ASSUME NEW S \in SUBSET Heads(disk), root_cluster \in S, M \subseteq S, DownClosed(fat', disk', S)
             PROVE  D \subseteq S
  BY DEF Below
<1>1. DownClosed(fat, disk, S)
  <2> SUFFICES ASSUME NEW d \in S, NEW x \in Reach(fat, d), NEW i \in 1 .. SLOTS,
                      Named(disk[x][i]), disk[x][i].k = "dir"
               PROVE  disk[x][i].first \in S
    BY DEF DownClosed
  <2>1. x \in DirClusters(fat, disk) /\ x \in Reach(fat', d)
    BY ReachFacts DEF Stay, DirClusters
  <2>2. <<x, i>> \notin Q
    <3>1. <<x, i>>[1] = x /\ <<x, i>>[2] = i
      OBVIOUS
    <3> QED BY <3>1
  <2>3. disk'[x][i] = disk[x][i]
    BY <2>1, <2>2 DEF Stay
  <2> QED BY <2>1, <2>3 DEF DownClosed
<1> QED BY <1>1 DEF Below

\* Most steps leave the tree of directories as it is.
LEMMA NoneKept ==
    ASSUME NoneLost, NEW Q, Stay(Q), Heads(disk') = Heads(disk), \A p \in Q : disk[p[1]][p[2]].k # "dir",
           \A p \in Q \cup AtRisk' :
              p \in AtRisk \/ First(disk, p) \in Owners(disk', Safe', HeldHeads') \cup {0},
           \A c \in Cluster : IsHead(fat', c) =>
              \/ c \in Owners(disk', Safe', HeldHeads')
              \/ IsHead(fat, c) /\ c \notin HeldHeads,
           HeldDir' = HeldDir, HeldDir # {} => job'.dir = job.dir
    PROVE  NoneLost'
<1>1. Owned(fat', disk', Safe', HeldHeads')
  BY OwnedKept DEF NoneLost
<1>2. Below(fat', disk', HeldDir', Heads(disk'))
  <2>1. Below(fat, disk, HeldDir, Heads(disk))
    BY DEF NoneLost
  <2>2. Below(fat', disk', HeldDir, Heads(disk))
    BY <2>1, BelowKept
  <2> QED BY <2>2
<1>3. ASSUME HeldDir' # {} PROVE Below(fat', disk', {}, {job'.dir})
  <2> DEFINE M == {}
             D == {job.dir}
  <2>1. Below(fat, disk, M, D) /\ job'.dir = job.dir
    BY <1>3 DEF NoneLost
  <2> HIDE DEF M, D
  <2>2. Below(fat', disk', M, D)
    BY <2>1, BelowKept
  <2> QED BY <2>1, <2>2 DEF M, D
<1> QED BY <1>1, <1>2, <1>3 DEF NoneLost

\* A step that writes nothing.
LEMMA QuietNone ==
    ASSUME NoneLost, fat' = fat, disk' = disk,
           \A p \in AtRisk' : p \in AtRisk \/ First(disk, p) \in HeldHeads' \cup {0},
           HeldHeads \subseteq HeldHeads', HeldDir' = HeldDir, HeldDir # {} => job'.dir = job.dir
    PROVE  NoneLost'
<1> DEFINE Q == {}
<1>1. Stay(Q) /\ Heads(disk') = Heads(disk) /\ \A p \in Q : disk[p[1]][p[2]].k # "dir"
  BY DEF Stay
<1>2. \A p \in Q \cup AtRisk' : p \in AtRisk \/ First(disk, p) \in Owners(disk', Safe', HeldHeads') \cup {0}
  BY DEF Owners
<1>3. \A c \in Cluster : IsHead(fat', c) =>
              \/ c \in Owners(disk', Safe', HeldHeads')
              \/ IsHead(fat, c) /\ c \notin HeldHeads
  BY DEF Owners
<1> HIDE DEF Q
<1> QED BY <1>1, <1>2, <1>3, NoneKept

\* Where the operation holds no directory.
LEMMA NotHeld ==
    ASSUME Good, job.pc \notin CreatePc \cup {"marklfn"} \/ job.op \in {"none", "read", "write", "delete", "cd"}
    PROVE  HeldDir = {}
<1>1. job.pc \in PcOf(job.op) /\ OpOK
  BY DEF Good, JobOK
<1>2. CASE job.pc \notin CreatePc \cup {"marklfn"}
  BY <1>2 DEF HeldDir, Pending
<1>3. CASE job.op = "write"
  <2>1. job.entry.k = "file"
    BY <1>1, <1>3 DEF OpOK
  <2> QED BY <2>1 DEF HeldDir
<1>4. CASE job.op \in {"none", "read", "delete", "cd"}
  <2>1. job.pc \notin CreatePc
    BY <1>1, <1>4, IdleFacts DEF PcOf, CreatePc
  <2> QED BY <1>4, <2>1 DEF HeldDir, Pending
<1> QED BY <1>2, <1>3, <1>4

LEMMA NoJobHeld ==
    ASSUME job' = NoJob
    PROVE  HeldDir' = {}
<1>1. job'.pc \notin CreatePc \cup {"marklfn"}
  BY IdleFacts DEF CreatePc
<1> QED BY <1>1 DEF HeldDir, Pending

LEMMA BeginNone ==
    ASSUME Good, NoneLost, Begin
    PROVE  NoneLost'
<1>1. fat' = fat /\ disk' = disk /\ job.op = "none"
  BY DEF Begin, fat32_read_file, fat32_write_file, fat32_delete_file, fat32_rename_file, fat32_mkdir,
         fat32_cd, cd_root, cd_dotdot, Start
<1>2. \/ job' = job
      \/ job'.pc \in {"alloc", "scan"}
  <2>1. \A op, p, e, n : Start(op, p, e, n) => job'.pc \in {"alloc", "scan"}
    <3> SUFFICES ASSUME NEW op, NEW p, NEW e, NEW n, Start(op, p, e, n) PROVE job'.pc \in {"alloc", "scan"}
      OBVIOUS
    <3> QED BY DEF Start, NoJob
  <2>2. cd_root \/ cd_dotdot => job' = job
    BY DEF cd_root, cd_dotdot
  <2> QED BY <2>1, <2>2 DEF Begin, fat32_read_file, fat32_write_file, fat32_delete_file, fat32_rename_file,
                            fat32_mkdir, fat32_cd
<1>3. job = NoJob /\ HeldDir = {}
  BY <1>1, NotHeld DEF Good, JobOK, OpOK
<1>4. HeldHeads = {}
  <2>1. job.pc \notin {"free", "marklfn"} \cup CreatePc \cup DataPc \cup FreshPc
    BY <1>3, IdleFacts DEF CreatePc, DataPc, FreshPc
  <2> QED BY <2>1 DEF HeldHeads, Pending, Partial
<1>5. AtRisk' \subseteq AtRisk /\ HeldDir' = {}
  <2>1. CASE job' = job
    <3>1. HeldDir' = {}
      BY <1>3, <2>1, NoJobHeld
    <3> QED BY <2>1, <3>1 DEF AtRisk
  <2>2. CASE job'.pc \in {"alloc", "scan"}
    <3>1. AtRisk' = {}
      BY <2>2 DEF AtRisk
    <3>2. job'.pc \notin CreatePc \cup {"marklfn"}
      BY <2>2 DEF CreatePc
    <3> QED BY <3>1, <3>2 DEF HeldDir, Pending
  <2> QED BY <1>2, <2>1, <2>2
<1> QED BY <1>1, <1>3, <1>4, <1>5, QuietNone

LEMMA ScanNone ==
    ASSUME Good, NoneLost, FaultsTyped, faults' = faults, Scan
    PROVE  NoneLost'
<1>1. /\ job.pc = "scan" /\ fat' = fat /\ disk' = disk
  BY DEF Scan, NoWrite
<1>2. /\ job \in Jobs /\ HeldHeads = {} /\ OpOK /\ Len(job.path) \in Nat \ {0}
      /\ job.op \in {"read", "write", "delete", "rename", "mkdir", "cd"}
  BY <1>1, ScanFacts
<1>3. HeldDir = {}
  <2>1. job.pc \notin CreatePc \cup {"marklfn"}
    BY <1>1 DEF CreatePc
  <2> QED BY <2>1, NotHeld
<1>4. ASSUME job'.pc \notin CreatePc \cup {"marklfn", "free", "mark"} PROVE NoneLost'
  <2>1. HeldDir' = {} /\ AtRisk' = {}
    BY <1>4 DEF HeldDir, Pending, AtRisk
  <2> QED BY <1>1, <1>2, <1>3, <2>1, QuietNone
<1>5. CASE job' = NoJob
  <2>1. job'.pc \notin CreatePc \cup {"marklfn", "free", "mark"}
    BY <1>5, IdleFacts DEF CreatePc
  <2> QED BY <1>4, <2>1
<1>6. CASE job.op = "write" /\ job' = AfterOld
  <2>1. job'.pc \in {"alloc", "seek"} /\ job'.entry = job.entry
    BY <1>2, <1>6 DEF AfterOld, ToCreate, Jobs
  <2>2. job.entry.k = "file"
    BY <1>2, <1>6 DEF OpOK
  <2>3. HeldDir' = {} /\ AtRisk' = {}
    BY <2>1, <2>2 DEF HeldDir, AtRisk
  <2> QED BY <1>1, <1>2, <1>3, <2>3, QuietNone
<1>7. CASE job' = Onward
  <2>1. job'.pc = "scan"
    BY <1>1, <1>2, <1>7 DEF Onward, Jobs
  <2> QED BY <1>4, <2>1 DEF CreatePc
<1>8. ASSUME NEW i \in 1 .. SLOTS, job.cl \in Cluster, FirstHit(job.cl, i), Found(i) PROVE NoneLost'
  <2> DEFINE e == disk[job.cl][i]
             at == [job EXCEPT !.idx = i, !.lfn = LfnBefore(job.cl, i)]
  <2>1. CASE job' = [job EXCEPT !.path = Tail(@), !.dir = Target(e), !.cl = Target(e), !.steps = 0, !.prev = 0,
                                !.pc = IF job.op = "mkdir" /\ Len(job.path) = 2 THEN "alloc" ELSE "scan"]
    <3>1. job'.pc \in {"alloc", "scan"}
      BY <1>2, <2>1 DEF Jobs
    <3> QED BY <1>4, <3>1 DEF CreatePc
  <2>2. CASE Len(job.path) = 1 /\ job.op \in {"write", "delete"}
    <3>1. job' = [at EXCEPT !.pc = IF e.first >= 2 THEN "free" ELSE "mark", !.new = e.first, !.steps = 0]
      BY <1>2, <1>8, <2>2 DEF Found
    <3>2. /\ job'.op = job.op /\ job'.cl = job.cl /\ job'.idx = i /\ job'.new = e.first
          /\ job'.pc = IF e.first >= 2 THEN "free" ELSE "mark"
      BY <1>2, <3>1 DEF Jobs
    <3>3. (e.first >= 2 => e.first \in Cluster) /\ (e.first \notin Cluster => e.first = 0)
      BY <1>1, <1>8, <2>2, HitFacts
    <3> HIDE DEF e
    <3>4. AtRisk' = {<<job.cl, i>>} /\ First(disk, <<job.cl, i>>) = e.first
      BY <2>2, <3>2 DEF AtRisk, First, e
    <3>5. HeldDir' = {}
      BY <3>2 DEF HeldDir, Pending, CreatePc
    <3>6. e.first \in HeldHeads' \cup {0}
      <4>1. CASE e.first \in Cluster
        <5>1. job'.pc = "free"
          BY <3>2, <4>1, Numbers
        <5> QED BY <3>2, <4>1, <5>1 DEF HeldHeads
      <4> QED BY <3>3, <4>1
    <3> QED BY <1>1, <1>2, <1>3, <3>4, <3>5, <3>6, QuietNone
  <2>3. CASE Len(job.path) = 1 /\ job.op = "rename"
    <3>1. job' = [at EXCEPT !.pc = "mark", !.entry = Entry(e.k, job.entry.name, e.first, e.size)]
      BY <1>2, <1>8, <2>3 DEF Found
    <3>2. job'.pc = "mark" /\ job'.op = "rename"
      BY <1>2, <2>3, <3>1 DEF Jobs
    <3>3. AtRisk' = {} /\ HeldDir' = {}
      BY <3>2 DEF AtRisk, HeldDir, Pending, CreatePc
    <3> QED BY <1>1, <1>2, <1>3, <3>3, QuietNone
  <2>4. CASE Len(job.path) = 1 /\ job.op = "read"
    <3>1. job' = [at EXCEPT !.pc = "read", !.new = e.first, !.left = e.size, !.steps = 0, !.lfn = {}]
      BY <1>2, <1>8, <2>4 DEF Found
    <3>2. job'.pc = "read"
      BY <1>2, <3>1 DEF Jobs
    <3> QED BY <1>4, <3>2 DEF CreatePc
  <2>5. CASE Len(job.path) = 1 /\ job.op \in {"cd", "mkdir"}
    <3>1. job' = NoJob
      BY <1>8, <2>5 DEF Found, Done
    <3> QED BY <1>5, <3>1
  <2> QED BY <1>2, <1>8, <2>1, <2>2, <2>3, <2>4, <2>5 DEF Found
<1>9. CASE NotFound
  BY <1>5, <1>6, <1>9 DEF NotFound
<1>10. ~WalkEnds => job.cl \in Cluster
  BY DEF WalkEnds
<1> QED BY <1>7, <1>8, <1>9, <1>10, NoFault DEF Scan

LEMMA ReadNone ==
    ASSUME Good, NoneLost, FaultsTyped, faults' = faults, Read
    PROVE  NoneLost'
<1>1. job.pc = "read" /\ fat' = fat /\ disk' = disk /\ job \in Jobs
  BY DEF Read, NoWrite, Good, JobOK
<1>2. HeldHeads = {} /\ HeldDir = {}
  <2>1. job.pc \notin {"free", "marklfn"} \cup CreatePc \cup DataPc \cup FreshPc
    BY <1>1 DEF CreatePc, DataPc, FreshPc
  <2> QED BY <2>1 DEF HeldHeads, HeldDir, Pending, Partial
<1>3. job'.pc = "read" \/ job' = NoJob
  BY <1>1 DEF Read, Done, Jobs
<1>4. job'.pc \notin CreatePc \cup {"marklfn", "free", "mark"}
  BY <1>3, IdleFacts DEF CreatePc
<1>5. HeldDir' = {} /\ AtRisk' = {}
  BY <1>4 DEF HeldDir, Pending, AtRisk
<1> QED BY <1>1, <1>2, <1>5, QuietNone

LEMMA FreeNone ==
    ASSUME Good, NoneLost, FaultsTyped, faults' = faults, FreeCluster
    PROVE  NoneLost'
<1> DEFINE a == job.new
           Q == {}
<1>1. job.pc = "free"
  BY DEF FreeCluster
<1>2. /\ job \in Jobs /\ FatOK(fat) /\ DirsOK(fat, disk, {}) /\ AtRisk = {<<job.cl, job.idx>>} /\ FreeOK
      /\ job.entry.first = 0 /\ EntriesOK(fat, disk, Safe, {a} \cap Cluster) /\ job.op \in {"write", "delete"}
  BY <1>1, FreeFacts
<1>3. HeldDir = {} /\ HeldHeads = {a} \cap Cluster
  <2>1. job.pc \notin CreatePc \cup DataPc \cup FreshPc \cup {"marklfn"}
    BY <1>1 DEF CreatePc, DataPc, FreshPc
  <2>2. ~Pending /\ ~Partial
    BY <2>1 DEF Pending, Partial
  <2> QED BY <1>1, <2>2 DEF HeldDir, HeldHeads
<1>4. a \in Cluster \cup {EOC} /\ (a \in Cluster => a \notin Heads(disk))
  BY <1>1, <1>2 DEF FreeOK
<1>5. CASE ~OnChain(a) \/ TooLong
  <2>1. fat' = fat /\ disk' = disk /\ job' = [job EXCEPT !.pc = "mark"]
    BY <1>5, NoFault DEF FreeCluster, NoWrite, Go
  <2>2. job'.pc = "mark" /\ job'.op = job.op /\ job'.cl = job.cl /\ job'.idx = job.idx
    BY <1>2, <2>1 DEF Jobs
  <2>3. AtRisk' = AtRisk /\ HeldDir' = {}
    BY <1>2, <2>2 DEF AtRisk, HeldDir, Pending, CreatePc
  <2>4. a \notin Cluster
    <3>1. CASE TooLong
      <4>1. job.steps >= NCLUSTERS /\ job.steps + Cardinality(Reach(fat, a)) <= NCLUSTERS /\ job.steps \in Nat
        BY <1>1, <1>2, <3>1 DEF TooLong, max_chain_length, FreeOK, Jobs
      <4>2. Cardinality(Reach(fat, a)) \in Nat /\ (a \in Cluster => Cardinality(Reach(fat, a)) >= 1) /\ NCLUSTERS \in Nat
        BY ReachFinite, Numbers
      <4> HIDE DEF a
      <4> QED BY <4>1, <4>2
    <3>2. CASE ~OnChain(a)
      BY <3>2, Numbers DEF OnChain
    <3> QED BY <1>5, <3>1, <3>2
  <2>5. HeldHeads = {}
    BY <1>3, <2>4
  <2> QED BY <1>3, <2>1, <2>3, <2>5, QuietNone
<1>6. CASE OnChain(a) /\ ~TooLong
  <2>1. a \in Cluster
    BY <1>4, <1>6, Numbers DEF OnChain
  <2>2. /\ \E ok \in BOOLEAN : WriteFat(a, FREE, ok)
        /\ job' = [job EXCEPT !.new = NextCluster(a), !.steps = @ + 1]
    BY <1>6, NoFault DEF FreeCluster
  <2>3. disk' = disk /\ Sets(fat, fat', a, FREE)
    BY <1>2, <2>1, <2>2, FatWritten
  <2>4. NextCluster(a) = fat[a]
    BY <2>1 DEF NextCluster
  <2>5. /\ job'.pc = "free" /\ job'.op = job.op /\ job'.cl = job.cl /\ job'.idx = job.idx
        /\ job'.new = fat[a]
    BY <1>1, <1>2, <2>2, <2>4 DEF Jobs
  <2> HIDE DEF a, Q
  <2>6. AtRisk' = AtRisk /\ HeldDir' = {} /\ {fat[a]} \cap Cluster \subseteq HeldHeads'
    BY <1>2, <2>5 DEF AtRisk, HeldDir, Pending, CreatePc, HeldHeads
  <2>7. IsHead(fat, a)
    BY <1>2, <2>1 DEF EntriesOK
  <2>8. \A c : IsHead(fat, c) /\ c # a => Reach(fat', c) = Reach(fat, c)
    BY <1>2, <2>3, <2>7, FreeKeeps
  <2>9. Stay(Q) /\ Heads(disk') = Heads(disk) /\ \A p \in Q : disk[p[1]][p[2]].k # "dir"
    <3>1. \A d \in Heads(disk) : Reach(fat', d) = Reach(fat, d)
      BY <1>2, <1>4, <2>1, <2>8, HeadFacts
    <3> QED BY <2>3, <3>1 DEF Stay, Q
  <2>10. \A p \in Q \cup AtRisk' : p \in AtRisk \/ First(disk, p) \in Owners(disk', Safe', HeldHeads') \cup {0}
    BY <2>6 DEF Q
  <2>11. ASSUME NEW c \in Cluster, IsHead(fat', c)
         PROVE  c \in Owners(disk', Safe', HeldHeads') \/ (IsHead(fat, c) /\ c \notin HeldHeads)
    <3>1. (IsHead(fat, c) /\ c # a) \/ c = fat[a]
      BY <1>2, <2>1, <2>3, <2>11, NewHeads
    <3> QED BY <1>3, <2>6, <3>1 DEF Owners
  <2> QED BY <1>3, <2>6, <2>9, <2>10, <2>11, NoneKept
<1> QED BY <1>5, <1>6

\* A cluster is taken from the free ones.
LEMMA AllocNone ==
    ASSUME Good, NoneLost, FaultsTyped, faults' = faults, Unzeroed = {}, NEW c \in Cluster, Allocated(c, 0),
           WriteFat(c, EOC, TRUE), AtRisk' = {}, HeldHeads \cup {c} \subseteq HeldHeads',
           HeldDir' = HeldDir, HeldDir # {} => job'.dir = job.dir
    PROVE  NoneLost'
<1> DEFINE Q == {}
<1>1. /\ disk' = disk /\ fat[c] = FREE /\ FatOK(fat) /\ \A d \in Heads(disk) : Reach(fat', d) = Reach(fat, d)
  BY AllocFacts DEF Good
<1>2. Stay(Q) /\ Heads(disk') = Heads(disk) /\ \A p \in Q : disk[p[1]][p[2]].k # "dir"
  BY <1>1 DEF Stay
<1>3. \A p \in Q \cup AtRisk' : p \in AtRisk \/ First(disk, p) \in Owners(disk', Safe', HeldHeads') \cup {0}
  OBVIOUS
<1>4. ASSUME NEW h \in Cluster, IsHead(fat', h)
      PROVE  h \in Owners(disk', Safe', HeldHeads') \/ (IsHead(fat, h) /\ h \notin HeldHeads)
  <2>1. EOC \in Cluster \cup {FREE, EOC} /\ TRUE \in BOOLEAN
    OBVIOUS
  <2>2. Sets(fat, fat', c, EOC)
    BY <1>1, <2>1, FatWritten
  <2>3. h = c \/ IsHead(fat, h)
    BY <1>1, <1>4, <2>1, <2>2, NewHeads
  <2> QED BY <2>3 DEF Owners
<1> HIDE DEF Q
<1> QED BY <1>2, <1>3, <1>4, NoneKept

LEMMA AllocTaken ==
    ASSUME FaultsTyped, faults' = faults, ~full', NEW pc, Alloc(pc)
    PROVE  \E c \in Cluster : /\ Allocated(c, 0) /\ WriteFat(c, EOC, TRUE)
                              /\ job' = [job EXCEPT !.new = c, !.pc = pc]
BY NoFault DEF Alloc

LEMMA AllocDataNone ==
    ASSUME Good, NoneLost, FaultsTyped, faults' = faults, ~full', AllocData
    PROVE  NoneLost'
<1> DEFINE next == IF job.op = "mkdir" THEN "dots" ELSE "link"
<1>1. job.pc = "alloc" /\ job \in Jobs /\ job.pc \in PcOf(job.op)
  BY DEF AllocData, Good, JobOK
<1>2. job.op \in {"write", "mkdir"}
  BY <1>1, IdleFacts DEF PcOf, Jobs, DataPc, CreatePc
<1>3. PICK c \in Cluster : Allocated(c, 0) /\ WriteFat(c, EOC, TRUE) /\ job' = [job EXCEPT !.new = c, !.pc = next]
  BY AllocTaken DEF AllocData
<1>4. job'.pc = next /\ job'.op = job.op /\ job'.new = c /\ job'.entry = job.entry
  BY <1>1, <1>3 DEF Jobs
<1>5. HeldDir = {} /\ HeldDir' = {} /\ AtRisk' = {} /\ Unzeroed = {}
  BY <1>1, <1>4 DEF HeldDir, Pending, CreatePc, AtRisk, Unzeroed
<1>6. HeldHeads \cup {c} \subseteq HeldHeads'
  BY <1>1, <1>2, <1>4 DEF HeldHeads, Pending, Partial, CreatePc, FreshPc, DataPc
<1> QED BY <1>3, <1>5, <1>6, AllocNone

LEMMA GrowNone ==
    ASSUME Good, NoneLost, FaultsTyped, faults' = faults, ~full', Grow \/ Extend
    PROVE  NoneLost'
<1>1. PICK pc \in {"zero", "hookfirst"} : Alloc(pc) /\ job.pc \in {"grow", "extend"}
  BY DEF Grow, Extend
<1>2. PICK c \in Cluster : Allocated(c, 0) /\ WriteFat(c, EOC, TRUE) /\ job' = [job EXCEPT !.new = c, !.pc = pc]
  BY <1>1, AllocTaken
<1>3. job \in Jobs
  BY DEF Good, JobOK
<1>4. job'.pc = pc /\ job'.op = job.op /\ job'.new = c /\ job'.entry = job.entry /\ job'.dir = job.dir
  BY <1>2, <1>3 DEF Jobs
<1>5. Pending /\ Pending' /\ ~Partial
  BY <1>1, <1>4 DEF Pending, Partial, CreatePc, DataPc
<1>6. HeldDir' = HeldDir /\ AtRisk' = {} /\ Unzeroed = {}
  BY <1>1, <1>4, <1>5 DEF HeldDir, AtRisk, Unzeroed
<1>7. HeldHeads \cup {c} \subseteq HeldHeads'
  BY <1>1, <1>4, <1>5 DEF HeldHeads, FreshPc
<1> QED BY <1>2, <1>4, <1>6, <1>7, AllocNone

\* A new cluster is linked behind the last one of a chain.
LEMMA LinkNone ==
    ASSUME Good, NoneLost, FaultsTyped, faults' = faults, NEW a \in Cluster, fat[a] = EOC, job.pc \in FreshPc,
           a # job.new, NEW ok \in BOOLEAN, WriteFat(a, job.new, ok),
           AtRisk' = {}, HeldHeads \ {job.new} \subseteq HeldHeads',
           HeldDir' = HeldDir, HeldDir # {} => job'.dir = job.dir
    PROVE  NoneLost'
<1> DEFINE b == job.new
           Q == {}
<1>1. FatOK(fat) /\ EntriesOK(fat, disk, Safe, HeldHeads) /\ b \in Cluster /\ fat[b] = EOC
  BY DEF Good, JobOK, Fresh
<1>2. IsHead(fat, b)
  <2>1. b \in HeldHeads
    BY <1>1 DEF HeldHeads
  <2> QED BY <1>1, <2>1 DEF EntriesOK
<1> HIDE DEF b
<1>3. disk' = disk /\ Sets(fat, fat', a, b)
  <2>1. b \in Cluster \cup {FREE, EOC} /\ WriteFat(a, b, ok)
    BY <1>1 DEF b
  <2> QED BY <1>1, <2>1, FatWritten
<1>4. \A c : Reach(fat, c) \subseteq Reach(fat', c)
  <2>1. a # b
    BY DEF b
  <2>2. \A c : Reach(fat', c) = IF a \in Reach(fat, c) THEN Reach(fat, c) \cup {b} ELSE Reach(fat, c)
    BY ONLY <1>1, <1>2, <1>3, <2>1, fat[a] = EOC, a \in Cluster, LinkKeeps
  <2> QED BY <2>2
<1>5. Stay(Q) /\ Heads(disk') = Heads(disk) /\ \A p \in Q : disk[p[1]][p[2]].k # "dir"
  BY <1>3, <1>4 DEF Stay
<1>6. \A p \in Q \cup AtRisk' : p \in AtRisk \/ First(disk, p) \in Owners(disk', Safe', HeldHeads') \cup {0}
  OBVIOUS
<1>7. ASSUME NEW h \in Cluster, IsHead(fat', h)
      PROVE  h \in Owners(disk', Safe', HeldHeads') \/ (IsHead(fat, h) /\ h \notin HeldHeads)
  <2>1. b \in Cluster \cup {FREE, EOC}
    BY <1>1
  <2>2. IsHead(fat, h) /\ h # b
    BY <1>1, <1>3, <1>7, <2>1, NewHeads
  <2> QED BY <2>2 DEF Owners, b
<1> HIDE DEF Q
<1> QED BY <1>5, <1>6, <1>7, NoneKept

\* A cluster that is no directory's, or holds no entries, is overwritten.
LEMMA WriteNone ==
    ASSUME Good, NoneLost, FaultsTyped, faults' = faults, NEW x \in Cluster,
           x \notin DirClusters(fat, disk) \/ Blank(disk[x]), NEW s, Blank(s), NEW ok \in BOOLEAN,
           WriteCluster(x, s, ok), AtRisk' = {}, HeldHeads \subseteq HeldHeads',
           HeldDir' = HeldDir, HeldDir # {} => job'.dir = job.dir
    PROVE  NoneLost'
<1> DEFINE Q == {}
<1>1. FatOK(fat) /\ DirsOK(fat, disk, Unzeroed) /\ DOMAIN disk = Cluster
  BY DEF Good, DirsOK
<1>2. fat' = fat /\ Writes(disk, disk', x, s)
  BY <1>1, ClusterWritten
<1>3. Heads(disk') = Heads(disk)
  <2>1. x \notin Heads(disk) \/ Blank(disk[x])
    BY <1>1, HeadFacts
  <2> QED BY <1>2, <2>1, BlankWrite
<1>4. Stay(Q) /\ \A p \in Q : disk[p[1]][p[2]].k # "dir"
  <2> SUFFICES ASSUME NEW y \in DirClusters(fat, disk), NEW i \in 1 .. SLOTS, Named(disk[y][i])
               PROVE  disk'[y][i] = disk[y][i]
    BY <1>2, <1>3 DEF Stay
  <2>1. y # x
    BY BlankFacts
  <2>2. y \in Cluster
    BY DEF DirClusters
  <2> QED BY <1>2, <2>1, <2>2 DEF Writes
<1>5. \A p \in Q \cup AtRisk' : p \in AtRisk \/ First(disk, p) \in Owners(disk', Safe', HeldHeads') \cup {0}
  OBVIOUS
<1>6. \A c \in Cluster : IsHead(fat', c) =>
         c \in Owners(disk', Safe', HeldHeads') \/ (IsHead(fat, c) /\ c \notin HeldHeads)
  BY <1>2 DEF Owners
<1> HIDE DEF Q
<1> QED BY <1>3, <1>4, <1>5, <1>6, NoneKept

LEMMA LinkDataNone ==
    ASSUME Good, NoneLost, FaultsTyped, faults' = faults, LinkData
    PROVE  NoneLost'
<1>1. job.pc = "link" /\ job \in Jobs /\ job.pc \in PcOf(job.op) /\ WriteOK /\ Fresh(job.new)
  BY DEF LinkData, Good, JobOK, FreshPc
<1>2. job.op = "write"
  BY <1>1, IdleFacts DEF PcOf, Jobs, DataPc, CreatePc
<1>3. HeldDir = {} /\ AtRisk = {} /\ Partial /\ ~Pending /\ HeldHeads = {job.entry.first, job.new} \cap Cluster
  BY <1>1, <1>2 DEF HeldDir, AtRisk, HeldHeads, Pending, Partial, CreatePc, DataPc, FreshPc
<1>4. ASSUME job'.pc = "data", job'.op = job.op
      PROVE  HeldDir' = {} /\ AtRisk' = {} /\ HeldHeads' = {job'.entry.first} \cap Cluster
  BY <1>2, <1>4 DEF HeldDir, AtRisk, HeldHeads, Pending, Partial, CreatePc, DataPc, FreshPc
<1>5. CASE job.prev = 0
  <2>1. fat' = fat /\ disk' = disk /\ job' = [job EXCEPT !.entry.first = job.new, !.pc = "data"]
    BY <1>5 DEF LinkData, NoWrite
  <2>2. job'.pc = "data" /\ job'.op = job.op /\ job'.entry.first = job.new
    BY <1>1, <2>1 DEF Jobs, Slots
  <2>3. job.entry.first = 0
    BY <1>1, <1>3, <1>5 DEF WriteOK
  <2>4. HeldHeads \subseteq HeldHeads'
    BY <1>3, <1>4, <2>2, <2>3, Numbers
  <2> QED BY <1>3, <1>4, <2>1, <2>2, <2>4, QuietNone
<1>6. CASE job.prev # 0
  <2>1. PICK ok \in BOOLEAN : WriteFat(job.prev, job.new, ok)
    BY <1>6 DEF LinkData
  <2>2. job' = [job EXCEPT !.pc = "data"]
    BY <1>6 DEF LinkData, Go
  <2>3. job'.pc = "data" /\ job'.op = job.op /\ job'.entry = job.entry
    BY <1>1, <2>2 DEF Jobs
  <2>4. IsHead(fat, job.entry.first) /\ job.prev \in Reach(fat, job.entry.first) /\ fat[job.prev] = EOC
    BY <1>1, <1>3, <1>6 DEF WriteOK, PartOK
  <2>5. job.prev \in Cluster
    BY <2>4, ReachFacts
  <2>6. job.prev # job.new
    <3>1. job.new \in HeldHeads /\ job.new # job.entry.first
      BY <1>1, <1>3 DEF Fresh
    <3>2. IsHead(fat, job.new)
      BY <3>1 DEF Good, EntriesOK
    <3> QED BY <2>4, <3>1, <3>2, HeadApart
  <2>7. HeldHeads \ {job.new} \subseteq HeldHeads'
    BY <1>3, <1>4, <2>3
  <2>8. job.pc \in FreshPc
    BY <1>1 DEF FreshPc
  <2> QED BY <1>3, <1>4, <2>1, <2>3, <2>4, <2>5, <2>6, <2>7, <2>8, LinkNone
<1> QED BY <1>5, <1>6

LEMMA WriteDataNone ==
    ASSUME Good, NoneLost, FaultsTyped, faults' = faults, WriteData
    PROVE  NoneLost'
<1>1. job.pc = "data" /\ job \in Jobs /\ job.pc \in PcOf(job.op) /\ WriteOK
  BY DEF WriteData, Good, JobOK
<1>2. job.op = "write"
  BY <1>1, IdleFacts DEF PcOf, Jobs, DataPc, CreatePc
<1>3. HeldDir = {} /\ AtRisk = {} /\ Partial /\ ~Pending /\ HeldHeads = {job.entry.first} \cap Cluster
  BY <1>1, <1>2 DEF HeldDir, AtRisk, HeldHeads, Pending, Partial, CreatePc, DataPc, FreshPc
<1>4. /\ WriteCluster(job.new, FileData, TRUE)
      /\ job' = IF job.left = 1 THEN ToCreate([job EXCEPT !.left = 0])
                ELSE [job EXCEPT !.left = @ - 1, !.prev = job.new, !.pc = "alloc"]
  BY NoFault DEF WriteData, WriteCluster, Written
<1>5. job'.pc \in {"alloc", "seek"} /\ job'.op = job.op /\ job'.entry = job.entry
  <2>1. CASE job.left = 1
    BY <1>1, <1>4, <2>1 DEF ToCreate, Jobs
  <2>2. CASE job.left # 1
    <3> DEFINE n == job.left - 1
    <3> HIDE DEF n
    <3>1. job' = [job EXCEPT !.left = n, !.prev = job.new, !.pc = "alloc"]
      BY <1>4, <2>2 DEF n
    <3> QED BY <1>1, <3>1 DEF Jobs
  <2> QED BY <2>1, <2>2
<1>6. job.entry.k = "file"
  BY <1>2 DEF Good, JobOK, OpOK
<1>7. HeldDir' = {} /\ AtRisk' = {}
  BY <1>5, <1>6 DEF HeldDir, AtRisk
<1>8. HeldHeads \subseteq HeldHeads'
  BY <1>2, <1>3, <1>5 DEF HeldHeads, Pending, Partial, CreatePc, DataPc
<1>9. /\ IsHead(fat, job.entry.first) /\ job.entry.first \notin Heads(disk)
      /\ job.new \in Reach(fat, job.entry.first)
  BY <1>1, <1>3 DEF WriteOK, PartOK
<1>10. job.new \in Cluster /\ job.new \notin DirClusters(fat, disk)
  <2>1. Reach(fat, job.entry.first) \cap DirClusters(fat, disk) = {}
    BY <1>9, HeadFacts DEF Good
  <2> QED BY <1>9, <2>1, ReachFacts
<1>11. Blank(FileData) /\ TRUE \in BOOLEAN
  BY DEF Blank
<1> QED BY <1>3, <1>4, <1>7, <1>8, <1>10, <1>11, WriteNone

\* The steps of dir_write_entries hold the entry until it is written.
LEMMA CreateHeld ==
    ASSUME Good, job.pc \in CreatePc, job'.pc \in CreatePc, job'.entry = job.entry, job'.dir = job.dir
    PROVE  /\ AtRisk' = {} /\ HeldDir' = HeldDir
           /\ HeldHeads \ {job.new} \subseteq HeldHeads'
           /\ job.pc \notin FreshPc \/ (job'.pc \in FreshPc /\ job'.new = job.new) => HeldHeads \subseteq HeldHeads'
<1>1. Pending /\ Pending' /\ AtRisk' = {}
  BY DEF Pending, AtRisk, CreatePc
<1>2. HeldDir' = HeldDir
  BY <1>1 DEF HeldDir
<1>3. HeldHeads = {c \in Cluster : c = job.entry.first \/ (job.pc \in FreshPc /\ c = job.new)}
  BY CreateFacts
<1>4. {job.entry.first} \cap Cluster \subseteq HeldHeads' /\ (job'.pc \in FreshPc => {job'.new} \cap Cluster \subseteq HeldHeads')
  BY <1>1 DEF HeldHeads
<1> QED BY <1>1, <1>2, <1>3, <1>4

LEMMA SeekNone ==
    ASSUME Good, NoneLost, FaultsTyped, faults' = faults, SeekRoom \/ NextDirCluster
    PROVE  NoneLost'
<1>1. job.pc \in {"seek", "next"} /\ fat' = fat /\ disk' = disk /\ job \in Jobs
  BY DEF SeekRoom, NextDirCluster, NoWrite, Good, JobOK
<1>2. job'.pc \in {"seek", "put", "grow", "extend"} /\ job'.entry = job.entry /\ job'.dir = job.dir
  <2>1. CASE NextDirCluster
    <3>1. \/ job' = [job EXCEPT !.cl = NextCluster(job.cl), !.idx = 1, !.pc = "put"]
          \/ job' = [job EXCEPT !.pc = "extend"]
      BY <2>1 DEF NextDirCluster, Go
    <3> QED BY <1>1, <3>1 DEF Jobs
  <2>2. CASE SeekRoom
    <3>1. \/ \E i \in 1 .. SLOTS : job' = [job EXCEPT !.idx = i, !.pc = "put"]
          \/ job' = Onward /\ job.pc = "seek"
          \/ job' = [job EXCEPT !.pc = "grow"]
      BY <2>2, NoFault DEF SeekRoom, Go
    <3>2. CASE \E i \in 1 .. SLOTS : job' = [job EXCEPT !.idx = i, !.pc = "put"]
      BY <1>1, <3>2 DEF Jobs
    <3>3. CASE job' = Onward /\ job.pc = "seek"
      <4> DEFINE n == job.steps + 1
      <4> HIDE DEF n
      <4>1. job' = [job EXCEPT !.prev = job.cl, !.cl = NextCluster(job.cl), !.steps = n]
        BY <3>3 DEF Onward, n
      <4> QED BY <1>1, <3>3, <4>1 DEF Jobs
    <3>4. CASE job' = [job EXCEPT !.pc = "grow"]
      BY <1>1, <3>4 DEF Jobs
    <3> QED BY <3>1, <3>2, <3>3, <3>4
  <2> QED BY <2>1, <2>2
<1>3. job.pc \in CreatePc /\ job.pc \notin FreshPc /\ job'.pc \in CreatePc
  BY <1>1, <1>2 DEF CreatePc, FreshPc
<1>4. AtRisk' = {} /\ HeldDir' = HeldDir /\ HeldHeads \subseteq HeldHeads'
  BY <1>2, <1>3, CreateHeld
<1> QED BY <1>1, <1>2, <1>4, QuietNone

LEMMA ZeroClusterNone ==
    ASSUME Good, NoneLost, FaultsTyped, faults' = faults, ZeroCluster
    PROVE  NoneLost'
<1>1. job.pc = "zero" /\ job' = [job EXCEPT !.pc = "hook"] /\ job \in Jobs
  BY DEF ZeroCluster, Go, Good, JobOK
<1>2. PICK ok \in BOOLEAN : WriteCluster(job.new, Zeroed, ok)
  BY DEF ZeroCluster
<1>3. job'.pc = "hook" /\ job'.entry = job.entry /\ job'.dir = job.dir /\ job'.new = job.new
  BY <1>1 DEF Jobs
<1>4. {job.pc, job'.pc} \subseteq CreatePc \cap FreshPc
  BY <1>1, <1>3 DEF CreatePc, FreshPc
<1>5. AtRisk' = {} /\ HeldDir' = HeldDir /\ HeldHeads \subseteq HeldHeads'
  BY <1>3, <1>4, CreateHeld
<1>6. job.new \in Cluster /\ Blank(disk[job.new])
  BY <1>4 DEF Good, JobOK, Fresh
<1>7. Blank(Zeroed)
  BY DEF Blank
<1> QED BY <1>2, <1>3, <1>5, <1>6, <1>7, WriteNone

LEMMA ZeroLastNone ==
    ASSUME Good, NoneLost, FaultsTyped, faults' = faults, ZeroLast
    PROVE  NoneLost'
<1>1. job.pc = "zerolast" /\ job' = [job EXCEPT !.cl = job.new, !.idx = 1, !.pc = "putnew"] /\ job \in Jobs
  BY DEF ZeroLast, Good, JobOK
<1>2. PICK ok \in BOOLEAN : WriteCluster(job.new, Zeroed, ok)
  BY DEF ZeroLast
<1>3. job'.pc = "putnew" /\ job'.entry = job.entry /\ job'.dir = job.dir
  BY <1>1 DEF Jobs
<1>4. job.pc \in CreatePc /\ job.pc \notin FreshPc /\ job'.pc \in CreatePc
  BY <1>1, <1>3 DEF CreatePc, FreshPc
<1>5. AtRisk' = {} /\ HeldDir' = HeldDir /\ HeldHeads \subseteq HeldHeads'
  BY <1>3, <1>4, CreateHeld
<1>6. job.new \in Cluster /\ Blank(disk[job.new])
  <2>1. /\ FatOK(fat) /\ DirsOK(fat, disk, Unzeroed) /\ job.dir \in Heads(disk) /\ CreateOK
    BY <1>4, CreateFacts
  <2>2. job.new \in Reach(fat, job.dir)
    BY <1>1, <1>4, <2>1 DEF CreateOK, LastOf
  <2>3. job.new \in DirClusters(fat, disk) /\ job.new \in Cluster
    BY <2>1, <2>2, HeadFacts
  <2>4. job.new \in Unzeroed
    BY <1>1 DEF Unzeroed
  <2> QED BY <2>1, <2>3, <2>4 DEF DirsOK
<1>7. Blank(Zeroed)
  BY DEF Blank
<1> QED BY <1>2, <1>3, <1>5, <1>6, <1>7, WriteNone

LEMMA HookNone ==
    ASSUME Good, NoneLost, FaultsTyped, faults' = faults, HookCluster \/ HookFirst
    PROVE  NoneLost'
<1> DEFINE a == IF job.pc = "hook" THEN job.prev ELSE job.cl
<1>1. job.pc \in {"hook", "hookfirst"} /\ job \in Jobs
  BY DEF HookCluster, HookFirst, Good, JobOK
<1>2. job.pc \in CreatePc \cap FreshPc
  BY <1>1 DEF CreatePc, FreshPc
<1>3. LastOf(a)
  BY <1>1, <1>2, CreateFacts DEF CreateOK
<1>4. a \in Cluster /\ fat[a] = EOC /\ a \in Reach(fat, job.dir) /\ a # 0
  BY <1>3, ReachFacts, Numbers DEF LastOf
<1>5. PICK ok \in BOOLEAN : WriteFat(a, job.new, ok)
  <2>1. CASE HookCluster
    <3>1. job.pc = "hook" /\ a = job.prev
      BY <2>1 DEF HookCluster
    <3> QED BY <1>4, <2>1, <3>1 DEF HookCluster
  <2>2. CASE HookFirst
    <3>1. job.pc = "hookfirst" /\ a = job.cl
      BY <2>2 DEF HookFirst
    <3> QED BY <2>2, <3>1 DEF HookFirst
  <2> QED BY <2>1, <2>2
<1>6. job'.pc \in {"put", "zerolast"} /\ job'.entry = job.entry /\ job'.dir = job.dir
  <2>1. \/ job' = [job EXCEPT !.cl = job.new, !.idx = 1, !.pc = "put"]
        \/ job' = [job EXCEPT !.pc = "zerolast"]
    BY DEF HookCluster, HookFirst, Go
  <2> QED BY <1>1, <2>1 DEF Jobs
<1> HIDE DEF a
<1>7. job'.pc \in CreatePc
  BY <1>6 DEF CreatePc
<1>8. AtRisk' = {} /\ HeldDir' = HeldDir /\ HeldHeads \ {job.new} \subseteq HeldHeads'
  BY <1>2, <1>6, <1>7, CreateHeld
<1>9. a # job.new
  <2>1. /\ FatOK(fat) /\ DirsOK(fat, disk, Unzeroed) /\ job.dir \in Heads(disk) /\ Fresh(job.new)
        /\ EntriesOK(fat, disk, Safe, HeldHeads)
        /\ HeldHeads = {c \in Cluster : c = job.entry.first \/ (job.pc \in FreshPc /\ c = job.new)}
    BY <1>2, CreateFacts
  <2>2. job.new \in HeldHeads /\ job.new \notin Heads(disk)
    <3>1. job.new \in Cluster /\ Blank(disk[job.new]) /\ job.new # root_cluster
      BY <2>1 DEF Fresh
    <3> QED BY <1>2, <2>1, <3>1, BlankNoHead
  <2>3. IsHead(fat, job.new) /\ job.new # job.dir
    BY <2>1, <2>2 DEF EntriesOK
  <2> QED BY <1>4, <2>3, HeadApart
<1>10. job.pc \in FreshPc
  BY <1>2
<1> QED BY <1>4, <1>5, <1>6, <1>8, <1>9, <1>10, LinkNone

\* A rename holds the entry's chain from one name to the other.
LEMMA AfterOldHeld ==
    ASSUME job \in Jobs, job' = AfterOld, job.op \in {"write", "rename", "delete"},
           job.op = "write" => job.entry.k = "file"
    PROVE  /\ HeldDir' = IF job.op = "rename" /\ job.entry.k = "dir" THEN {job.entry.first} ELSE {}
           /\ job.op = "rename" => job'.dir = job.dir
<1>1. CASE job.op = "delete"
  <2>1. job' = NoJob
    BY <1>1 DEF AfterOld
  <2> QED BY <1>1, <2>1, NoJobHeld
<1>2. CASE job.op = "write"
  <2>1. job' = [job EXCEPT !.pc = "alloc", !.prev = 0, !.new = 0, !.idx = 0, !.lfn = {}, !.cl = 0, !.steps = 0]
        \/ job' = ToCreate(job)
    BY <1>2 DEF AfterOld
  <2>2. job'.entry = job.entry
    BY <2>1 DEF ToCreate, Jobs
  <2> QED BY <1>2, <2>2 DEF HeldDir
<1>3. CASE job.op = "rename"
  <2>1. job' = ToCreate(job)
    BY <1>3 DEF AfterOld
  <2>2. job'.pc = "seek" /\ job'.entry = job.entry /\ job'.dir = job.dir
    BY <2>1 DEF ToCreate, Jobs
  <2>3. Pending'
    BY <2>2 DEF Pending, CreatePc
  <2> QED BY <1>3, <2>2, <2>3 DEF HeldDir
<1> QED BY <1>1, <1>2, <1>3

\* Slots of a directory are deleted: the entries that stay are as they were.
LEMMA DeleteStays ==
    ASSUME Good, NEW x \in DirClusters(fat, disk), NEW I,
           \A i \in 1 .. SLOTS : i \in I => disk[x][i].k # "end" /\ ~Dot(disk[x][i]),
           Unzeroed = {}, fat' = fat, Writes(disk, disk', x, Deleted(x, I)),
           NEW Q, \A i \in 1 .. SLOTS : i \in I /\ Named(disk[x][i]) => <<x, i>> \in Q
    PROVE  Stay(Q) /\ Heads(disk') = Heads(disk)
<1>1. FatOK(fat) /\ DirsOK(fat, disk, {})
  BY DEF Good
<1>2. Heads(disk') = Heads(disk)
  BY <1>1, DeleteSlots
<1> SUFFICES ASSUME NEW y \in DirClusters(fat, disk), NEW i \in 1 .. SLOTS, Named(disk[y][i]), <<y, i>> \notin Q
             PROVE  disk'[y][i] = disk[y][i]
  BY <1>2 DEF Stay
<1>3. y \in Cluster /\ (y = x => i \notin I)
  BY DEF DirClusters
<1>4. y # x => disk'[y] = disk[y]
  BY <1>3 DEF Writes
<1>5. y = x => disk'[y][i] = Deleted(x, I)[i]
  BY DEF Writes
<1>6. i \notin I => Deleted(x, I)[i] = disk[x][i]
  BY DeletedFacts
<1> QED BY <1>3, <1>4, <1>5, <1>6

LEMMA MarkLfnNone ==
    ASSUME Good, NoneLost, FaultsTyped, faults' = faults, MarkLfnDeleted
    PROVE  NoneLost'
<1> DEFINE x == job.prev
           I == job.lfn
           Q == {}
<1>1. job.pc = "marklfn" /\ job' = AfterOld /\ \E ok \in BOOLEAN : WriteCluster(x, Deleted(x, I), ok)
  BY NoFault DEF MarkLfnDeleted
<1>2. job \in Jobs /\ job.pc \in PcOf(job.op) /\ OpOK /\ LfnOK
  BY <1>1 DEF Good, JobOK
<1>3. job.op \in {"write", "rename", "delete"}
  BY <1>1, <1>2, IdleFacts DEF PcOf, Jobs, DataPc, CreatePc
<1>4. job.op = "write" => job.entry.k = "file"
  BY <1>2 DEF OpOK
<1>5. HeldDir = IF job.op = "rename" /\ job.entry.k = "dir" THEN {job.entry.first} ELSE {}
  BY <1>1 DEF HeldDir, Pending, CreatePc
<1>6. /\ HeldDir' = IF job.op = "rename" /\ job.entry.k = "dir" THEN {job.entry.first} ELSE {}
      /\ job.op = "rename" => job'.dir = job.dir
  BY <1>1, <1>2, <1>3, <1>4, AfterOldHeld
<1>7. HeldDir' = HeldDir /\ (HeldDir # {} => job'.dir = job.dir)
  BY <1>5, <1>6
<1>8. Unzeroed = {} /\ FatOK(fat) /\ DirsOK(fat, disk, {}) /\ DOMAIN disk = Cluster
  <2>1. Unzeroed = {}
    BY <1>1 DEF Unzeroed
  <2> QED BY <2>1 DEF Good, DirsOK
<1>9. /\ x \in DirClusters(fat, disk) /\ x \in Cluster
      /\ \A i \in I \cap (1 .. SLOTS) : disk[x][i].k \in {"lfn", "del"}
  BY <1>1, <1>2, <1>8, HeadFacts DEF LfnOK
<1>10. HeldHeads = IF job.op = "rename" THEN {job.entry.first} \cap Cluster ELSE {}
  BY <1>1 DEF HeldHeads, Pending, Partial, CreatePc, FreshPc, DataPc
<1> HIDE DEF x, I
<1>11. \A i \in 1 .. SLOTS : i \in I => disk[x][i].k # "end" /\ ~Dot(disk[x][i]) /\ ~Named(disk[x][i])
  BY <1>9 DEF Dot, Named
<1>12. fat' = fat /\ Writes(disk, disk', x, Deleted(x, I))
  BY <1>1, <1>8, <1>9, ClusterWritten
<1>13. \A p \in Q : disk[p[1]][p[2]].k # "dir"
  OBVIOUS
<1> HIDE DEF Q
<1>14. Stay(Q) /\ Heads(disk') = Heads(disk)
  BY <1>8, <1>9, <1>11, <1>12, DeleteStays
<1>15. AtRisk' = {} /\ HeldHeads' = HeldHeads
  <2>1. /\ job.op \in {"write", "rename"} => job.entry.name \in PlainNames
        /\ job.op = "write" => job.entry.k = "file" /\ job.entry.first = 0 /\ job.entry.size = job.left
    BY <1>1, <1>2 DEF OpOK
  <2>2. job.dir \in Heads(disk')
    BY <1>2, <1>3, <1>14 DEF OpOK
  <2>3. job.op = "rename" => EntryOK(fat', disk', job.entry)
    <3>1. job.op = "rename" => EntryOK(fat, disk, job.entry)
      BY <1>1 DEF Good, JobOK, Pending
    <3>2. \A e : EntryOK(fat, disk, e) => EntryOK(fat, disk', e)
      BY <1>8, <1>9, <1>11, <1>12, DeleteSlots
    <3> QED BY <1>12, <3>1, <3>2
  <2>4. AtRisk' = {} /\ HeldHeads' = IF job.op = "rename" THEN {job.entry.first} \cap Cluster ELSE {}
    <3>1. job' = AfterOld
      BY <1>1
    <3> QED BY ONLY <1>2, <1>3, <2>1, <2>2, <2>3, <3>1, AfterOldFacts
  <2> QED BY <1>10, <2>4
<1>16. \A p \in Q \cup AtRisk' : p \in AtRisk \/ First(disk, p) \in Owners(disk', Safe', HeldHeads') \cup {0}
  BY <1>15 DEF Q
<1>17. \A c \in Cluster : IsHead(fat', c) =>
          c \in Owners(disk', Safe', HeldHeads') \/ (IsHead(fat, c) /\ c \notin HeldHeads)
  BY <1>12, <1>15 DEF Owners
<1> QED BY <1>7, <1>13, <1>14, <1>16, <1>17, NoneKept

\* A set of directories that is closed after the step was closed before it,
\* but for the entries that go.
LEMMA ClosedBefore ==
    ASSUME NEW Q, Stay(Q), NEW S \in SUBSET Heads(disk), DownClosed(fat', disk', S),
           \A d \in S : \A x \in Reach(fat, d), i \in 1 .. SLOTS :
              <<x, i>> \in Q /\ disk[x][i].k = "dir" => disk[x][i].first \in S
    PROVE  DownClosed(fat, disk, S)
<1> SUFFICES ASSUME NEW d \in S, NEW x \in Reach(fat, d), NEW i \in 1 .. SLOTS,
                    Named(disk[x][i]), disk[x][i].k = "dir", <<x, i>> \notin Q
             PROVE  disk[x][i].first \in S
  BY DEF DownClosed
<1>1. x \in DirClusters(fat, disk) /\ x \in Reach(fat', d)
  BY ReachFacts DEF Stay, DirClusters
<1>2. disk'[x][i] = disk[x][i]
  BY <1>1 DEF Stay
<1> QED BY <1>1, <1>2 DEF DownClosed

LEMMA MarkHeld ==
    ASSUME Good, FaultsTyped, faults' = faults, MarkDeleted
    PROVE  /\ HeldHeads = {} /\ HeldDir = {} /\ AtRisk' = {}
           /\ job.op = "rename" => {job.entry.first} \cap Cluster \subseteq HeldHeads' /\ job'.dir = job.dir
           /\ HeldDir' = IF job.op = "rename" /\ job.entry.k = "dir" THEN {job.entry.first} ELSE {}
<1>1. job.pc = "mark" /\ job \in Jobs /\ job.op \in {"write", "rename", "delete"} /\ OpOK
  BY MarkFacts
<1>2. HeldHeads = {} /\ HeldDir = {}
  BY <1>1 DEF HeldHeads, HeldDir, Pending, Partial, CreatePc, FreshPc, DataPc
<1>3. job.op = "write" => job.entry.k = "file"
  BY <1>1 DEF OpOK
<1>4. CASE job.lfn = {}
  <2>1. job' = AfterOld
    BY <1>4 DEF MarkDeleted
  <2>2. /\ HeldDir' = IF job.op = "rename" /\ job.entry.k = "dir" THEN {job.entry.first} ELSE {}
        /\ job.op = "rename" => job'.dir = job.dir
    BY <1>1, <1>3, <2>1, AfterOldHeld
  <2>3. /\ job'.pc \in {"seek", "alloc"} \/ job' = NoJob
        /\ job.op = "rename" => job'.pc = "seek" /\ job'.entry = job.entry
    <3>1. \/ job' = NoJob /\ job.op # "rename"
          \/ /\ job' = [job EXCEPT !.pc = "alloc", !.prev = 0, !.new = 0, !.idx = 0, !.lfn = {}, !.cl = 0,
                                   !.steps = 0]
             /\ job.op # "rename"
          \/ job' = ToCreate(job)
      BY <2>1 DEF AfterOld
    <3> QED BY <1>1, <3>1 DEF ToCreate, Jobs
  <2>4. AtRisk' = {}
    <3>1. job'.pc \notin {"free", "mark"}
      BY <2>3, IdleFacts
    <3> QED BY <3>1 DEF AtRisk
  <2>5. job.op = "rename" => {job.entry.first} \cap Cluster \subseteq HeldHeads'
    BY <2>3 DEF HeldHeads, Pending, CreatePc
  <2> QED BY <1>2, <2>2, <2>4, <2>5
<1>5. CASE job.lfn # {}
  <2>1. job' = [job EXCEPT !.pc = "marklfn"]
    BY <1>5 DEF MarkDeleted
  <2>2. job'.pc = "marklfn" /\ job'.op = job.op /\ job'.entry = job.entry /\ job'.dir = job.dir
    BY <1>1, <2>1 DEF Jobs
  <2>3. AtRisk' = {} /\ (Pending' <=> job.op = "rename")
    BY <2>2 DEF AtRisk, Pending, CreatePc
  <2> QED BY <1>2, <2>2, <2>3 DEF HeldHeads, HeldDir
<1> QED BY <1>4, <1>5

\* The old entry goes: the operation holds the directory that it led to, and
\* the way to the one it was in does not pass through that directory.
LEMMA MarkNone ==
    ASSUME Good, NoneLost, FaultsTyped, faults' = faults, MarkDeleted
    PROVE  NoneLost'
<1> DEFINE x == job.cl
           k == job.idx
           z == <<x, k>>
           m == job.entry.first
           Q == {z}
<1>1. /\ job.pc = "mark" /\ OldOK /\ FatOK(fat) /\ job.dir \in Heads(disk) /\ Unzeroed = {}
      /\ AtRisk = IF job.op = "rename" THEN {} ELSE {z}
      /\ DirsOK(fat, disk, {}) /\ EntriesOK(fat, disk, Safe, {}) /\ z \in Places(fat, disk)
      /\ x \in DirClusters(fat, disk)
  BY MarkFacts
<1>2. /\ HeldHeads = {} /\ HeldDir = {} /\ AtRisk' = {}
      /\ job.op = "rename" => {m} \cap Cluster \subseteq HeldHeads' /\ job'.dir = job.dir
      /\ HeldDir' = IF job.op = "rename" /\ job.entry.k = "dir" THEN {m} ELSE {}
  BY MarkHeld
<1>3. PICK I : Erases(I)
  BY MarkFacts
<1>4. fat' = fat /\ Stay(Q) /\ Heads(disk') = Heads(disk)
  <2>1. fat' = fat /\ Writes(disk, disk', x, Deleted(x, I))
    BY <1>3 DEF Erases
  <2>2. \A i \in 1 .. SLOTS : i \in I => disk[x][i].k # "end" /\ ~Dot(disk[x][i]) /\ (i = k \/ disk[x][i].k = "lfn")
    BY <1>3 DEF Erases
  <2> HIDE DEF x, k
  <2>3. \A i \in 1 .. SLOTS : i \in I /\ Named(disk[x][i]) => <<x, i>> \in Q
    BY <2>2 DEF Named
  <2> HIDE DEF Q
  <2> QED BY <1>1, <2>1, <2>2, <2>3, DeleteStays
<1>5. /\ job.op # "rename" => disk[x][k].k = "file"
      /\ job.op = "rename" => m = disk[x][k].first /\ job.entry.k = disk[x][k].k
      /\ x \in Reach(fat, job.dir)
  BY <1>1 DEF OldOK
<1>6. z[1] = x /\ z[2] = k /\ First(disk, z) = disk[x][k].first
  BY DEF First
<1> HIDE DEF x, k, z, m
<1>7. job.op = "rename" =>
        /\ disk[x][k].k \in {"file", "dir"} /\ m \in Cluster \cup {0}
        /\ disk[x][k].k = "dir" => m \in Heads(disk)
  <2> HAVE job.op = "rename"
  <2>1. EntryOK(fat, disk, disk[z[1]][z[2]])
    BY <1>1 DEF EntriesOK, Safe
  <2>2. EntryOK(fat, disk, disk[x][k])
    BY <1>6, <2>1
  <2> QED BY <1>1, <1>5, <2>2, HeadFacts DEF EntryOK, DataOK, IsHead
<1>8. \A p \in Q \cup AtRisk' : p \in AtRisk \/ First(disk, p) \in Owners(disk', Safe', HeldHeads') \cup {0}
  BY <1>1, <1>2, <1>5, <1>6, <1>7 DEF Owners
<1>9. \A c \in Cluster : IsHead(fat', c) =>
         c \in Owners(disk', Safe', HeldHeads') \/ (IsHead(fat, c) /\ c \notin HeldHeads)
  BY <1>2, <1>4
<1>10. CASE disk[x][k].k # "dir"
  <2>1. \A p \in Q : disk[p[1]][p[2]].k # "dir"
    BY <1>6, <1>10
  <2>2. HeldDir' = HeldDir /\ HeldDir = {}
    BY <1>2, <1>5, <1>10
  <2> HIDE DEF Q
  <2> QED BY <1>4, <1>8, <1>9, <2>1, <2>2, NoneKept
<1>11. CASE disk[x][k].k = "dir"
  <2>1. /\ job.op = "rename" /\ HeldDir' = {m} /\ job'.dir = job.dir /\ m \in Heads(disk)
        /\ disk[x][k].first = m
    BY <1>2, <1>5, <1>7, <1>11
  <2>2. \A S \in SUBSET Heads(disk) : root_cluster \in S /\ DownClosed(fat, disk, S) => Heads(disk) \subseteq S
    BY <1>2 DEF NoneLost, Below
  <2>3. ASSUME NEW S \in SUBSET Heads(disk), root_cluster \in S, DownClosed(fat', disk', S),
               m \in S \/ job.dir \notin S
        PROVE  Heads(disk) \subseteq S
    <3>1. ASSUME NEW d \in S, NEW y \in Reach(fat, d), NEW i \in 1 .. SLOTS, <<y, i>> \in Q, disk[y][i].k = "dir"
          PROVE  disk[y][i].first \in S
      <4>1. y = x /\ i = k
        BY <3>1 DEF z
      <4>2. CASE m \in S
        BY <2>1, <4>1, <4>2
      <4>3. CASE job.dir \notin S
        <5>1. IsHead(fat, d) /\ IsHead(fat, job.dir) /\ d # job.dir
          BY <1>1, <4>3, HeadFacts
        <5>2. Reach(fat, d) \cap Reach(fat, job.dir) = {}
          BY <1>1, <5>1, ReachApart
        <5> QED BY <1>5, <4>1, <5>2
      <4> QED BY <2>3, <4>2, <4>3
    <3> HIDE DEF Q
    <3>2. DownClosed(fat, disk, S)
      BY <1>4, <2>3, <3>1, ClosedBefore
    <3> QED BY <2>2, <2>3, <3>2
  <2>4. Owned(fat', disk', Safe', HeldHeads')
    <3> HIDE DEF Q
    <3> QED BY <1>4, <1>8, <1>9, OwnedKept DEF NoneLost
  <2>5. Below(fat', disk', HeldDir', Heads(disk'))
    BY <1>4, <2>1, <2>3 DEF Below
  <2>6. Below(fat', disk', {}, {job'.dir})
    BY <1>1, <1>4, <2>1, <2>3 DEF Below
  <2> QED BY <2>4, <2>5, <2>6 DEF NoneLost
<1> QED BY <1>10, <1>11

LEMMA WriteDotsNone ==
    ASSUME Good, NoneLost, FaultsTyped, faults' = faults, WriteDots
    PROVE  NoneLost'
<1> DEFINE b == job.new
           n == [job.entry EXCEPT !.first = b]
           j == [job EXCEPT !.entry = n]
           Q == {}
<1>1. /\ job.pc = "dots" /\ WriteCluster(b, Dots(b, job.dir), TRUE)
      /\ job' = ToCreate([job EXCEPT !.entry.first = b])
  BY NoFault DEF WriteDots, WriteCluster, Written, Dots
<1>2. job \in Jobs /\ job.pc \in PcOf(job.op) /\ OpOK /\ Fresh(b)
  BY <1>1 DEF Good, JobOK, FreshPc
<1>3. job.op = "mkdir"
  BY <1>1, <1>2, IdleFacts DEF PcOf, Jobs, DataPc, CreatePc
<1>4. /\ b \in Cluster /\ fat[b] = EOC /\ Blank(disk[b]) /\ b # root_cluster
      /\ job.dir \in Heads(disk) /\ job.entry.k = "dir" /\ job.entry.first = 0 /\ job.entry \in Slots
  BY <1>1, <1>2, <1>3 DEF Fresh, OpOK, Jobs
<1>5. FatOK(fat) /\ DirsOK(fat, disk, {}) /\ HeldHeads = {b} /\ HeldDir = {} /\ IsHead(fat, b)
  <2>1. Unzeroed = {} /\ HeldDir = {}
    BY <1>1 DEF Unzeroed, HeldDir, Pending, CreatePc
  <2>2. HeldHeads = {b}
    BY <1>1, <1>3, <1>4 DEF HeldHeads, FreshPc, Pending, Partial, CreatePc
  <2> QED BY <2>1, <2>2 DEF Good, EntriesOK
<1>6. n.k = "dir" /\ n.first = b
  BY <1>4 DEF Slots
<1>7. [job EXCEPT !.entry.first = b] = j
  BY <1>2 DEF Jobs
<1> HIDE DEF n
<1>8. job'.pc = "seek" /\ job'.entry = n /\ job'.dir = job.dir
  BY <1>1, <1>2, <1>7 DEF ToCreate, Jobs
<1> HIDE DEF j, b
<1>9. HeldDir' = {b} /\ b \in HeldHeads' /\ AtRisk' = {}
  BY <1>4, <1>6, <1>8 DEF HeldDir, HeldHeads, Pending, CreatePc, AtRisk
<1>10. fat' = fat /\ Writes(disk, disk', b, Dots(b, job.dir))
  <2>1. DOMAIN disk = Cluster /\ TRUE \in BOOLEAN
    BY <1>5 DEF DirsOK
  <2> QED BY <1>1, <1>4, <2>1, ClusterWritten
<1>11. /\ Heads(disk') = Heads(disk) \cup {b} /\ b \notin Heads(disk)
       /\ \A x \in DirClusters(fat, disk) : disk'[x] = disk[x]
  BY <1>4, <1>5, <1>10, NewDirectory
<1>12. Stay(Q)
  BY <1>10, <1>11 DEF Stay
<1>13. Owned(fat', disk', Safe', HeldHeads')
  <2>1. \A p \in Q \cup AtRisk' : p \in AtRisk \/ First(disk, p) \in Owners(disk', Safe', HeldHeads') \cup {0}
    BY <1>9
  <2>2. \A c \in Cluster : IsHead(fat', c) =>
           c \in Owners(disk', Safe', HeldHeads') \/ (IsHead(fat, c) /\ c \notin HeldHeads)
    BY <1>5, <1>9, <1>10 DEF Owners
  <2> HIDE DEF Q
  <2> QED BY <1>12, <2>1, <2>2, OwnedKept DEF NoneLost
<1>14. ASSUME NEW S \in SUBSET Heads(disk'), root_cluster \in S, DownClosed(fat', disk', S)
       PROVE  Heads(disk) \subseteq S
  <2> DEFINE T == S \ {b}
  <2>1. T \subseteq Heads(disk) /\ root_cluster \in T
    BY <1>4, <1>11, <1>14
  <2>2. DownClosed(fat, disk, T)
    <3> SUFFICES ASSUME NEW d \in T, NEW x \in Reach(fat, d), NEW i \in 1 .. SLOTS,
                        Named(disk[x][i]), disk[x][i].k = "dir"
                 PROVE  disk[x][i].first \in T
      BY DEF DownClosed
    <3>1. x \in DirClusters(fat, disk)
      BY <1>5, <2>1, HeadFacts
    <3>2. disk'[x][i] = disk[x][i] /\ disk[x][i].first \in Heads(disk)
      BY <1>5, <1>11, <3>1 DEF DirsOK
    <3>3. disk[x][i].first \in S
      BY <1>10, <1>14, <3>2 DEF DownClosed
    <3> QED BY <1>11, <3>2, <3>3
  <2> HIDE DEF T
  <2>3. Heads(disk) \subseteq T
    BY <1>5, <2>1, <2>2 DEF NoneLost, Below
  <2> QED BY <2>3 DEF T
<1>15. Below(fat', disk', HeldDir', Heads(disk'))
  BY <1>9, <1>11, <1>14 DEF Below
<1>16. Below(fat', disk', {}, {job'.dir})
  BY <1>4, <1>8, <1>14 DEF Below
<1> QED BY <1>13, <1>15, <1>16 DEF NoneLost

\* The new entry is written: the directory that the operation held is below
\* the one that has the entry.
LEMMA PutNone ==
    ASSUME Good, NoneLost, FaultsTyped, faults' = faults, PutEntries
    PROVE  NoneLost'
<1> DEFINE x == job.cl
           e == job.entry
           Q == {}
<1>1. job.pc \in CreatePc /\ job.pc \notin FreshPc
  BY DEF PutEntries, CreatePc, FreshPc
<1>2. /\ job \in Jobs /\ job.dir \in Heads(disk) /\ AtRisk = {}
      /\ HeldHeads = {c \in Cluster : c = e.first} /\ FatOK(fat)
  BY <1>1, CreateFacts
<1>3. x \in Reach(fat, job.dir) /\ x \in Cluster /\ Named(e)
  BY PutFacts
<1>4. PICK q \in Nat : PutAt(q)
  BY PutFacts
<1>5. HeldDir = IF e.k = "dir" THEN {e.first} ELSE {}
  BY <1>1 DEF HeldDir, Pending
<1> HIDE DEF x, e
<1>6. /\ fat' = fat /\ Heads(disk') = Heads(disk) /\ DirClusters(fat, disk') = DirClusters(fat, disk)
      /\ \A p \in Places(fat, disk) : disk'[p[1]][p[2]] = disk[p[1]][p[2]]
  BY <1>4 DEF PutAt
<1>7. Stay(Q) /\ \A p \in Q : disk[p[1]][p[2]].k # "dir"
  <2> SUFFICES ASSUME NEW y \in DirClusters(fat, disk), NEW i \in 1 .. SLOTS, Named(disk[y][i])
               PROVE  disk'[y][i] = disk[y][i]
    BY <1>6 DEF Stay
  <2> DEFINE p == <<y, i>>
  <2>1. p[1] = y /\ p[2] = i /\ p \in Places(fat, disk)
    BY DEF Places
  <2> HIDE DEF p
  <2> QED BY <1>6, <2>1
<1>8. CASE q \notin 1 .. SLOTS
  <2>1. job' = [job EXCEPT !.put = <<e>>, !.pc = "next"]
    BY <1>4, <1>8 DEF PutAt, e
  <2>2. job'.pc = "next" /\ job'.entry = job.entry /\ job'.dir = job.dir
    BY <1>2, <2>1 DEF Jobs
  <2>3. AtRisk' = {} /\ HeldDir' = HeldDir /\ HeldHeads \subseteq HeldHeads'
    <3>1. job'.pc \in CreatePc
      BY <2>2 DEF CreatePc
    <3> QED BY <1>1, <2>2, <3>1, CreateHeld
  <2>4. \A p \in Q \cup AtRisk' : p \in AtRisk \/ First(disk, p) \in Owners(disk', Safe', HeldHeads') \cup {0}
    BY <2>3
  <2>5. \A c \in Cluster : IsHead(fat', c) =>
           c \in Owners(disk', Safe', HeldHeads') \/ (IsHead(fat, c) /\ c \notin HeldHeads)
    BY <1>6, <2>3 DEF Owners
  <2> HIDE DEF Q
  <2> QED BY <1>6, <1>7, <2>2, <2>3, <2>4, <2>5, NoneKept
<1>9. CASE q \in 1 .. SLOTS
  <2> DEFINE z == <<x, q>>
  <2>1. job' = NoJob /\ disk'[x][q] = e
    BY <1>4, <1>9 DEF PutAt, x, e
  <2>2. HeldHeads' = {} /\ AtRisk' = {} /\ HeldDir' = {}
    BY <2>1, NoJobFacts, NoJobHeld
  <2>3. z \in Safe' /\ First(disk', z) = e.first
    <3>1. x \in DirClusters(fat, disk)
      BY <1>2, <1>3 DEF DirClusters
    <3>2. z[1] = x /\ z[2] = q /\ z \in DirClusters(fat, disk) \X (1 .. SLOTS)
      BY <1>9, <3>1
    <3> HIDE DEF z
    <3> QED BY <1>3, <1>6, <2>1, <2>2, <3>2 DEF Safe, Places, First
  <2>4. Owned(fat', disk', Safe', HeldHeads')
    <3>1. \A p \in Q \cup AtRisk' : p \in AtRisk \/ First(disk, p) \in Owners(disk', Safe', HeldHeads') \cup {0}
      BY <2>2
    <3>2. \A c \in Cluster : IsHead(fat', c) =>
             c \in Owners(disk', Safe', HeldHeads') \/ (IsHead(fat, c) /\ c \notin HeldHeads)
      BY <1>2, <1>6, <2>3 DEF Owners
    <3> HIDE DEF Q
    <3> QED BY <1>7, <3>1, <3>2, OwnedKept DEF NoneLost
  <2>5. Below(fat', disk', HeldDir', Heads(disk'))
    <3> SUFFICES ASSUME NEW S \in SUBSET Heads(disk), root_cluster \in S, DownClosed(fat', disk', S)
                 PROVE  Heads(disk) \subseteq S
      BY <1>6 DEF Below
    <3>1. DownClosed(fat, disk, S)
      <4>1. \A d \in S : \A y \in Reach(fat, d), i \in 1 .. SLOTS :
               <<y, i>> \in Q /\ disk[y][i].k = "dir" => disk[y][i].first \in S
        OBVIOUS
      <4> HIDE DEF Q
      <4> QED BY <1>7, <4>1, ClosedBefore
    <3>2. CASE HeldDir \subseteq S
      BY <3>1, <3>2 DEF NoneLost, Below
    <3>3. CASE ~(HeldDir \subseteq S)
      <4>1. e.k = "dir" /\ e.first \notin S /\ HeldDir # {}
        BY <1>5, <3>3
      <4>2. job.dir \in S
        BY <3>1, <4>1 DEF NoneLost, Below
      <4>3. e.first \in S
        BY <1>3, <1>6, <1>9, <2>1, <4>1, <4>2 DEF DownClosed
      <4> QED BY <4>1, <4>3
    <3> QED BY <3>2, <3>3
  <2> QED BY <2>2, <2>4, <2>5 DEF NoneLost
<1> QED BY <1>8, <1>9

LEMMA NoneInit ==
    ASSUME Init
    PROVE  LInv
<1>1. /\ fat = [c \in Cluster |-> IF c = root_cluster THEN EOC ELSE FREE] /\ disk = [c \in Cluster |-> Zeroed]
      /\ job = NoJob
  BY DEF Init
<1>2. Heads(disk) = {root_cluster}
  <2>1. ASSUME NEW c \in Cluster, c # root_cluster PROVE c \notin Heads(disk)
    <3>1. Blank(disk[c])
      BY <1>1 DEF Blank
    <3> QED BY <2>1, <3>1, BlankNoHead
  <2> QED BY <2>1 DEF Heads
<1>3. \A c \in Cluster : IsHead(fat, c) => c = root_cluster
  BY <1>1 DEF IsHead
<1>4. HeldDir = {}
  <2>1. job.pc \notin CreatePc \cup {"marklfn"}
    BY <1>1, IdleFacts DEF CreatePc
  <2> QED BY <2>1 DEF HeldDir, Pending
<1>5. Owned(fat, disk, Safe, HeldHeads)
  BY <1>2, <1>3 DEF Owned, Owners
<1>6. Below(fat, disk, HeldDir, Heads(disk))
  BY <1>2 DEF Below
<1> QED BY <1>4, <1>5, <1>6 DEF NoneLost, LInv

LEMMA StepNone ==
    ASSUME Good, NoneLost, FaultsTyped, faults' = faults, ~full', Step
    PROVE  NoneLost'
<1>1. CASE UndoMkdir
  <2>1. job.pc = "undo" /\ job.pc \in Pcs
    BY <1>1 DEF UndoMkdir, Good, JobOK, Jobs
  <2> QED BY <2>1, IdleFacts DEF Pcs, CreatePc, DataPc
<1>2. CASE OutOfMemory
  BY <1>2, NoFault DEF OutOfMemory
<1>3. CASE Scan \/ Read \/ FreeCluster \/ MarkDeleted \/ MarkLfnDeleted
  BY <1>3, ScanNone, ReadNone, FreeNone, MarkNone, MarkLfnNone
<1>4. CASE AllocData \/ Grow \/ Extend \/ LinkData \/ WriteData \/ WriteDots
  BY <1>4, AllocDataNone, GrowNone, LinkDataNone, WriteDataNone, WriteDotsNone
<1>5. CASE \/ SeekRoom \/ NextDirCluster \/ ZeroCluster \/ HookCluster
           \/ PutEntries \/ HookFirst \/ ZeroLast
  BY <1>5, SeekNone, ZeroClusterNone, HookNone, PutNone, ZeroLastNone
<1> QED BY <1>1, <1>2, <1>3, <1>4, <1>5 DEF Step

LEMMA FullStays ==
    ASSUME Next, full
    PROVE  full'
<1>1. CASE Begin
  BY <1>1 DEF Begin, fat32_read_file, fat32_write_file, fat32_delete_file, fat32_rename_file, fat32_mkdir,
              fat32_cd, cd_root, cd_dotdot, Start
<1>2. CASE AllocData \/ Grow \/ Extend
  BY <1>2 DEF AllocData, Grow, Extend, Alloc
<1>3. CASE Step /\ ~(AllocData \/ Grow \/ Extend)
  BY <1>3 DEF Step
<1>4. CASE Crash
  BY <1>4 DEF Crash
<1> QED BY <1>1, <1>2, <1>3, <1>4 DEF Next

LEMMA NoneStep ==
    ASSUME IInv, LInv, [Next]_vars
    PROVE  LInv'
<1> SUFFICES ASSUME NoFaults', ~astray', ~full' PROVE NoneLost'
  BY DEF LInv
<1>1. CASE UNCHANGED vars
  <2>1. fat' = fat /\ disk' = disk /\ job' = job /\ faults' = faults /\ astray' = astray /\ full' = full
    BY <1>1 DEF vars
  <2>2. NoneLost
    BY <2>1 DEF LInv, NoFaults, Faults
  <2>3. AtRisk' = AtRisk /\ HeldHeads' = HeldHeads /\ HeldDir' = HeldDir
    BY <2>1 DEF AtRisk, HeldHeads, HeldDir, Pending, Partial
  <2> QED BY <2>1, <2>2, <2>3, QuietNone
<1>2. CASE Next
  <2>1. faults' = faults /\ FaultsTyped
    BY <1>2, FaultKeeps, FaultCases DEF IInv
  <2>2. NoFaults /\ ~astray /\ ~full
    <3>1. ~full
      BY <1>2, FullStays
    <3>2. ~astray
      BY <1>2, AstrayStays
    <3> QED BY <2>1, <3>1, <3>2 DEF NoFaults, Faults
  <2>3. Good /\ NoneLost
    BY <2>2 DEF IInv, LInv
  <2>4. CASE Begin
    BY <2>3, <2>4, BeginNone
  <2>5. CASE Step
    BY <2>1, <2>3, <2>5, StepNone
  <2>6. CASE Crash
    BY <2>6, FaultKeeps DEF Crash, FaultSome, IInv
  <2> QED BY <1>2, <2>4, <2>5, <2>6 DEF Next
<1> QED BY <1>1, <1>2

\* Without a fault, until the disk is full: every chain is a directory's, an
\* entry's or the operation's, and every directory is below the root, but for
\* the one that the operation holds and those below it; the directory that will
\* have the entry of that one is below the root by itself.
THEOREM SpaceInvariance == Spec => []LInv
<1>1. Init => LInv
  BY NoneInit
<1>2. IInv /\ LInv /\ [Next]_vars => LInv'
  BY NoneStep
<1> QED BY <1>1, <1>2, Invariance, PTL DEF Spec

\* Every cluster in use is on the chain of some first cluster.
LEMMA UsedHasHead ==
    ASSUME NEW F, FatOK(F), NEW x \in Cluster, F[x] # FREE
    PROVE  \E h : IsHead(F, h) /\ x \in Reach(F, h)
<1> DEFINE S == {y \in Cluster : x \in Reach(F, y)}
           short(y) == NCLUSTERS - Cardinality(Reach(F, y))
           N == {short(y) : y \in S}
<1>1. \A y \in S : /\ IsFiniteSet(Reach(F, y)) /\ Cardinality(Reach(F, y)) \in Nat
                   /\ Cardinality(Reach(F, y)) <= NCLUSTERS
  BY ReachFinite
<1>2. N \in SUBSET Nat /\ N # {}
  <2>1. x \in S
    BY ReachFacts
  <2>2. \A y \in S : short(y) \in Nat
    BY <1>1, Numbers
  <2> QED BY <2>1, <2>2
<1>3. PICK n \in N : \A k \in N : n <= k
  <2> HIDE DEF N
  <2> QED BY <1>2, LeastNumber
<1>4. PICK y \in S : n = short(y)
  OBVIOUS
<1>5. ASSUME NEW z \in Cluster, F[z] = y PROVE FALSE
  <2>1. Reach(F, y) = Reach(F, z) \ {z} /\ z \in Reach(F, z) /\ z \in S
    BY <1>5, ReachTail, ReachFacts
  <2>2. Cardinality(Reach(F, y)) = Cardinality(Reach(F, z)) - 1
    BY <1>1, <2>1, FS_RemoveElement
  <2>3. short(z) \in N /\ short(y) <= short(z)
    BY <1>3, <1>4, <2>1
  <2> QED BY <1>1, <2>1, <2>2, <2>3, Numbers
<1>6. F[y] # FREE
  <2> SUFFICES ASSUME F[y] = FREE PROVE FALSE
    OBVIOUS
  <2>1. Reach(F, F[y]) = {} /\ Reach(F, F[y]) = Reach(F, y) \ {y}
    BY Numbers, ReachFacts, ReachTail
  <2> QED BY <2>1
<1> QED BY <1>5, <1>6 DEF IsHead

LEMMA HeldDirMoved ==
    ASSUME Good
    PROVE  HeldDir \subseteq Moved
<1>1. (Pending => EntryOK(fat, disk, job.entry)) /\ DirsOK(fat, disk, Unzeroed) /\ FatOK(fat)
  BY DEF Good, JobOK
<1>2. Heads(disk) \subseteq Cluster /\ 0 \notin Cluster
  BY <1>1, HeadFacts, Numbers
<1>3. ASSUME Pending, job.entry.k = "dir" PROVE job.entry.first \in Heads(disk)
  BY <1>1, <1>3 DEF EntryOK
<1> QED BY <1>2, <1>3 DEF HeldDir, Moved

LEMMA GoodLost ==
    ASSUME Good, NoneLost
    PROVE  Lost = {}
<1> DEFINE A == {root_cluster} \cup Moved
<1>1. FatOK(fat) /\ DirsOK(fat, disk, Unzeroed)
  BY DEF Good
<1>2. A \in SUBSET Heads(disk) /\ root_cluster \in A /\ HeldDir \subseteq A
  BY MovedFacts, HeldDirMoved DEF Heads
<1>3. Kept = DirsFrom(A)
  BY DEF Kept
<1> HIDE DEF A
<1>4. /\ Kept \in SUBSET Heads(disk) /\ A \subseteq Kept
      /\ \A d \in Kept : \A p \in EntriesIn(d) : At(p).k = "dir" => At(p).first \in Kept
  BY <1>1, <1>2, <1>3, DirsFromFacts
<1>5. \A d \in Heads(disk) : \A x \in Reach(fat, d), i \in 1 .. SLOTS :
         Named(disk[x][i]) => <<x, i>> \in EntriesIn(d) /\ At(<<x, i>>) = disk[x][i]
  <2> TAKE d \in Heads(disk)
  <2> TAKE x \in Reach(fat, d), i \in 1 .. SLOTS
  <2> HAVE Named(disk[x][i])
  <2>1. x \in DirClusters(fat, disk)
    BY <1>1, HeadFacts
  <2>2. <<x, i>> \in Places(fat, disk)
    BY <2>1 DEF Places
  <2> QED BY <2>2, EntriesInFacts DEF At
<1>6. Kept = Heads(disk)
  <2>1. DownClosed(fat, disk, Kept)
    BY <1>4, <1>5 DEF DownClosed
  <2> QED BY <1>2, <1>4, <2>1 DEF NoneLost, Below
<1> SUFFICES ASSUME NEW c \in Lost PROVE FALSE
  OBVIOUS
<1>7. c \in Cluster /\ fat[c] # FREE /\ c \notin Chain(job.new) /\ c \notin Chain(job.entry.first)
  <2> DEFINE W == UNION {Chain(d) \cup UNION {Chain(At(p).first) : p \in EntriesIn(d)} : d \in Kept}
  <2>1. c \in {x \in Cluster : fat[x] # FREE} \ (W \cup Chain(job.new) \cup Chain(job.entry.first))
    BY DEF Lost
  <2> HIDE DEF W
  <2> QED BY <2>1
<1>8. \A d \in Kept : c \notin Chain(d) \cup UNION {Chain(At(p).first) : p \in EntriesIn(d)}
  <2> DEFINE V(d) == Chain(d) \cup UNION {Chain(At(p).first) : p \in EntriesIn(d)}
  <2>1. c \notin UNION {V(d) : d \in Kept}
    BY DEF Lost
  <2>2. \A d \in Kept : c \notin V(d)
    <3> HIDE DEF V
    <3> QED BY <2>1
  <2> QED BY <2>2
<1>9. \A d \in Kept : c \notin Chain(d) /\ \A p \in EntriesIn(d) : c \notin Chain(At(p).first)
  <2> TAKE d \in Kept
  <2>1. \A p \in EntriesIn(d) : Chain(At(p).first) \subseteq UNION {Chain(At(r).first) : r \in EntriesIn(d)}
    OBVIOUS
  <2> QED BY <1>8, <2>1
<1>10. PICK h : IsHead(fat, h) /\ c \in Reach(fat, h)
  BY <1>1, <1>7, UsedHasHead
<1>11. h \in Cluster /\ c \in Chain(h)
  BY <1>10, ChainReach DEF IsHead
<1>12. h \in Heads(disk) \/ (\E p \in Safe : First(disk, p) = h) \/ h \in HeldHeads
  BY <1>10, <1>11 DEF NoneLost, Owned, Owners
<1>13. CASE h \in Heads(disk)
  BY <1>6, <1>11, <1>13, <1>9
<1>14. ASSUME NEW p \in Safe, First(disk, p) = h PROVE FALSE
  <2>1. p \in Places(fat, disk)
    BY DEF Safe
  <2>2. p[1] \in DirClusters(fat, disk)
    BY <2>1 DEF Places
  <2>3. PICK d \in Heads(disk) : p[1] \in Reach(fat, d)
    BY <2>2 DEF DirClusters
  <2>4. p \in EntriesIn(d) /\ At(p).first = h
    BY <1>14, <2>1, <2>3, EntriesInFacts DEF At, First
  <2> QED BY <1>6, <1>11, <1>9, <2>4
<1>15. CASE h \in HeldHeads
  <2>1. h = job.entry.first \/ h = job.new
    BY <1>15 DEF HeldHeads
  <2> QED BY <1>11, <1>7, <2>1
<1> QED BY <1>12, <1>13, <1>14, <1>15

\* On a disk that does not fail, fs/fat32.c loses no space until an operation
\* finds the disk full: in every state each cluster in use is on the chain of a
\* directory below the root, of an entry of one, or of the operation at work.
THEOREM SpaceKept == Spec => []LostOnlyWhenFull
<1>1. IInv /\ LInv => LostOnlyWhenFull
  BY GoodLost DEF IInv, LInv, LostOnlyWhenFull
<1> QED BY <1>1, Invariance, SpaceInvariance, PTL
=============================================================================
