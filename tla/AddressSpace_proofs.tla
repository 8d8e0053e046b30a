------------------------ MODULE AddressSpace_proofs ------------------------
(***************************************************************************)
(* The address spaces stay apart and no frame and no page table gets lost, *)
(* for any number of processes, tables and frames and any page size.       *)
(***************************************************************************)
EXTENDS AddressSpace, FiniteSetTheorems, WellFoundedInduction, TLAPS

Statuses == {"none", "new", "running", "dead"}
Segment  == [vaddr : Nat, memsz : Nat]

Typed ==
    /\ used \in SUBSET Frame /\ kheap \in SUBSET Frame
    /\ free_tables \in SUBSET Tables
    /\ dirent \in [Tables -> [Slot -> Tables \cup {NoTable}]]
    /\ pte \in [Tables -> [Entry -> Frame \cup {0}]]
    /\ status \in [Procs -> Statuses]
    /\ page_directory \in [Procs -> Tables \cup {NoTable}]
    /\ heap_start \in [Procs -> Nat] /\ heap_end \in [Procs -> Nat]

\* A process has a directory as long as it has a structure.
SpacesExist == \A p \in Procs : status[p] # "none" => page_directory[p] \in Tables

Job == [op : {"none", "load", "fork", "exec", "sbrk"},
        proc : Procs \cup {NoTable}, parent : Procs \cup {NoTable},
        todo : SUBSET VPage, segs : Seq(Segment), ok : BOOLEAN, break : Nat,
        used : SUBSET Frame, tables : Nat, over : SUBSET Frame]

\* The operation in progress builds or changes an address space that is there,
\* and maps nothing but pages of the user half.
JobSound ==
    /\ job \in Job
    /\ job.op # "none" =>
         /\ job.proc \in Procs
         /\ status[job.proc] = IF job.op \in {"load", "fork"} THEN "new" ELSE "running"
         /\ \A i \in DOMAIN job.segs : SegmentPages(job.segs[i]) \subseteq VPage

HasStack(p) == FrameAt(page_directory[p], StackPage) # 0

\* A running program has its stack page, and one that is being built has it
\* or will get it.
StackComes ==
    \/ HasStack(job.proc) \/ StackPage \in job.todo
    \/ job.segs # << >> /\ job.segs[Len(job.segs)] = StackSegment

Stacks ==
    /\ \A p \in Procs : status[p] = "running" /\ ~(job.op = "exec" /\ job.proc = p) => HasStack(p)
    /\ job.op \in {"load", "fork", "exec"} /\ job.ok => StackComes
    /\ job.op = "sbrk" => StackPage \notin job.todo /\ job.segs = << >>

\* A start or a fork has taken nothing but what is in the new address space,
\* and what it has mapped and lost again.
BuildKept ==
    job.op \in {"load", "fork"} =>
        LET d == page_directory[job.proc]
        IN  /\ job.used \subseteq used /\ job.used \cap FramesOf(d) = {}
            /\ (Reachable \ FramesOf(d)) \cup kheap \subseteq job.used
            /\ free_table_count + Cardinality(TablesOf(d)) + 1 = job.tables

\* What it has taken besides is what it has mapped others over.  A fork maps
\* every page of its parent once.
OverKept ==
    job.op \in {"load", "fork"} =>
        LET d == page_directory[job.proc]
        IN  /\ used \subseteq job.used \cup FramesOf(d) \cup job.over
            /\ job.op = "fork" => /\ job.over = {} /\ job.segs = << >>
                                  /\ \A v \in job.todo : FrameAt(d, v) = 0

Memory == Typed /\ SpacesExist /\ FramesExclusive /\ PoolsExact

IInv == Memory /\ JobSound /\ Stacks /\ BuildKept
-----------------------------------------------------------------------------
(* Pages and their places in directories and tables. *)

LEMMA Division ==
  ASSUME NEW v \in Nat, NEW n \in Nat \ {0}, NEW q, q = v \div n, NEW r, r = v % n
  PROVE  q \in Nat /\ r \in 0 .. n - 1 /\ v = n * q + r
<1>1. r \in 0 .. n - 1 /\ q \in Int
  OBVIOUS
<1>2. v = n * q + r
  OBVIOUS
<1>3. q >= 0
  <2>1. n * q > -n
    BY <1>1, <1>2
  <2>2. CASE q <= -1
    <3>1. n * q <= n * (-1)
      BY <1>1, <2>2
    <3> QED BY <1>1, <2>1, <3>1
  <2> QED BY <1>1, <2>2
<1> QED BY <1>1, <1>2, <1>3

LEMMA Quotient ==
  ASSUME NEW q \in Int, NEW r \in Int, NEW n \in Nat \ {0}, NEW m \in Int, n * q + r < n * m, r >= 0
  PROVE  q < m
OBVIOUS

LEMMA QuotientOf ==
  ASSUME NEW q \in Int, NEW n \in Nat \ {0}
  PROVE  (q * n) \div n = q
OBVIOUS

LEMMA PageIndex ==
  ASSUME NEW v \in VPage
  PROVE  DirIndex(v) \in Slot /\ TableIndex(v) \in Entry
<1> DEFINE q == v \div FANOUT
           r == v % FANOUT
<1>1. v \in Nat /\ FANOUT \in Nat \ {0} /\ DIRS \in Nat
  BY MemoryAssumption DEF VPage
<1>q. q = v \div FANOUT /\ r = v % FANOUT
  OBVIOUS
<1> HIDE DEF q, r
<1>2. /\ q \in Nat
      /\ r \in 0 .. FANOUT - 1
      /\ v = FANOUT * q + r
  <2>1. v = FANOUT * q + r
    BY <1>1, <1>q, Division
  <2>2. q \in Nat
    BY <1>1, <1>q, Division
  <2>3. r \in 0 .. FANOUT - 1
    BY <1>1, <1>q, Division
  <2> QED BY <2>1, <2>2, <2>3
<1>3. v < DIRS * FANOUT
  BY <1>1 DEF VPage
<1>4. DIRS * FANOUT = FANOUT * DIRS
  BY <1>1
<1>5. q < DIRS
  BY <1>1, <1>2, <1>3, <1>4, Quotient
<1> QED BY <1>1, <1>2, <1>5 DEF Slot, Entry, DirIndex, TableIndex, q, r

LEMMA SamePage ==
  ASSUME NEW v \in VPage, NEW w \in VPage, DirIndex(v) = DirIndex(w), TableIndex(v) = TableIndex(w)
  PROVE  v = w
<1>1. v \in Nat /\ w \in Nat /\ FANOUT \in Nat \ {0}
  BY MemoryAssumption DEF VPage
<1> DEFINE q == v \div FANOUT
           r == v % FANOUT
<1>2. q = v \div FANOUT /\ r = v % FANOUT
  OBVIOUS
<1>3. q = w \div FANOUT /\ r = w % FANOUT
  BY DEF DirIndex, TableIndex
<1> HIDE DEF q, r
<1>4. v = FANOUT * q + r
  BY <1>1, <1>2, Division
<1>5. w = FANOUT * q + r
  BY <1>1, <1>3, Division
<1> QED BY <1>4, <1>5

LEMMA StackFacts ==
  /\ StackPage \in VPage
  /\ StackSegment \in Segment /\ SegmentPages(StackSegment) = {StackPage}
<1>1. DIRS \in Nat \ {0} /\ FANOUT \in Nat \ {0} /\ PG \in Nat \ {0}
  BY MemoryAssumption
<1>2. DIRS * FANOUT \in Nat \ {0}
  BY <1>1
<1> DEFINE s == StackPage
<1>3. s \in Nat /\ s \in VPage
  BY <1>2 DEF StackPage, VPage
<1> HIDE DEF s
<1>4. s * PG \in Nat
  BY <1>1, <1>3
<1>5. (s * PG) \div PG = s
  BY <1>1, <1>3, QuotientOf
<1>6. PagesNeeded(PG) = 1
  BY <1>1 DEF PagesNeeded
<1>7. StackSegment.vaddr = s * PG /\ StackSegment.memsz = PG /\ StackSegment \in Segment
  BY <1>1, <1>4 DEF StackSegment, Segment, s
<1>8. SegmentPages(StackSegment) = s .. s + 1 - 1
  BY <1>5, <1>6, <1>7 DEF SegmentPages
<1> QED BY <1>3, <1>7, <1>8 DEF s
-----------------------------------------------------------------------------
(* Who owns what. *)

LEMMA TableMember ==
  /\ \A d, t : t \in TablesOf(d) <=> t # NoTable /\ \E i \in Slot : dirent[d][i] = t
  /\ \A d, t : t \in TablesOf(d)' <=> t # NoTable /\ \E i \in Slot : dirent'[d][i] = t
BY DEF TablesOf

LEMMA DirectoryMember ==
  /\ \A d : d \in Directories <=> \E p \in Procs : status[p] # "none" /\ page_directory[p] = d
  /\ \A d : d \in Directories' <=> \E p \in Procs : status'[p] # "none" /\ page_directory'[p] = d
BY DEF Directories, Alive

LEMMA InUseMember ==
  /\ \A t : t \in InUse <=> \E d \in Directories : t \in TablesOf(d)
  /\ \A t : t \in InUse' <=> \E d \in Directories' : t \in TablesOf(d)'
BY DEF InUse, TablesOf

LEMMA FrameMember ==
  /\ \A d, x : x \in FramesOf(d) <=> x # 0 /\ \E t \in TablesOf(d), j \in Entry : pte[t][j] = x
  /\ \A d, x : x \in FramesOf(d)' <=> x # 0 /\ \E t \in TablesOf(d)', j \in Entry : pte'[t][j] = x
BY DEF FramesOf, FramesIn, TablesOf

LEMMA ReachableMember ==
  /\ \A x : x \in Reachable <=> x # 0 /\ \E t \in InUse, j \in Entry : pte[t][j] = x
  /\ \A x : x \in Reachable' <=> x # 0 /\ \E t \in InUse', j \in Entry : pte'[t][j] = x
<1>1. /\ \A x : x \in Reachable <=> \E d \in Directories : x \in FramesOf(d)
      /\ \A x : x \in Reachable' <=> \E d \in Directories' : x \in FramesOf(d)'
  BY DEF Reachable, FramesOf, FramesIn, TablesOf
<1>2. ASSUME NEW x
      PROVE  x \in Reachable <=> x # 0 /\ \E t \in InUse, j \in Entry : pte[t][j] = x
  BY <1>1, FrameMember, InUseMember
<1>3. ASSUME NEW x
      PROVE  x \in Reachable' <=> x # 0 /\ \E t \in InUse', j \in Entry : pte'[t][j] = x
  BY <1>1, FrameMember, InUseMember
<1> QED BY <1>2, <1>3

\* Tables that are directories or page tables are tables of the pool.
LEMMA TablesInPool ==
  ASSUME Typed, SpacesExist
  PROVE  /\ Directories \subseteq Tables /\ InUse \subseteq Tables
         /\ \A d \in Directories : TablesOf(d) \subseteq InUse
<1>1. Directories \subseteq Tables
  BY DirectoryMember DEF SpacesExist
<1>2. \A d \in Directories : TablesOf(d) \subseteq InUse
  BY InUseMember
<1>3. \A d \in Tables, i \in Slot : dirent[d][i] \in Tables \cup {NoTable}
  BY DEF Typed
<1> QED BY <1>1, <1>2, <1>3, InUseMember, TableMember

\* A table is in one address space only.
LEMMA TablesApart ==
  ASSUME PoolsExact, NEW c \in Directories, NEW d \in Directories, c # d
  PROVE  TablesOf(c) \cap TablesOf(d) = {}
BY TableMember DEF PoolsExact

\* A frame is in one address space only.
LEMMA FramesApart ==
  ASSUME PoolsExact, FramesExclusive, NEW c \in Directories, NEW d \in Directories, c # d
  PROVE  FramesOf(c) \cap FramesOf(d) = {}
<1> SUFFICES ASSUME NEW x, x \in FramesOf(c), x \in FramesOf(d) PROVE FALSE
  OBVIOUS
<1>1. PICK t \in TablesOf(c), i \in Entry : x # 0 /\ pte[t][i] = x
  BY FrameMember
<1>2. PICK u \in TablesOf(d), j \in Entry : pte[u][j] = x
  BY FrameMember
<1>3. t \in InUse /\ u \in InUse
  BY InUseMember
<1>4. t = u
  BY <1>1, <1>2, <1>3 DEF FramesExclusive
<1> QED BY <1>4, TablesApart

LEMMA PoolsFinite ==
  ASSUME Typed
  PROVE  /\ \A T \in SUBSET Tables : IsFiniteSet(T) /\ Cardinality(T) \in Nat
         /\ \A F \in SUBSET Frame : IsFiniteSet(F) /\ Cardinality(F) \in Nat
<1>1. IsFiniteSet(Tables)
  BY MemoryAssumption
<1>2. IsFiniteSet(Frame)
  <2>1. NLOW + NHIGH \in Int /\ 1 \in Int
    BY MemoryAssumption
  <2> QED BY <2>1, FS_Interval DEF Frame
<1> QED BY <1>1, <1>2, FS_Subset, FS_CardinalityType

LEMMA DisjointCount ==
  ASSUME NEW S, IsFiniteSet(S), NEW T, IsFiniteSet(T), S \cap T = {}
  PROVE  Cardinality(S \cup T) = Cardinality(S) + Cardinality(T)
<1>1. Cardinality(S \cup T) = Cardinality(S) + Cardinality(T) - Cardinality(S \cap T)
  BY FS_Union
<1>2. Cardinality(S \cap T) = 0
  BY FS_EmptySet
<1>3. Cardinality(S) \in Nat /\ Cardinality(T) \in Nat
  BY FS_CardinalityType
<1> QED BY <1>1, <1>2, <1>3

\* A step that changes no address space: what is owned stays owned.
LEMMA OwnersKept ==
  ASSUME dirent' = dirent, pte' = pte, page_directory' = page_directory,
         \A p \in Procs : status'[p] = "none" <=> status[p] = "none"
  PROVE  /\ Alive' = Alive
         /\ Directories' = Directories /\ InUse' = InUse /\ Reachable' = Reachable
         /\ \A d : TablesOf(d)' = TablesOf(d) /\ FramesOf(d)' = FramesOf(d)
         /\ \A d, v : FrameAt(d, v)' = FrameAt(d, v)
<1>1. Alive' = Alive
  BY DEF Alive
<1>2. Directories' = Directories
  BY <1>1 DEF Directories
<1>3. \A d : TablesOf(d)' = TablesOf(d)
  BY DEF TablesOf
<1>4. InUse' = InUse
  BY <1>2, <1>3 DEF InUse
<1>5. \A d : FramesOf(d)' = FramesOf(d)
  BY <1>3 DEF FramesOf, FramesIn
<1>6. Reachable' = Reachable
  BY <1>2, <1>5 DEF Reachable
<1>7. \A d, v : FrameAt(d, v)' = FrameAt(d, v)
  BY DEF FrameAt
<1> QED BY <1>1, <1>2, <1>3, <1>4, <1>5, <1>6, <1>7

\* A step that leaves memory alone, and no process comes or goes.
LEMMA MemoryKept ==
  ASSUME Memory, UNCHANGED <<pmm, pool, spaces, page_directory>>,
         \A p \in Procs : status'[p] = "none" <=> status[p] = "none"
  PROVE  FramesExclusive' /\ PoolsExact' /\ SpacesExist'
<1>0. /\ used' = used /\ free_pages' = free_pages /\ kheap' = kheap /\ free_tables' = free_tables
      /\ free_table_count' = free_table_count /\ dirent' = dirent /\ pte' = pte
      /\ page_directory' = page_directory
  BY DEF pmm, pool, spaces
<1>1. Alive' = Alive /\ Directories' = Directories /\ InUse' = InUse /\ Reachable' = Reachable
  BY <1>0, OwnersKept
<1>2. FramesExclusive'
  BY <1>0, <1>1 DEF FramesExclusive, Memory
<1>3. PoolsExact'
  BY <1>0, <1>1 DEF PoolsExact, Memory
<1>4. SpacesExist'
  BY <1>0 DEF SpacesExist, Memory
<1> QED BY <1>2, <1>3, <1>4

\* Free frames R become part of the kernel heap.
LEMMA HeapTakes ==
  ASSUME Memory, NEW R \in SUBSET Frame, R \cap used = {},
         used' = used \cup R, kheap' = kheap \cup R, free_pages' = free_pages - Cardinality(R),
         UNCHANGED <<pool, spaces, status, page_directory>>
  PROVE  FramesExclusive' /\ PoolsExact' /\ SpacesExist' /\ Lost' \subseteq Lost
<1>0. /\ free_tables' = free_tables /\ free_table_count' = free_table_count
      /\ dirent' = dirent /\ pte' = pte /\ page_directory' = page_directory /\ status' = status
  BY DEF pool, spaces
<1>1. Alive' = Alive /\ Directories' = Directories /\ InUse' = InUse /\ Reachable' = Reachable
  BY <1>0, OwnersKept
<1>2. FramesExclusive'
  <2>1. Reachable \subseteq used /\ Reachable \cap kheap = {} /\ kheap \subseteq used
    BY DEF FramesExclusive, Memory
  <2>2. (Reachable \cup kheap \subseteq used)' /\ (Reachable \cap kheap = {})'
    BY <1>1, <2>1
  <2> QED BY <1>0, <1>1, <2>2 DEF FramesExclusive, Memory
<1>3. free_pages' = Cardinality(Frame \ used') + 1
  <2>1. Frame \ used' = (Frame \ used) \ R /\ (Frame \ used) \cap R = R
    OBVIOUS
  <2>2. IsFiniteSet(Frame \ used) /\ Cardinality(Frame \ used) \in Nat /\ Cardinality(R) \in Nat
    BY PoolsFinite DEF Memory
  <2>3. Cardinality(Frame \ used') = Cardinality(Frame \ used) - Cardinality(R)
    BY <2>1, <2>2, FS_Difference
  <2>4. free_pages = Cardinality(Frame \ used) + 1
    BY DEF PoolsExact, Memory
  <2> QED BY <2>2, <2>3, <2>4
<1>4. PoolsExact'
  <2>1. free_table_count' = Cardinality(free_tables')
    BY <1>0 DEF PoolsExact, Memory
  <2>2. \A p, q \in Alive : p # q => page_directory'[p] # page_directory'[q]
    BY <1>0 DEF PoolsExact, Memory
  <2>3. \A c, d \in Directories, i, j \in Slot :
          dirent'[c][i] = dirent'[d][j] /\ dirent'[c][i] # NoTable => c = d /\ i = j
    BY <1>0 DEF PoolsExact, Memory
  <2>4. Directories \cap InUse = {} /\ free_tables' = Tables \ (Directories \cup InUse)
    BY <1>0 DEF PoolsExact, Memory
  <2> QED BY <1>1, <1>3, <2>1, <2>2, <2>3, <2>4 DEF PoolsExact
<1>5. SpacesExist'
  BY <1>0 DEF SpacesExist, Memory
<1>6. Lost' \subseteq Lost
  BY <1>1 DEF Lost
<1> QED BY <1>2, <1>4, <1>5, <1>6

LEMMA KernelHeapEffect ==
  ASSUME Memory, NEW n \in HEAPRUNS, KernelHeapGrows(n)
  PROVE  FramesExclusive' /\ PoolsExact' /\ SpacesExist' /\ Lost' \subseteq Lost /\ Typed'
<1>1. PICK i \in Low : /\ FreeRun(i, n)
                       /\ used' = used \cup (i .. i + n - 1)
                       /\ kheap' = kheap \cup (i .. i + n - 1)
  BY DEF KernelHeapGrows
<1>2. n \in Nat \ {0} /\ i \in Nat /\ Low \subseteq Frame
  BY MemoryAssumption DEF Low, Frame
<1>3. Cardinality(i .. i + n - 1) = n
  <2> DEFINE b == i + n - 1
  <2>1. i \in Int /\ b \in Int /\ ~(i > b) /\ b - i + 1 = n
    BY <1>2
  <2>2. Cardinality(i .. b) = IF i > b THEN 0 ELSE b - i + 1
    <3> HIDE DEF b
    <3> QED BY <2>1, FS_Interval
  <2> QED BY <2>1, <2>2
<1> DEFINE R == i .. i + n - 1
<1>4. R \in SUBSET Frame /\ R \cap used = {} /\ used' = used \cup R /\ kheap' = kheap \cup R
  BY <1>1, <1>2 DEF FreeRun
<1>5. free_pages' = free_pages - Cardinality(R)
  BY <1>3 DEF KernelHeapGrows
<1> HIDE DEF R
<1>6. /\ UNCHANGED <<pool, spaces, status, page_directory>>
      /\ UNCHANGED <<free_tables, dirent, pte, heap_start, heap_end>>
  BY DEF KernelHeapGrows, procs, pool, spaces
<1>7. FramesExclusive' /\ PoolsExact' /\ SpacesExist' /\ Lost' \subseteq Lost
  BY <1>4, <1>5, <1>6, HeapTakes
<1>8. Typed'
  BY <1>4, <1>6 DEF Typed, Memory
<1> QED BY <1>7, <1>8
\* Process p gets d, an empty directory.
LEMMA Created ==
  ASSUME Memory, NEW p \in Procs, status[p] = "none", NEW d \in free_tables,
         paging_create_address_space(d), page_directory' = [page_directory EXCEPT ![p] = d],
         status' = [status EXCEPT ![p] = "new"], UNCHANGED pmm
  PROVE  /\ FramesExclusive' /\ PoolsExact' /\ SpacesExist'
         /\ Reachable' = Reachable /\ TablesOf(d)' = {} /\ FramesOf(d)' = {}
         /\ \A c \in Directories, v \in VPage : FrameAt(c, v)' = FrameAt(c, v)
         /\ free_tables' \in SUBSET Tables
         /\ dirent' \in [Tables -> [Slot -> Tables \cup {NoTable}]]
         /\ pte' \in [Tables -> [Entry -> Frame \cup {0}]]
         /\ free_table_count = free_table_count' + 1
<1>a. Typed /\ SpacesExist /\ FramesExclusive /\ PoolsExact
  BY DEF Memory
<1>b. d \in Tables /\ d \notin Directories /\ d \notin InUse /\ d # NoTable
  BY <1>a, MemoryAssumption DEF Typed, PoolsExact
<1>c. /\ Directories \subseteq Tables /\ InUse \subseteq Tables
      /\ \A c \in Directories : TablesOf(c) \subseteq InUse
  BY <1>a, TablesInPool
<1>0. used' = used /\ free_pages' = free_pages /\ kheap' = kheap
  BY DEF pmm
<1>1. /\ \A q \in Procs : q # p => status'[q] = status[q] /\ page_directory'[q] = page_directory[q]
      /\ status'[p] = "new" /\ page_directory'[p] = d
  BY <1>a DEF Typed
<1>2. /\ \A c : c # d => dirent'[c] = dirent[c] /\ pte'[c] = pte[c]
      /\ \A i \in Slot : dirent'[d][i] = NoTable
  BY <1>a, <1>b DEF Typed, paging_create_address_space
<1>3. Alive' = Alive \cup {p} /\ p \notin Alive
  BY <1>1 DEF Alive
<1>4. Directories' = Directories \cup {d}
  BY <1>1, DirectoryMember
<1>5. TablesOf(d)' = {} /\ \A c \in Directories : TablesOf(c)' = TablesOf(c)
  <2>1. TablesOf(d)' = {}
    BY <1>2, TableMember
  <2>2. ASSUME NEW c \in Directories PROVE TablesOf(c)' = TablesOf(c)
    <3>1. dirent'[c] = dirent[c]
      BY <1>2, <1>b
    <3> QED BY <3>1 DEF TablesOf
  <2> QED BY <2>1, <2>2
<1>6. InUse' = InUse
  <2>1. ASSUME NEW t, t \in InUse PROVE t \in InUse'
    <3>1. PICK c \in Directories : t \in TablesOf(c)
      BY <2>1, InUseMember
    <3>2. t \in TablesOf(c)' /\ c \in Directories'
      BY <3>1, <1>4, <1>5
    <3> QED BY <3>2, InUseMember
  <2>2. ASSUME NEW t, t \in InUse' PROVE t \in InUse
    <3>1. PICK c \in Directories' : t \in TablesOf(c)'
      BY <2>2, InUseMember
    <3>2. c \in Directories /\ t \in TablesOf(c)
      BY <3>1, <1>4, <1>5
    <3> QED BY <3>2, InUseMember
  <2> QED BY <2>1, <2>2
<1>7. FramesOf(d)' = {}
  BY <1>5, FrameMember
<1>8. \A t \in InUse : pte'[t] = pte[t]
  BY <1>2, <1>b
<1>9. Reachable' = Reachable
  BY <1>6, <1>8, ReachableMember
<1>10. ASSUME NEW c \in Directories, NEW v \in VPage
       PROVE  FrameAt(c, v)' = FrameAt(c, v)
  <2>1. dirent'[c] = dirent[c] /\ DirIndex(v) \in Slot
    BY <1>2, <1>b, PageIndex
  <2>2. dirent[c][DirIndex(v)] # NoTable => dirent[c][DirIndex(v)] \in InUse
    BY <2>1, InUseMember, TableMember
  <2> QED BY <2>1, <2>2, <1>8 DEF FrameAt
<1>11. FramesExclusive'
  BY <1>a, <1>0, <1>6, <1>8, <1>9 DEF FramesExclusive
<1>12. /\ free_table_count = Cardinality(free_tables) /\ IsFiniteSet(free_tables)
       /\ Cardinality(free_tables) \in Nat
  BY <1>a, PoolsFinite DEF PoolsExact, Typed
<1>13. Cardinality(free_tables \ {d}) = Cardinality(free_tables) - 1
  BY <1>12, FS_RemoveElement
<1>14. PoolsExact'
  <2>1. free_table_count' = Cardinality(free_tables')
    BY <1>12, <1>13 DEF paging_create_address_space
  <2>2. \A q, r \in Alive' : q # r => page_directory'[q] # page_directory'[r]
    <3> SUFFICES ASSUME NEW q \in Alive', NEW r \in Alive', q # r
                 PROVE  page_directory'[q] # page_directory'[r]
      OBVIOUS
    <3>1. \A s \in Alive : page_directory'[s] = page_directory[s] /\ page_directory[s] \in Directories
      BY <1>1, <1>3 DEF Alive, Directories
    <3> QED BY <3>1, <1>a, <1>b, <1>1, <1>3 DEF PoolsExact
  <2>3. \A c, e \in Directories', i, j \in Slot :
          dirent'[c][i] = dirent'[e][j] /\ dirent'[c][i] # NoTable => c = e /\ i = j
    <3> SUFFICES ASSUME NEW c \in Directories', NEW e \in Directories', NEW i \in Slot, NEW j \in Slot,
                        dirent'[c][i] = dirent'[e][j], dirent'[c][i] # NoTable
                 PROVE  c = e /\ i = j
      OBVIOUS
    <3>1. c # d /\ e # d
      BY <1>2
    <3>2. c \in Directories /\ e \in Directories /\ dirent[c][i] = dirent[e][j] /\ dirent[c][i] # NoTable
      BY <3>1, <1>2, <1>4
    <3> QED BY <3>2, <1>a DEF PoolsExact
  <2>4. Directories' \cap InUse' = {} /\ free_tables' = Tables \ (Directories' \cup InUse')
    BY <1>a, <1>b, <1>4, <1>6 DEF PoolsExact, paging_create_address_space
  <2>5. free_pages' = Cardinality(Frame \ used') + 1
    BY <1>a, <1>0 DEF PoolsExact
  <2> QED BY <2>1, <2>2, <2>3, <2>4, <2>5 DEF PoolsExact
<1>15. SpacesExist'
  BY <1>a, <1>b, <1>1 DEF SpacesExist
<1>16. /\ free_tables' \in SUBSET Tables
       /\ dirent' \in [Tables -> [Slot -> Tables \cup {NoTable}]]
       /\ pte' \in [Tables -> [Entry -> Frame \cup {0}]]
  <2>1. [i \in Slot |-> NoTable] \in [Slot -> Tables \cup {NoTable}]
    OBVIOUS
  <2>2. [i \in Entry |-> 0] \in [Entry -> Frame \cup {0}]
    OBVIOUS
  <2> QED BY <2>1, <2>2, <1>a DEF Typed, paging_create_address_space
<1>17. free_table_count = free_table_count' + 1
  BY <1>12 DEF paging_create_address_space
<1> QED BY <1>5, <1>7, <1>9, <1>10, <1>11, <1>14, <1>15, <1>16, <1>17
\* The frames and the page tables of directory d are freed, and d itself when
\* E is not empty.
LEMMA Released ==
  ASSUME Memory, NEW d \in Directories, NEW E \in {{}, {d}},
         Freed(FramesOf(d)), TablesFreed(TablesOf(d) \cup E), Cleared(d), kheap' = kheap,
         Directories' = Directories \ E,
         \A q \in Procs : status'[q] # "none" =>
                            status[q] # "none" /\ page_directory'[q] = page_directory[q]
  PROVE  /\ FramesExclusive' /\ PoolsExact' /\ SpacesExist'
         /\ Reachable' = Reachable \ FramesOf(d)
         /\ free_table_count' = free_table_count + Cardinality(TablesOf(d)) + Cardinality(E)
         /\ \A c \in Directories \ {d}, v \in VPage : FrameAt(c, v)' = FrameAt(c, v)
         /\ used' \in SUBSET Frame /\ free_tables' \in SUBSET Tables
         /\ dirent' \in [Tables -> [Slot -> Tables \cup {NoTable}]]
         /\ pte' \in [Tables -> [Entry -> Frame \cup {0}]]
<1> DEFINE T == TablesOf(d)
           F == FramesOf(d)
<1>a. Typed /\ SpacesExist /\ FramesExclusive /\ PoolsExact
  BY DEF Memory
<1>c. /\ Directories \subseteq Tables /\ InUse \subseteq Tables
      /\ \A c \in Directories : TablesOf(c) \subseteq InUse
  BY <1>a, TablesInPool
<1>d. d \in Tables /\ E \subseteq {d} /\ T \subseteq InUse /\ d \notin InUse
  BY <1>a, <1>c DEF PoolsExact
<1>0. /\ used' = used \ F /\ free_pages' = free_pages + Cardinality(F \cap used)
      /\ free_tables' = free_tables \cup (T \cup E)
      /\ dirent' = [dirent EXCEPT ![d] = [i \in Slot |-> NoTable]]
      /\ pte' = [t \in Tables |-> IF t \in T \cup E THEN Stale ELSE pte[t]]
      /\ free_table_count' = IF free_table_count + Cardinality(T \cup E) <= Cardinality(Tables)
                             THEN free_table_count + Cardinality(T \cup E) ELSE Cardinality(Tables)
  BY DEF Freed, TablesFreed, Cleared
<1>2. /\ \A c : c # d => dirent'[c] = dirent[c]
      /\ \A i \in Slot : dirent'[d][i] = NoTable
      /\ \A t \in Tables : t \notin T \cup E => pte'[t] = pte[t]
  BY <1>a, <1>d, <1>0 DEF Typed
<1>5. TablesOf(d)' = {} /\ \A c \in Directories \ {d} : TablesOf(c)' = TablesOf(c)
  <2>1. TablesOf(d)' = {}
    BY <1>2, TableMember
  <2>2. ASSUME NEW c \in Directories \ {d} PROVE TablesOf(c)' = TablesOf(c)
    <3>1. dirent'[c] = dirent[c]
      BY <1>2
    <3> QED BY <3>1 DEF TablesOf
  <2> QED BY <2>1, <2>2
<1>6. InUse' = InUse \ T
  <2>1. ASSUME NEW t, t \in InUse, t \notin T PROVE t \in InUse'
    <3>1. PICK c \in Directories : t \in TablesOf(c)
      BY <2>1, InUseMember
    <3>2. t \in TablesOf(c)' /\ c \in Directories'
      BY <2>1, <3>1, <1>d, <1>5
    <3> QED BY <3>2, InUseMember
  <2>2. ASSUME NEW t, t \in InUse' PROVE t \in InUse \ T
    <3>1. PICK c \in Directories' : t \in TablesOf(c)'
      BY <2>2, InUseMember
    <3>2. c \in Directories /\ c # d /\ t \in TablesOf(c)
      BY <3>1, <1>5
    <3>3. t \notin T
      BY <3>2, <1>a, TablesApart
    <3> QED BY <3>2, <3>3, InUseMember
  <2> QED BY <2>1, <2>2
<1>8. \A t \in InUse \ T : pte'[t] = pte[t]
  BY <1>2, <1>c, <1>d
<1>9. Reachable' = Reachable \ F
  <2>1. ASSUME NEW x, x \in Reachable, x \notin F PROVE x \in Reachable'
    <3>1. PICK t \in InUse, j \in Entry : x # 0 /\ pte[t][j] = x
      BY <2>1, ReachableMember
    <3>2. t \notin T
      BY <2>1, <3>1, FrameMember
    <3> QED BY <3>1, <3>2, <1>6, <1>8, ReachableMember
  <2>2. ASSUME NEW x, x \in Reachable' PROVE x \in Reachable \ F
    <3>1. PICK t \in InUse \ T, j \in Entry : x # 0 /\ pte[t][j] = x
      BY <2>2, <1>6, <1>8, ReachableMember
    <3>2. ASSUME x \in F PROVE FALSE
      <4>1. PICK u \in T, i \in Entry : pte[u][i] = x
        BY <3>2, FrameMember
      <4> QED BY <3>1, <4>1, <1>a, <1>d DEF FramesExclusive
    <3> QED BY <3>1, <3>2, ReachableMember
  <2> QED BY <2>1, <2>2
<1>e. F \subseteq Reachable /\ Reachable \subseteq used /\ Reachable \cap kheap = {} /\ kheap \subseteq used
  BY <1>a, <1>d, FrameMember, ReachableMember DEF FramesExclusive
<1>10. ASSUME NEW c \in Directories \ {d}, NEW v \in VPage
       PROVE  FrameAt(c, v)' = FrameAt(c, v)
  <2>1. dirent'[c] = dirent[c] /\ DirIndex(v) \in Slot
    BY <1>2, PageIndex
  <2>2. dirent[c][DirIndex(v)] # NoTable => dirent[c][DirIndex(v)] \in TablesOf(c)
    BY <2>1, TableMember
  <2>3. TablesOf(c) \cap T = {}
    BY <1>a, TablesApart
  <2>4. dirent[c][DirIndex(v)] # NoTable => pte'[dirent[c][DirIndex(v)]] = pte[dirent[c][DirIndex(v)]]
    BY <2>2, <2>3, <1>8, <1>c
  <2> QED BY <2>1, <2>4 DEF FrameAt
<1>11. FramesExclusive'
  <2>1. \A t, u \in InUse', i, j \in Entry :
          pte'[t][i] = pte'[u][j] /\ pte'[t][i] # 0 => t = u /\ i = j
    BY <1>a, <1>6, <1>8 DEF FramesExclusive
  <2>2. Reachable' \cup kheap' \subseteq used' /\ Reachable' \cap kheap' = {}
    BY <1>0, <1>9, <1>e
  <2> QED BY <2>1, <2>2 DEF FramesExclusive
<1>12. free_pages' = Cardinality(Frame \ used') + 1
  <2>1. F \subseteq used /\ used \subseteq Frame
    BY <1>a, <1>e DEF Typed
  <2>2. Frame \ used' = (Frame \ used) \cup F /\ (Frame \ used) \cap F = {} /\ F \cap used = F
    BY <2>1, <1>0
  <2>3. /\ IsFiniteSet(Frame \ used) /\ Cardinality(Frame \ used) \in Nat
        /\ IsFiniteSet(F) /\ Cardinality(F) \in Nat
    BY <2>1, <1>a, PoolsFinite
  <2>4. Cardinality((Frame \ used) \cup F) = Cardinality(Frame \ used) + Cardinality(F)
    <3> HIDE DEF F
    <3> QED BY <2>2, <2>3, DisjointCount
  <2>5. free_pages = Cardinality(Frame \ used) + 1
    BY <1>a DEF PoolsExact
  <2>6. free_pages' = free_pages + Cardinality(F)
    BY <1>0, <2>2
  <2>7. Cardinality(Frame \ used') = Cardinality(Frame \ used) + Cardinality(F)
    BY <2>2, <2>4
  <2> HIDE DEF F
  <2> QED BY <2>3, <2>5, <2>6, <2>7
<1>13. /\ free_table_count' = free_table_count + Cardinality(T) + Cardinality(E)
       /\ free_table_count' = Cardinality(free_tables')
  <2>1. free_tables \cap (T \cup E) = {} /\ free_tables \subseteq Tables /\ T \cup E \subseteq Tables
        /\ T \subseteq Tables /\ E \subseteq Tables /\ T \cap E = {}
    BY <1>a, <1>c, <1>d DEF PoolsExact
  <2>2. /\ IsFiniteSet(free_tables) /\ Cardinality(free_tables) \in Nat
        /\ IsFiniteSet(T) /\ Cardinality(T) \in Nat /\ IsFiniteSet(E) /\ Cardinality(E) \in Nat
        /\ IsFiniteSet(T \cup E) /\ Cardinality(T \cup E) \in Nat /\ IsFiniteSet(Tables)
    <3> HIDE DEF T
    <3> QED BY <2>1, <1>a, PoolsFinite
  <2> HIDE DEF T, F
  <2>3. Cardinality(T \cup E) = Cardinality(T) + Cardinality(E)
    BY <2>1, <2>2, DisjointCount
  <2>4. Cardinality(free_tables \cup (T \cup E)) = Cardinality(free_tables) + Cardinality(T \cup E)
    BY <2>1, <2>2, DisjointCount
  <2>5. Cardinality(free_tables \cup (T \cup E)) <= Cardinality(Tables)
    <3>1. free_tables \cup (T \cup E) \in SUBSET Tables
      BY <2>1
    <3> QED BY <3>1, <2>2, FS_Subset
  <2>6. free_table_count = Cardinality(free_tables)
    BY <1>a DEF PoolsExact
  <2>7. free_table_count' = free_table_count + Cardinality(T \cup E)
    BY <1>0, <2>4, <2>5, <2>6
  <2>8. free_table_count' = free_table_count + Cardinality(T) + Cardinality(E)
    BY <2>2, <2>3, <2>6, <2>7
  <2>9. free_tables' = free_tables \cup (T \cup E)
    BY <1>0
  <2>10. free_table_count' = Cardinality(free_tables')
    BY <2>4, <2>6, <2>7, <2>9
  <2> QED BY <2>8, <2>10
<1>14. PoolsExact'
  <2>2. \A q, r \in Alive' : q # r => page_directory'[q] # page_directory'[r]
    BY <1>a DEF PoolsExact, Alive
  <2>3. \A c, e \in Directories', i, j \in Slot :
          dirent'[c][i] = dirent'[e][j] /\ dirent'[c][i] # NoTable => c = e /\ i = j
    <3> SUFFICES ASSUME NEW c \in Directories', NEW e \in Directories', NEW i \in Slot, NEW j \in Slot,
                        dirent'[c][i] = dirent'[e][j], dirent'[c][i] # NoTable
                 PROVE  c = e /\ i = j
      OBVIOUS
    <3>1. c # d /\ e # d
      BY <1>2
    <3>2. c \in Directories /\ e \in Directories /\ dirent[c][i] = dirent[e][j] /\ dirent[c][i] # NoTable
      BY <3>1, <1>2
    <3> QED BY <3>2, <1>a DEF PoolsExact
  <2>4. Directories' \cap InUse' = {} /\ free_tables' = Tables \ (Directories' \cup InUse')
    <3>1. Directories \cap InUse = {} /\ free_tables = Tables \ (Directories \cup InUse)
      BY <1>a DEF PoolsExact
    <3> HIDE DEF T
    <3> QED BY <3>1, <1>0, <1>6, <1>c, <1>d
  <2> QED BY <1>12, <1>13, <2>2, <2>3, <2>4 DEF PoolsExact
<1>15. SpacesExist'
  BY <1>a DEF SpacesExist
<1>16. /\ used' \in SUBSET Frame /\ free_tables' \in SUBSET Tables
       /\ dirent' \in [Tables -> [Slot -> Tables \cup {NoTable}]]
       /\ pte' \in [Tables -> [Entry -> Frame \cup {0}]]
  <2>1. [i \in Slot |-> NoTable] \in [Slot -> Tables \cup {NoTable}]
    OBVIOUS
  <2>2. Stale \in [Entry -> Frame \cup {0}]
    BY MemoryAssumption DEF Stale, Frame
  <2>3. used' \in SUBSET Frame /\ free_tables' \in SUBSET Tables
    BY <1>a, <1>0, <1>c, <1>d DEF Typed
  <2>4. dirent' \in [Tables -> [Slot -> Tables \cup {NoTable}]]
    BY <2>1, <1>0, <1>a DEF Typed
  <2>5. pte' \in [Tables -> [Entry -> Frame \cup {0}]]
    BY <2>2, <1>0, <1>a DEF Typed
  <2> QED BY <2>3, <2>4, <2>5
<1> QED BY <1>9, <1>10, <1>11, <1>13, <1>14, <1>15, <1>16
\* What MapInto(d, v, f) does to the tables, whether t was there or is fresh.
Placed(d, v, f, t) ==
    /\ t \in Tables
    /\ \/ dirent[d][DirIndex(v)] = t
       \/ dirent[d][DirIndex(v)] = NoTable /\ t \in free_tables
    /\ dirent'[d][DirIndex(v)] = t
    /\ \A c \in Directories, k \in Slot :
          c # d \/ k # DirIndex(v) => dirent'[c][k] = dirent[c][k]
    /\ \A u \in InUse \ {t} : pte'[u] = pte[u]
    /\ pte'[t][TableIndex(v)] = f
    /\ \A k \in Entry \ {TableIndex(v)} :
          pte'[t][k] = IF dirent[d][DirIndex(v)] = t THEN pte[t][k] ELSE 0
    /\ free_tables' = free_tables \ {t}
    /\ free_table_count' = IF dirent[d][DirIndex(v)] = t THEN free_table_count
                           ELSE free_table_count - 1

LEMMA MapPlaces ==
  ASSUME Memory, NEW d \in Directories, NEW v \in VPage, NEW f \in Frame, MapInto(d, v, f)
  PROVE  /\ \E t : Placed(d, v, f, t)
         /\ free_tables' \in SUBSET Tables
         /\ dirent' \in [Tables -> [Slot -> Tables \cup {NoTable}]]
         /\ pte' \in [Tables -> [Entry -> Frame \cup {0}]]
<1> DEFINE i == DirIndex(v)
           j == TableIndex(v)
<1>a. Typed /\ SpacesExist /\ PoolsExact
  BY DEF Memory
<1>b. i \in Slot /\ j \in Entry /\ Directories \subseteq Tables /\ InUse \subseteq Tables
      /\ d \in Tables /\ NoTable \notin Tables
  BY <1>a, PageIndex, TablesInPool, MemoryAssumption
<1>c. dirent \in [Tables -> [Slot -> Tables \cup {NoTable}]] /\ pte \in [Tables -> [Entry -> Frame \cup {0}]]
      /\ free_tables \in SUBSET Tables
  BY <1>a DEF Typed
<1>1. CASE dirent[d][i] # NoTable
  <2> DEFINE t == dirent[d][i]
  <2>1. /\ pte' = [pte EXCEPT ![t][j] = f] /\ dirent' = dirent
        /\ free_tables' = free_tables /\ free_table_count' = free_table_count
    BY <1>1 DEF MapInto, pool
  <2>2. t \in Tables /\ t \in InUse /\ t \notin free_tables
    <3>1. t \in Tables
      BY <1>1, <1>b, <1>c
    <3>2. t \in TablesOf(d)
      BY <1>1, <1>b, TableMember
    <3>3. t \in InUse
      BY <3>2, InUseMember
    <3> QED BY <3>1, <3>3, <1>a DEF PoolsExact
  <2>x. t = dirent[d][i]
    OBVIOUS
  <2> HIDE DEF t, i, j
  <2>3. \A u \in Tables \ {t} : pte'[u] = pte[u]
    BY <2>1, <1>c
  <2>4. pte'[t][j] = f /\ \A k \in Entry \ {j} : pte'[t][k] = pte[t][k]
    BY <2>1, <2>2, <1>b, <1>c
  <2>5. Placed(d, v, f, t)
    <3>1. free_tables' = free_tables \ {t}
      BY <2>1, <2>2
    <3>2. \A u \in InUse \ {t} : pte'[u] = pte[u]
      BY <2>3, <1>b
    <3>3. dirent' = dirent /\ free_table_count' = free_table_count
      BY <2>1
    <3>4. /\ dirent[d][i] = t /\ dirent'[d][i] = t
          /\ \A c \in Directories, k \in Slot : c # d \/ k # i => dirent'[c][k] = dirent[c][k]
          /\ \A k \in Entry \ {j} : pte'[t][k] = IF dirent[d][i] = t THEN pte[t][k] ELSE 0
          /\ free_table_count' = IF dirent[d][i] = t THEN free_table_count ELSE free_table_count - 1
      BY <2>4, <2>x, <3>3
    <3> QED BY <2>2, <2>4, <3>1, <3>2, <3>4 DEF Placed, i, j
  <2>6. pte' \in [Tables -> [Entry -> Frame \cup {0}]]
    BY <2>1, <2>2, <1>b, <1>c
  <2> QED BY <2>1, <2>5, <2>6, <1>c
<1>2. CASE dirent[d][i] = NoTable
  <2>1. PICK t \in free_tables :
           /\ free_tables' = free_tables \ {t}
           /\ free_table_count' = free_table_count - 1
           /\ dirent' = [dirent EXCEPT ![t] = [k \in Slot |-> NoTable], ![d][i] = t]
           /\ pte' = [pte EXCEPT ![t] = ZeroedWith(t, v, f)]
    BY <1>2 DEF MapInto
  <2>2. t \in Tables /\ t \notin InUse /\ t \notin Directories /\ t # d
    BY <1>a, <1>c DEF PoolsExact
  <2> HIDE DEF i, j
  <2>3. dirent'[d][i] = t
    BY <2>1, <2>2, <1>b, <1>c
  <2>4. ASSUME NEW c \in Directories, NEW k \in Slot, c # d \/ k # i
        PROVE  dirent'[c][k] = dirent[c][k]
    BY <2>1, <2>2, <2>4, <1>b, <1>c
  <2>5. pte'[t] = ZeroedWith(t, v, f) /\ \A u \in Tables \ {t} : pte'[u] = pte[u]
    BY <2>1, <2>2, <1>c
  <2>6. pte'[t][j] = f /\ \A k \in Entry \ {j} : pte'[t][k] = 0
    BY <2>5, <1>b DEF ZeroedWith, j
  <2>7. Placed(d, v, f, t)
    <3>1. dirent[d][i] # t
      BY <1>2, <2>2, <1>b
    <3> QED BY <1>2, <2>1, <2>2, <2>3, <2>4, <2>5, <2>6, <3>1, <1>b DEF Placed, i, j
  <2>8. dirent' \in [Tables -> [Slot -> Tables \cup {NoTable}]]
    <3>1. [k \in Slot |-> NoTable] \in [Slot -> Tables \cup {NoTable}]
      OBVIOUS
    <3>2. [dirent EXCEPT ![t] = [k \in Slot |-> NoTable]] \in [Tables -> [Slot -> Tables \cup {NoTable}]]
      BY <3>1, <1>c
    <3> QED BY <3>2, <2>1, <2>2, <1>b
  <2>9. pte' \in [Tables -> [Entry -> Frame \cup {0}]]
    <3>1. ZeroedWith(t, v, f) \in [Entry -> Frame \cup {0}]
      BY DEF ZeroedWith
    <3> QED BY <3>1, <2>1, <1>c
  <2> QED BY <2>1, <2>7, <2>8, <2>9, <1>c
<1> QED BY <1>1, <1>2
\* The tables after the mapping.
LEMMA PlacedTables ==
  ASSUME Memory, NEW d \in Directories, NEW v \in VPage, NEW f \in Frame, NEW t, Placed(d, v, f, t),
         Directories' = Directories
  PROVE  /\ TablesOf(d)' = TablesOf(d) \cup {t}
         /\ \A c \in Directories \ {d} : TablesOf(c)' = TablesOf(c)
         /\ InUse' = InUse \cup {t}
         /\ t \notin Directories
         /\ t \in InUse <=> dirent[d][DirIndex(v)] = t
         /\ t \in TablesOf(d) <=> dirent[d][DirIndex(v)] = t
         /\ t # NoTable /\ DirIndex(v) \in Slot
<1> DEFINE i == DirIndex(v)
<1>a. Typed /\ SpacesExist /\ PoolsExact /\ i \in Slot
  BY PageIndex DEF Memory
<1>b. /\ dirent[d][i] = t \/ (dirent[d][i] = NoTable /\ t \in free_tables)
      /\ dirent'[d][i] = t /\ t \in Tables
      /\ \A c \in Directories, k \in Slot : c # d \/ k # i => dirent'[c][k] = dirent[c][k]
  BY DEF Placed
<1> HIDE DEF i
<1>c. t # NoTable
  BY <1>b, MemoryAssumption
<1>1. ASSUME NEW c \in Directories \ {d} PROVE TablesOf(c)' = TablesOf(c)
  <2>1. \A k \in Slot : dirent'[c][k] = dirent[c][k]
    BY <1>b
  <2>2. \A x : x \in TablesOf(c)' <=> x # NoTable /\ \E k \in Slot : dirent'[c][k] = x
    BY TableMember
  <2>3. \A x : x \in TablesOf(c)' <=> x \in TablesOf(c)
    BY <2>1, <2>2, TableMember
  <2> QED BY <2>3
<1>2. TablesOf(d)' = TablesOf(d) \cup {t}
  <2>1. ASSUME NEW x, x \in TablesOf(d)' PROVE x \in TablesOf(d) \cup {t}
    <3>1. PICK k \in Slot : dirent'[d][k] = x /\ x # NoTable
      BY <2>1, TableMember
    <3> QED BY <3>1, <1>b, TableMember
  <2>2. ASSUME NEW x, x \in TablesOf(d) PROVE x \in TablesOf(d)'
    <3>1. PICK k \in Slot : dirent[d][k] = x /\ x # NoTable
      BY <2>2, TableMember
    <3>2. CASE k = i
      BY <3>1, <3>2, <1>a, <1>b, TableMember
    <3>3. CASE k # i
      BY <3>1, <3>3, <1>b, TableMember
    <3> QED BY <3>2, <3>3
  <2>3. t \in TablesOf(d)'
    BY <1>a, <1>b, <1>c, TableMember
  <2> QED BY <2>1, <2>2, <2>3
<1>3. InUse' = InUse \cup {t}
  <2>1. ASSUME NEW x, x \in InUse' PROVE x \in InUse \cup {t}
    <3>1. PICK c \in Directories : x \in TablesOf(c)'
      BY <2>1, InUseMember
    <3> QED BY <3>1, <1>1, <1>2, InUseMember
  <2>2. ASSUME NEW x, x \in InUse PROVE x \in InUse'
    <3>1. PICK c \in Directories : x \in TablesOf(c)
      BY <2>2, InUseMember
    <3>2. x \in TablesOf(c)'
      BY <3>1, <1>1, <1>2
    <3> QED BY <3>2, InUseMember
  <2>3. t \in InUse'
    BY <1>2, InUseMember
  <2> QED BY <2>1, <2>2, <2>3
<1>4. dirent[d][i] = t => t \in TablesOf(d) /\ t \in InUse /\ t \notin Directories
  <2>1. dirent[d][i] = t => t \in TablesOf(d)
    BY <1>a, <1>c, TableMember
  <2> QED BY <2>1, <1>a, InUseMember DEF PoolsExact
<1>5. dirent[d][i] # t => t \notin InUse /\ t \notin Directories /\ t \notin TablesOf(d)
  <2>1. dirent[d][i] # t => t \notin InUse /\ t \notin Directories
    BY <1>a, <1>b DEF PoolsExact
  <2> QED BY <2>1, InUseMember
<1> QED BY <1>a, <1>c, <1>1, <1>2, <1>3, <1>4, <1>5 DEF i

\* The pages and their frames after the mapping.
LEMMA PlacedPages ==
  ASSUME Memory, NEW d \in Directories, NEW v \in VPage, NEW f \in Frame, NEW t, Placed(d, v, f, t),
         Directories' = Directories
  PROVE  /\ FrameAt(d, v)' = f
         /\ \A w \in VPage \ {v} : FrameAt(d, w)' = FrameAt(d, w)
         /\ \A c \in Directories \ {d}, w \in VPage : FrameAt(c, w)' = FrameAt(c, w)
<1> DEFINE i == DirIndex(v)
           j == TableIndex(v)
<1>a. Typed /\ SpacesExist /\ PoolsExact
  BY DEF Memory
<1>b. /\ dirent[d][i] = t \/ (dirent[d][i] = NoTable /\ t \in free_tables)
      /\ dirent'[d][i] = t /\ t \in Tables
      /\ \A c \in Directories, k \in Slot : c # d \/ k # i => dirent'[c][k] = dirent[c][k]
      /\ \A u \in InUse \ {t} : pte'[u] = pte[u]
      /\ pte'[t][j] = f
      /\ \A k \in Entry \ {j} : pte'[t][k] = IF dirent[d][i] = t THEN pte[t][k] ELSE 0
  BY DEF Placed
<1>c. /\ t \in InUse <=> dirent[d][i] = t
      /\ t # NoTable /\ i \in Slot /\ j \in Entry
  BY PlacedTables, PageIndex
<1>1. FrameAt(d, v)' = f
  BY <1>b, <1>c DEF FrameAt
<1>2. ASSUME NEW w \in VPage, w # v PROVE FrameAt(d, w)' = FrameAt(d, w)
  <2>0. DirIndex(w) \in Slot /\ TableIndex(w) \in Entry /\ (DirIndex(w) # i \/ TableIndex(w) # j)
    BY <1>2, PageIndex, SamePage
  <2> DEFINE k == DirIndex(w)
             l == TableIndex(w)
             u == dirent[d][k]
  <2>1. CASE k = i
    <3>1. l \in Entry \ {j}
      BY <2>0, <2>1
    <3>2. FrameAt(d, w)' = pte'[t][l]
      BY <2>1, <1>b, <1>c DEF FrameAt
    <3>3. pte'[t][l] = IF dirent[d][i] = t THEN pte[t][l] ELSE 0
      BY <3>1, <1>b
    <3>4. FrameAt(d, w) = IF dirent[d][i] = t THEN pte[t][l] ELSE 0
      BY <2>1, <1>b, <1>c DEF FrameAt
    <3> QED BY <3>2, <3>3, <3>4
  <2>2. CASE k # i
    <3>1. dirent'[d][k] = u
      BY <2>0, <2>2, <1>b
    <3>2. u # NoTable => u \in InUse
      BY <2>0, InUseMember, TableMember
    <3>3. u # NoTable => u # t
      <4>1. SUFFICES ASSUME u = t, u # NoTable PROVE FALSE
        OBVIOUS
      <4>2. dirent[d][i] = dirent[d][k]
        BY <4>1, <3>2, <1>c
      <4> QED BY <4>1, <4>2, <1>a, <1>c, <2>0, <2>2 DEF PoolsExact
    <3>4. u # NoTable => pte'[u] = pte[u]
      BY <3>2, <3>3, <1>b
    <3> QED BY <3>1, <3>4 DEF FrameAt
  <2> QED BY <2>1, <2>2
<1>3. ASSUME NEW c \in Directories \ {d}, NEW w \in VPage PROVE FrameAt(c, w)' = FrameAt(c, w)
  <2> DEFINE k == DirIndex(w)
             u == dirent[c][k]
  <2>0. k \in Slot
    BY PageIndex
  <2>1. dirent'[c][k] = u
    BY <2>0, <1>b
  <2>2. u # NoTable => u \in InUse
    BY <2>0, InUseMember, TableMember
  <2>3. u # NoTable => u # t
    <3>1. SUFFICES ASSUME u = t, u # NoTable PROVE FALSE
      OBVIOUS
    <3>2. dirent[d][i] = dirent[c][k]
      BY <3>1, <2>2, <1>c
    <3> QED BY <3>1, <3>2, <1>a, <1>c, <2>0 DEF PoolsExact
  <2>4. u # NoTable => pte'[u] = pte[u]
    BY <2>2, <2>3, <1>b
  <2> QED BY <2>1, <2>4 DEF FrameAt
<1> QED BY <1>1, <1>2, <1>3
\* Frame f, free before, appears at page v of directory d.
LEMMA PageMapped ==
  ASSUME Memory, NEW d \in Directories, NEW v \in VPage, NEW f \in Frame \ used,
         MapInto(d, v, f), UNCHANGED <<status, page_directory>>
  PROVE  /\ FramesExclusive' /\ PoolsExact' /\ SpacesExist'
         /\ FrameAt(d, v)' = f
         /\ \A w \in VPage \ {v} : FrameAt(d, w)' = FrameAt(d, w)
         /\ \A c \in Directories \ {d}, w \in VPage : FrameAt(c, w)' = FrameAt(c, w)
         /\ free_table_count' + Cardinality(TablesOf(d)') = free_table_count + Cardinality(TablesOf(d))
         /\ Reachable \subseteq Reachable' \cup {FrameAt(d, v)}
         /\ FramesOf(d)' \subseteq FramesOf(d) \cup {f}
         /\ Reachable' \ FramesOf(d)' \subseteq Reachable \ FramesOf(d)
         /\ f \in Reachable'
         /\ used' \in SUBSET Frame /\ free_tables' \in SUBSET Tables
         /\ dirent' \in [Tables -> [Slot -> Tables \cup {NoTable}]]
         /\ pte' \in [Tables -> [Entry -> Frame \cup {0}]]
<1> DEFINE i == DirIndex(v)
           j == TableIndex(v)
<1>a. Typed /\ SpacesExist /\ PoolsExact /\ FramesExclusive
  BY DEF Memory
<1>d. Alive' = Alive /\ Directories' = Directories
  BY DEF Alive, Directories
<1>t. PICK t : Placed(d, v, f, t)
  BY MapPlaces
<1>b. /\ dirent[d][i] = t \/ (dirent[d][i] = NoTable /\ t \in free_tables)
      /\ dirent'[d][i] = t /\ t \in Tables
      /\ \A c \in Directories, k \in Slot : c # d \/ k # i => dirent'[c][k] = dirent[c][k]
      /\ \A u \in InUse \ {t} : pte'[u] = pte[u]
      /\ pte'[t][j] = f
      /\ \A k \in Entry \ {j} : pte'[t][k] = IF dirent[d][i] = t THEN pte[t][k] ELSE 0
      /\ free_tables' = free_tables \ {t}
      /\ free_table_count' = IF dirent[d][i] = t THEN free_table_count ELSE free_table_count - 1
  BY <1>t DEF Placed
<1>c. /\ TablesOf(d)' = TablesOf(d) \cup {t}
      /\ \A c \in Directories \ {d} : TablesOf(c)' = TablesOf(c)
      /\ InUse' = InUse \cup {t}
      /\ t \notin Directories
      /\ t \in InUse <=> dirent[d][i] = t
      /\ t \in TablesOf(d) <=> dirent[d][i] = t
      /\ t # NoTable /\ i \in Slot /\ j \in Entry
  BY <1>t, <1>d, PlacedTables, PageIndex
<1>0. used' = used \cup {f} /\ free_pages' = free_pages - 1 /\ kheap' = kheap
  BY DEF MapInto
<1>f. f \in Nat \ {0} /\ f \notin used /\ f \in Frame /\ f # 0
  BY MemoryAssumption DEF Frame
<1> HIDE DEF i, j
<1>1. /\ FrameAt(d, v)' = f
      /\ \A w \in VPage \ {v} : FrameAt(d, w)' = FrameAt(d, w)
      /\ \A c \in Directories \ {d}, w \in VPage : FrameAt(c, w)' = FrameAt(c, w)
  BY <1>t, <1>d, PlacedPages
\* Every entry but the one written was there before, or is empty.
<1>2. ASSUME NEW u \in InUse', NEW k \in Entry, u # t \/ k # j, pte'[u][k] # 0
      PROVE  u \in InUse /\ pte'[u][k] = pte[u][k]
  <2>1. CASE u # t
    BY <2>1, <1>b, <1>c
  <2>2. CASE u = t
    BY <2>2, <1>2, <1>b, <1>c
  <2> QED BY <2>1, <2>2
<1>3. \A u \in InUse, k \in Entry : pte[u][k] # f
  BY <1>a, <1>f, ReachableMember DEF FramesExclusive
<1>4. \A x : x \in Reachable' => x \in Reachable \cup {f}
  <2> SUFFICES ASSUME NEW x, x \in Reachable' PROVE x \in Reachable \cup {f}
    OBVIOUS
  <2>1. PICK u \in InUse', k \in Entry : x # 0 /\ pte'[u][k] = x
    BY ReachableMember
  <2>2. CASE u = t /\ k = j
    BY <2>1, <2>2, <1>b
  <2>3. CASE u # t \/ k # j
    BY <2>1, <2>3, <1>2, ReachableMember
  <2> QED BY <2>2, <2>3
<1>5. f \in Reachable'
  BY <1>b, <1>c, <1>f, ReachableMember
<1>6. \A x : x \in Reachable => x \in Reachable' \cup {FrameAt(d, v)}
  <2> SUFFICES ASSUME NEW x, x \in Reachable PROVE x \in Reachable' \cup {FrameAt(d, v)}
    OBVIOUS
  <2>1. PICK u \in InUse, k \in Entry : x # 0 /\ pte[u][k] = x
    BY ReachableMember
  <2>2. CASE u = t /\ k = j
    <3>1. FrameAt(d, v) = x
      BY <2>1, <2>2, <1>c DEF FrameAt, i, j
    <3> QED BY <3>1
  <2>3. CASE u # t \/ k # j
    <3>1. pte'[u][k] = x
      BY <2>1, <2>3, <1>b, <1>c
    <3> QED BY <2>1, <3>1, <1>c, ReachableMember
  <2> QED BY <2>2, <2>3
<1>7. \A x : x \in FramesOf(d)' => x \in FramesOf(d) \cup {f}
  <2> SUFFICES ASSUME NEW x, x \in FramesOf(d)' PROVE x \in FramesOf(d) \cup {f}
    OBVIOUS
  <2>1. PICK u \in TablesOf(d)', k \in Entry : x # 0 /\ pte'[u][k] = x
    BY FrameMember
  <2>2. CASE u = t /\ k = j
    BY <2>1, <2>2, <1>b
  <2>3. CASE u # t \/ k # j
    <3>1. u \in InUse'
      BY <1>d, InUseMember
    <3>2. u \in InUse /\ pte[u][k] = x
      BY <2>1, <2>3, <3>1, <1>2
    <3>3. u \in TablesOf(d)
      BY <3>2, <1>c
    <3> QED BY <2>1, <3>2, <3>3, FrameMember
  <2> QED BY <2>2, <2>3
<1>8. \A x : x \in Reachable' /\ x \notin FramesOf(d)' => x \in Reachable /\ x \notin FramesOf(d)
  <2> SUFFICES ASSUME NEW x, x \in Reachable', x \notin FramesOf(d)'
               PROVE  x \in Reachable /\ x \notin FramesOf(d)
    OBVIOUS
  <2>1. PICK u \in InUse', k \in Entry : x # 0 /\ pte'[u][k] = x
    BY ReachableMember
  <2>2. u # t
    BY <2>1, <1>c, FrameMember
  <2>3. u \in InUse /\ pte[u][k] = x
    BY <2>1, <2>2, <1>2
  <2>4. u \notin TablesOf(d)
    BY <2>1, <1>c, FrameMember
  <2>5. ASSUME x \in FramesOf(d) PROVE FALSE
    <3>1. PICK w \in TablesOf(d), l \in Entry : pte[w][l] = x
      BY <2>5, FrameMember
    <3>2. w \in InUse
      BY InUseMember
    <3> QED BY <2>1, <2>3, <2>4, <3>1, <3>2, <1>a DEF FramesExclusive
  <2> QED BY <2>1, <2>3, <2>5, ReachableMember
<1>9. FramesExclusive'
  <2>1. ASSUME NEW u \in InUse', NEW w \in InUse', NEW k \in Entry, NEW l \in Entry,
               pte'[u][k] = pte'[w][l], pte'[u][k] # 0
        PROVE  u = w /\ k = l
    <3>1. ASSUME NEW y \in InUse', NEW m \in Entry, pte'[y][m] = f PROVE y = t /\ m = j
      BY <3>1, <1>2, <1>3, <1>f
    <3>2. CASE pte'[u][k] = f
      <4>1. u = t /\ k = j
        BY <3>1, <3>2
      <4>2. pte'[w][l] = f
        BY <2>1, <3>2
      <4>3. w = t /\ l = j
        BY <3>1, <4>2
      <4> QED BY <4>1, <4>3
    <3>3. CASE pte'[u][k] # f
      <4>1. (u # t \/ k # j) /\ (w # t \/ l # j)
        BY <2>1, <3>3, <1>b
      <4>2. u \in InUse /\ w \in InUse /\ pte[u][k] = pte[w][l] /\ pte[u][k] # 0
        BY <2>1, <4>1, <1>2
      <4> QED BY <4>2, <1>a DEF FramesExclusive
    <3> QED BY <3>2, <3>3
  <2>2. Reachable' \cup kheap' \subseteq used' /\ Reachable' \cap kheap' = {}
    BY <1>a, <1>0, <1>4, <1>f DEF FramesExclusive
  <2> QED BY <2>1, <2>2 DEF FramesExclusive
<1>10. free_pages' = Cardinality(Frame \ used') + 1
  <2>1. Frame \ used' = (Frame \ used) \ {f}
    BY <1>0
  <2>2. IsFiniteSet(Frame \ used) /\ Cardinality(Frame \ used) \in Nat
    BY <1>a, PoolsFinite
  <2>3. Cardinality((Frame \ used) \ {f}) = Cardinality(Frame \ used) - 1
    BY <2>2, <1>f, FS_RemoveElement
  <2>4. free_pages = Cardinality(Frame \ used) + 1
    BY <1>a DEF PoolsExact
  <2>5. Cardinality(Frame \ used') = Cardinality(Frame \ used) - 1
    BY <2>1, <2>3
  <2>6. free_pages' = free_pages - 1
    BY <1>0
  <2> QED BY <2>2, <2>4, <2>5, <2>6
<1>11. /\ free_table_count' = Cardinality(free_tables')
       /\ free_table_count' + Cardinality(TablesOf(d)') = free_table_count + Cardinality(TablesOf(d))
  <2>1. /\ IsFiniteSet(free_tables) /\ Cardinality(free_tables) \in Nat
        /\ IsFiniteSet(TablesOf(d)) /\ Cardinality(TablesOf(d)) \in Nat
    <3>1. free_tables \subseteq Tables /\ TablesOf(d) \subseteq Tables
      BY <1>a, TablesInPool DEF Typed
    <3> QED BY <3>1, <1>a, PoolsFinite
  <2>2. free_table_count = Cardinality(free_tables)
    BY <1>a DEF PoolsExact
  <2>3. CASE dirent[d][i] = t
    <3>1. TablesOf(d)' = TablesOf(d) /\ free_table_count' = free_table_count
      BY <2>3, <1>b, <1>c
    <3>2. free_tables' = free_tables
      BY <2>3, <1>a, <1>b, <1>c DEF PoolsExact
    <3> QED BY <3>1, <3>2, <2>2
  <2>4. CASE dirent[d][i] # t
    <3>1. t \in free_tables /\ t \notin TablesOf(d) /\ free_table_count' = free_table_count - 1
      BY <2>4, <1>b, <1>c
    <3>2. Cardinality(free_tables \ {t}) = Cardinality(free_tables) - 1
      BY <2>1, <3>1, FS_RemoveElement
    <3>3. Cardinality(TablesOf(d) \cup {t}) = Cardinality(TablesOf(d)) + 1
      BY <2>1, <3>1, FS_AddElement
    <3>4. Cardinality(free_tables') = Cardinality(free_tables) - 1
      BY <3>2, <1>b
    <3>5. Cardinality(TablesOf(d)') = Cardinality(TablesOf(d)) + 1
      BY <3>3, <1>c
    <3> QED BY <2>1, <2>2, <3>1, <3>4, <3>5
  <2> QED BY <2>3, <2>4
<1>12. PoolsExact'
  <2>1. \A q, r \in Alive' : q # r => page_directory'[q] # page_directory'[r]
    BY <1>a, <1>d DEF PoolsExact
  <2>2. \A c, e \in Directories', k, l \in Slot :
          dirent'[c][k] = dirent'[e][l] /\ dirent'[c][k] # NoTable => c = e /\ k = l
    <3> SUFFICES ASSUME NEW c \in Directories, NEW e \in Directories, NEW k \in Slot, NEW l \in Slot,
                        dirent'[c][k] = dirent'[e][l], dirent'[c][k] # NoTable
                 PROVE  c = e /\ k = l
      BY <1>d
    <3>1. \A b \in Directories, m \in Slot : dirent[b][m] = t => b = d /\ m = i
      <4> SUFFICES ASSUME NEW b \in Directories, NEW m \in Slot, dirent[b][m] = t
                   PROVE  b = d /\ m = i
        OBVIOUS
      <4>1. t \in InUse
        BY <1>c, TableMember, InUseMember
      <4> QED BY <4>1, <1>a, <1>c DEF PoolsExact
    <3>2. \A b \in Directories, m \in Slot : dirent'[b][m] = t => b = d /\ m = i
      BY <3>1, <1>b
    <3>3. CASE dirent'[c][k] = t
      <4>1. c = d /\ k = i
        BY <3>2, <3>3
      <4>2. dirent'[e][l] = t
        BY <3>3
      <4>3. e = d /\ l = i
        BY <3>2, <4>2
      <4> QED BY <4>1, <4>3
    <3>4. CASE dirent'[c][k] # t
      <4>1. dirent'[c][k] = dirent[c][k] /\ dirent'[e][l] = dirent[e][l]
        BY <3>4, <1>b
      <4>2. dirent[c][k] = dirent[e][l] /\ dirent[c][k] # NoTable
        BY <4>1
      <4> QED BY <4>2, <1>a DEF PoolsExact
    <3> QED BY <3>3, <3>4
  <2>3. Directories' \cap InUse' = {} /\ free_tables' = Tables \ (Directories' \cup InUse')
    BY <1>a, <1>b, <1>c, <1>d DEF PoolsExact
  <2> QED BY <1>10, <1>11, <2>1, <2>2, <2>3 DEF PoolsExact
<1>13. SpacesExist'
  BY <1>a DEF SpacesExist
<1>14. /\ used' \in SUBSET Frame /\ free_tables' \in SUBSET Tables
       /\ dirent' \in [Tables -> [Slot -> Tables \cup {NoTable}]]
       /\ pte' \in [Tables -> [Entry -> Frame \cup {0}]]
  BY <1>a, <1>0, <1>f, MapPlaces DEF Typed
<1> QED BY <1>1, <1>4, <1>5, <1>6, <1>7, <1>8, <1>9, <1>11, <1>12, <1>13, <1>14
-----------------------------------------------------------------------------
(* The arithmetic of segments and breaks. *)

LEMMA Greatest ==
  ASSUME NEW S \in SUBSET Nat, S # {}, NEW B \in Nat, \A s \in S : s <= B
  PROVE  \E m \in S : \A s \in S : s <= m
<1> DEFINE R == OpToRel(<, Nat)
           T == {B - s : s \in S}
<1>1. IsWellFoundedOn(R, Nat)
  BY NatLessThanWellFounded
<1>2. T \subseteq Nat /\ T # {}
  <2>1. \A s \in S : B - s \in Nat
    OBVIOUS
  <2>2. T \subseteq Nat
    BY <2>1
  <2>3. T # {}
    OBVIOUS
  <2> QED BY <2>2, <2>3
<1>3. PICK x \in T : \A y \in T : <<y, x>> \notin R
  <2> HIDE DEF R, T
  <2> QED BY <1>1, <1>2, WFMin
<1>4. PICK m \in S : x = B - m
  OBVIOUS
<1>5. \A s \in S : s <= m
  <2> SUFFICES ASSUME NEW s \in S, s > m PROVE FALSE
    OBVIOUS
  <2>1. B - s \in T /\ B - s \in Nat /\ x \in Nat /\ B - s < x
    BY <1>2, <1>4
  <2>2. <<B - s, x>> \in R
    BY <2>1 DEF OpToRel
  <2> QED BY <1>3, <2>1, <2>2
<1> QED BY <1>5

\* A number of bytes and the pages it needs.
LEMMA Ceiling ==
  ASSUME NEW m \in Nat, NEW k, k = PagesNeeded(m)
  PROVE  k \in Nat /\ m <= PG * k /\ PG * k < m + PG
<1>1. PG \in Nat \ {0} /\ m + PG - 1 \in Nat
  BY MemoryAssumption
<1> DEFINE r == (m + PG - 1) % PG
           a == m + PG - 1
<1>2. r = a % PG /\ k = a \div PG /\ a \in Nat
  BY <1>1 DEF PagesNeeded
<1> HIDE DEF r
<1>3. k \in Nat /\ r \in 0 .. PG - 1 /\ a = PG * k + r
  <2> HIDE DEF a
  <2>1. k \in Nat
    BY <1>1, <1>2, Division
  <2>2. r \in 0 .. PG - 1
    BY <1>1, <1>2, Division
  <2>3. a = PG * k + r
    BY <1>1, <1>2, Division
  <2> QED BY <2>1, <2>2, <2>3
<1>4. PG * k \in Nat
  BY <1>1, <1>3
<1> QED BY <1>1, <1>3, <1>4

\* Segments in the user half end there.
LEMMA SegmentEnds ==
  ASSUME NEW vaddr \in Nat, NEW memsz \in Nat, memsz # 0,
         NEW q \in Nat, NEW r \in 0 .. PG - 1, vaddr = PG * q + r,
         NEW k \in Nat, memsz <= PG * k, q .. q + k - 1 \subseteq VPage
  PROVE  vaddr + memsz <= (DIRS * FANOUT + 1) * PG
<1>1. PG \in Nat \ {0} /\ DIRS * FANOUT \in Nat
  BY MemoryAssumption
<1>6. k >= 1
  <2>1. SUFFICES ASSUME k = 0 PROVE FALSE
    OBVIOUS
  <2>2. PG * k = 0
    BY <1>1, <2>1
  <2> QED BY <2>2
<1> DEFINE n == DIRS * FANOUT
<1>7. q + k - 1 \in VPage
  BY <1>6
<1>8. n \in Nat /\ q + k <= n
  BY <1>1, <1>7 DEF VPage
<1> HIDE DEF n
<1>9. PG * q \in Nat /\ PG * k \in Nat /\ PG * (q + k) = PG * q + PG * k
  BY <1>1
<1>10. PG * (q + k) <= PG * n
  BY <1>1, <1>8
<1>11. (n + 1) * PG = PG * n + PG /\ PG * n \in Nat
  BY <1>1, <1>8
<1>12. vaddr + memsz <= PG * n + PG
  BY <1>1, <1>9, <1>10, <1>11
<1> QED BY <1>11, <1>12 DEF n

\* The break of a fresh program is a number.
LEMMA HeapBaseType ==
  ASSUME NEW img \in IMAGES
  PROVE  HeapBase(img) \in Nat
<1> DEFINE ends == {SegmentEnd(img.segs[i]) : i \in DOMAIN img.segs} \cup {0}
           B == (DIRS * FANOUT + 1) * PG
<1>1. B \in Nat /\ PG \in Nat
  <2>1. PG \in Nat /\ DIRS \in Nat /\ FANOUT \in Nat
    BY MemoryAssumption
  <2>2. DIRS * FANOUT + 1 \in Nat
    BY <2>1
  <2> QED BY <2>1, <2>2
<1> HIDE DEF B
<1>2. ASSUME NEW i \in DOMAIN img.segs
      PROVE  SegmentEnd(img.segs[i]) \in Nat /\ SegmentEnd(img.segs[i]) <= B
  <2> DEFINE s == img.segs[i]
             vaddr == s.vaddr
             memsz == s.memsz
             q == vaddr \div PG
             r == vaddr % PG
             k == PagesNeeded(memsz)
  <2>1. s \in [vaddr : Nat, memsz : Nat] /\ SegmentPages(s) \subseteq VPage
    <3>1. img.segs \in Seq([vaddr : Nat, memsz : Nat])
      BY ImagesAssumption
    <3>2. \A S, x : x \in Seq(S) => \A j \in DOMAIN x : x[j] \in S
      OBVIOUS
    <3>3. s \in [vaddr : Nat, memsz : Nat]
      BY <3>1, <3>2, Zenon
    <3> QED BY <3>3, ImagesAssumption
  <2>2. vaddr \in Nat /\ memsz \in Nat
    BY <2>1
  <2>3. q .. q + k - 1 \subseteq VPage
    BY <2>1 DEF SegmentPages
  <2>4. q = vaddr \div PG /\ r = vaddr % PG /\ k = PagesNeeded(memsz) /\ PG \in Nat \ {0}
    BY MemoryAssumption
  <2>5. SegmentEnd(s) = IF memsz = 0 THEN 0 ELSE vaddr + memsz
    BY DEF SegmentEnd
  <2> HIDE DEF vaddr, memsz, q, r, k
  <2>6. memsz # 0 => vaddr + memsz <= (DIRS * FANOUT + 1) * PG
    <3>1. q \in Nat
      BY <2>2, <2>4, Division
    <3>2. r \in 0 .. PG - 1
      BY <2>2, <2>4, Division
    <3>3. vaddr = PG * q + r
      BY <2>2, <2>4, Division
    <3>4. k \in Nat /\ memsz <= PG * k
      BY <2>2, <2>4, Ceiling
    <3> QED BY <2>2, <2>3, <3>1, <3>2, <3>3, <3>4, SegmentEnds
  <2>7. memsz # 0 => vaddr + memsz <= B
    BY <2>6 DEF B
  <2> HIDE DEF s
  <2>8. SegmentEnd(s) \in Nat /\ SegmentEnd(s) <= B
    BY <1>1, <2>2, <2>5, <2>7
  <2> QED BY <2>8 DEF s
<1>3. ends \in SUBSET Nat /\ ends # {} /\ \A e \in ends : e <= B
  BY <1>1, <1>2
<1> HIDE DEF ends
<1>4. \E m \in ends : \A e \in ends : e <= m
  BY <1>1, <1>3, Greatest
<1> DEFINE top == CHOOSE e \in ends : \A f \in ends : f <= e
<1>5. top \in ends
  BY <1>4
<1>6. HeapBase(img) = PagesNeeded(top) * PG
  BY DEF HeapBase, ends
<1>7. top \in Nat
  BY <1>3, <1>5
<1> HIDE DEF top
<1>8. PagesNeeded(top) \in Nat
  BY <1>7, Ceiling
<1> QED BY <1>1, <1>6, <1>8
LEMMA NoWrap ==
  ASSUME NEW h \in Nat, NEW a \in Nat, NEW w \in Nat \ {0}, a < w,
         NEW q \in Nat, NEW b \in 0 .. w - 1, h + a = w * q + b, ~(b < h)
  PROVE  b = h + a
<1>1. q = 0
  <2>1. SUFFICES ASSUME q >= 1 PROVE FALSE
    OBVIOUS
  <2>2. w * q >= w
    BY <2>1
  <2>3. w * q \in Nat
    OBVIOUS
  <2> QED BY <2>2, <2>3
<1>2. w * q = 0
  BY <1>1
<1> QED BY <1>2

LEMMA PageBelow ==
  ASSUME NEW e \in Nat, NEW s \in Nat, e < PG * s, NEW v, v = e \div PG
  PROVE  v \in Nat /\ v < s
<1>1. PG \in Nat \ {0}
  BY MemoryAssumption
<1> DEFINE r == e % PG
<1>2. r = e % PG
  OBVIOUS
<1> HIDE DEF r
<1>3. v \in Nat
  BY <1>1, <1>2, Division
<1>4. r \in 0 .. PG - 1
  BY <1>1, <1>2, Division
<1>5. e = PG * v + r
  BY <1>1, <1>2, Division
<1>6. v < s
  BY <1>1, <1>3, <1>4, <1>5, Quotient
<1> QED BY <1>3, <1>6

\* No wrap of the break gets past the checks of sbrk, and the pages of the
\* growth are below the stack.
LEMMA BreakGrows ==
  ASSUME NEW h \in Nat, NEW inc \in INCREMENTS, NEW n, NEW b
  PROVE  inc > 0 /\ n = PagesNeeded(inc) /\ b = (h + n * PG) % WORD /\ ~(b < h)
         /\ ~(b >= StackPage * PG - PG)
           => \A k \in 0 .. n - 1 : (h + k * PG) \div PG \in VPage \ {StackPage}
<1>0. SUFFICES ASSUME inc > 0, n = PagesNeeded(inc), b = (h + n * PG) % WORD, ~(b < h),
                      ~(b >= StackPage * PG - PG)
               PROVE  \A k \in 0 .. n - 1 : (h + k * PG) \div PG \in VPage \ {StackPage}
  OBVIOUS
<1>1. PG \in Nat \ {0} /\ inc \in Nat /\ WORD \in Nat /\ inc + PG <= WORD
  BY <1>0, MemoryAssumption, IncrementAssumption
<1>2. n \in Nat /\ PG * n < inc + PG
  BY <1>0, <1>1, Ceiling
<1> DEFINE a == PG * n
           c == h + n * PG
           q == c \div WORD
<1>3. a \in Nat /\ c = h + a /\ c \in Nat /\ a < WORD /\ WORD \in Nat \ {0}
  BY <1>1, <1>2
<1>4. b = c % WORD /\ q = c \div WORD
  BY <1>0
<1>5. StackPage \in Nat
  BY StackFacts DEF VPage
<1> HIDE DEF a, c, q
<1>6. q \in Nat
  BY <1>3, <1>4, Division
<1>7. b \in 0 .. WORD - 1
  BY <1>3, <1>4, Division
<1>8. c = WORD * q + b
  BY <1>3, <1>4, Division
<1>9. b = h + a
  <2>1. h + a = WORD * q + b /\ ~(b < h)
    BY <1>0, <1>3, <1>8
  <2> QED BY <2>1, <1>3, <1>6, <1>7, NoWrap
<1> DEFINE s == PG * StackPage
<1>10. s \in Nat /\ StackPage * PG = s
  <2> HIDE DEF StackPage
  <2> QED BY <1>1, <1>5
<1>11. h + a < s
  <2>1. ~(b >= s - PG)
    BY <1>0, <1>10
  <2> HIDE DEF s
  <2> QED BY <2>1, <1>1, <1>3, <1>7, <1>9, <1>10
<1>12. ASSUME NEW k \in 0 .. n - 1
       PROVE  (h + k * PG) \div PG \in VPage \ {StackPage}
  <2> DEFINE e == h + k * PG
             v == e \div PG
  <2>1. k \in Nat /\ k <= n
    BY <1>2
  <2>2. PG * k <= a /\ k * PG = PG * k /\ PG * k \in Nat
    BY <1>1, <1>2, <2>1 DEF a
  <2>3. e \in Nat /\ e < PG * StackPage
    <3>1. k * PG \in Nat /\ k * PG <= a /\ h + a < PG * StackPage /\ PG * StackPage \in Nat
      BY <2>2, <1>10, <1>11
    <3> QED BY <3>1, <1>3
  <2>x. v = e \div PG
    OBVIOUS
  <2> HIDE DEF e, v
  <2>4. v \in Nat /\ v < StackPage
    BY <2>3, <2>x, <1>5, PageBelow
  <2>5. v \in VPage \ {StackPage}
    <3>1. VPage = 0 .. StackPage
      BY DEF VPage, StackPage
    <3> HIDE DEF StackPage
    <3> QED BY <3>1, <2>4, <1>5
  <2> QED BY <2>5 DEF v, e
<1> QED BY <1>12
-----------------------------------------------------------------------------
(* The steps. *)

\* What LostOnlyByRemap and StackStays say of a step.
LosesOnlyRemapped ==
    Lost' \subseteq Lost
      \cup {FrameAt(page_directory[job.proc], v) : v \in job.todo \ job'.todo}

KeepsStacks ==
    \A p \in Procs : status[p] = "running" /\ status'[p] = "running" /\ job.op # "exec"
                     /\ job'.op # "exec" =>
      /\ FrameAt(page_directory[p], StackPage) # 0
      /\ FrameAt(page_directory[p], StackPage)' = FrameAt(page_directory[p], StackPage)

Good == IInv' /\ LosesOnlyRemapped /\ KeepsStacks

LEMMA OwnDirectory ==
  /\ \A p \in Procs : status[p] # "none" => page_directory[p] \in Directories
  /\ PoolsExact => \A p, q \in Procs : status[p] # "none" /\ status[q] # "none" /\ p # q =>
                     page_directory[p] # page_directory[q]
BY DirectoryMember DEF PoolsExact, Alive

\* The primed form of what is said of the address space of a process.
LEMMA StackAt ==
  ASSUME NEW p, NEW c, c = page_directory'[p]
  PROVE  /\ HasStack(p)' <=> FrameAt(c, StackPage)' # 0
         /\ FrameAt(page_directory[p], StackPage)' = FrameAt(c, StackPage)'
BY DEF HasStack, FrameAt

LEMMA BuildAt ==
  ASSUME NEW d, d = page_directory'[job'.proc]
  PROVE  BuildKept' <=>
           (job'.op \in {"load", "fork"} =>
              /\ job'.used \subseteq used' /\ job'.used \cap FramesOf(d)' = {}
              /\ (Reachable' \ FramesOf(d)') \cup kheap' \subseteq job'.used
              /\ free_table_count' + Cardinality(TablesOf(d)') + 1 = job'.tables)
<1>1. FramesOf(page_directory[job.proc])' = FramesOf(d)' /\ TablesOf(page_directory[job.proc])' = TablesOf(d)'
  BY DEF FramesOf, FramesIn, TablesOf
<1> QED BY <1>1 DEF BuildKept

LEMMA StackKept ==
  ASSUME NEW p, page_directory'[p] = page_directory[p], NEW c, c = page_directory[p],
         FrameAt(c, StackPage)' = FrameAt(c, StackPage)
  PROVE  /\ HasStack(p)' <=> HasStack(p)
         /\ FrameAt(page_directory[p], StackPage)' = FrameAt(page_directory[p], StackPage)
<1>1. HasStack(p)' <=> FrameAt(c, StackPage)' # 0
  BY StackAt
<1>2. HasStack(p) <=> FrameAt(c, StackPage) # 0
  BY DEF HasStack
<1>3. FrameAt(page_directory[p], StackPage)' = FrameAt(c, StackPage)'
  BY StackAt
<1> QED BY <1>1, <1>2, <1>3

\* A page holds a frame of its address space or none.
LEMMA FrameType ==
  ASSUME Typed, SpacesExist, NEW d \in Directories, NEW v \in VPage
  PROVE  FrameAt(d, v) \in Frame \cup {0} /\ FrameAt(d, v) \in FramesOf(d) \cup {0}
<1>1. DirIndex(v) \in Slot /\ TableIndex(v) \in Entry
  BY PageIndex
<1>2. d \in Tables
  BY DirectoryMember DEF SpacesExist
<1>3. CASE dirent[d][DirIndex(v)] = NoTable
  BY <1>3 DEF FrameAt
<1>4. CASE dirent[d][DirIndex(v)] # NoTable
  <2> DEFINE t == dirent[d][DirIndex(v)]
             j == TableIndex(v)
  <2>1. t \in Tables /\ t \in TablesOf(d) /\ j \in Entry
    BY <1>1, <1>2, <1>4, TableMember DEF Typed
  <2>2. FrameAt(d, v) = pte[t][j]
    BY <1>4 DEF FrameAt
  <2> HIDE DEF t, j
  <2>3. pte[t][j] \in Frame \cup {0}
    BY <2>1 DEF Typed
  <2> QED BY <2>1, <2>2, <2>3, FrameMember
<1> QED BY <1>3, <1>4

LEMMA OverAt ==
  ASSUME NEW d, d = page_directory'[job'.proc]
  PROVE  OverKept' <=>
           (job'.op \in {"load", "fork"} =>
              /\ used' \subseteq job'.used \cup FramesOf(d)' \cup job'.over
              /\ job'.op = "fork" => /\ job'.over = {} /\ job'.segs = << >>
                                     /\ \A v \in job'.todo : FrameAt(d, v)' = 0)
<1>1. FramesOf(page_directory[job.proc])' = FramesOf(d)'
  BY DEF FramesOf, FramesIn, TablesOf
<1>2. \A v : FrameAt(page_directory[job.proc], v)' = FrameAt(d, v)'
  BY DEF FrameAt
<1> QED BY <1>1, <1>2 DEF OverKept

LEMMA StacksKeptBy ==
  ASSUME IInv, \A p \in Procs : status[p] = "running" /\ status'[p] = "running" /\ job.op # "exec" =>
                 FrameAt(page_directory[p], StackPage)' = FrameAt(page_directory[p], StackPage)
  PROVE  KeepsStacks
BY DEF IInv, Stacks, HasStack, KeepsStacks

\* Steps that change the processes or the job and no memory.
LEMMA QuietStep ==
  ASSUME IInv, UNCHANGED <<pmm, pool, spaces, page_directory>>,
         \A p \in Procs : status'[p] = "none" <=> status[p] = "none",
         status' \in [Procs -> Statuses],
         heap_start' \in [Procs -> Nat], heap_end' \in [Procs -> Nat]
  PROVE  /\ Memory' /\ LosesOnlyRemapped /\ KeepsStacks
         /\ \A p : HasStack(p)' <=> HasStack(p)
         /\ (job'.op \in {"load", "fork"} => job.op = job'.op /\ job.proc = job'.proc
                /\ job.used = job'.used /\ job.tables = job'.tables) => BuildKept'
<1>0. /\ used' = used /\ free_pages' = free_pages /\ kheap' = kheap /\ free_tables' = free_tables
      /\ free_table_count' = free_table_count /\ dirent' = dirent /\ pte' = pte
      /\ page_directory' = page_directory
  BY DEF pmm, pool, spaces
<1>1. FramesExclusive' /\ PoolsExact' /\ SpacesExist'
  BY MemoryKept DEF IInv
<1>2. Typed'
  BY <1>0 DEF Typed, IInv, Memory
<1>3. /\ Reachable' = Reachable
      /\ \A d : TablesOf(d)' = TablesOf(d) /\ FramesOf(d)' = FramesOf(d)
      /\ \A d, v : FrameAt(d, v)' = FrameAt(d, v)
  BY <1>0, OwnersKept
<1>4. LosesOnlyRemapped
  BY <1>0, <1>3 DEF Lost, LosesOnlyRemapped
<1>5. ASSUME NEW p
      PROVE  /\ HasStack(p)' <=> HasStack(p)
             /\ FrameAt(page_directory[p], StackPage)' = FrameAt(page_directory[p], StackPage)
  <2> DEFINE c == page_directory[p]
  <2>1. FrameAt(c, StackPage)' = FrameAt(c, StackPage)
    BY <1>0 DEF FrameAt
  <2> QED BY <1>0 DEF FrameAt, HasStack
<1>6. KeepsStacks
  BY <1>5, StacksKeptBy
<1>7. ASSUME job'.op \in {"load", "fork"} => job.op = job'.op /\ job.proc = job'.proc
               /\ job.used = job'.used /\ job.tables = job'.tables
      PROVE  BuildKept'
  <2>1. SUFFICES ASSUME job'.op \in {"load", "fork"} PROVE BuildKept'
    BY BuildAt
  <2>2. job.op = job'.op /\ job.proc = job'.proc /\ job.used = job'.used /\ job.tables = job'.tables
    BY <1>7, <2>1
  <2> DEFINE d == page_directory[job.proc]
  <2>3. BuildKept /\ d = page_directory'[job'.proc]
    BY <1>0, <2>2 DEF IInv
  <2>4. /\ job.used \subseteq used /\ job.used \cap FramesOf(d) = {}
        /\ (Reachable \ FramesOf(d)) \cup kheap \subseteq job.used
        /\ free_table_count + Cardinality(TablesOf(d)) + 1 = job.tables
    BY <2>1, <2>2, <2>3 DEF BuildKept
  <2> SUFFICES ASSUME NEW e, e = d PROVE BuildKept'
    OBVIOUS
  <2>5. /\ job'.used \subseteq used' /\ job'.used \cap FramesOf(e)' = {}
        /\ (Reachable' \ FramesOf(e)') \cup kheap' \subseteq job'.used
        /\ free_table_count' + Cardinality(TablesOf(e)') + 1 = job'.tables
    BY <1>0, <1>3, <2>2, <2>4
  <2> QED BY <2>3, <2>5, BuildAt
<1> QED BY <1>1, <1>2, <1>4, <1>5, <1>6, <1>7 DEF Memory
LEMMA JobTypes ==
  /\ NoJob \in Job
  /\ JobSound => /\ job.op \in {"none", "load", "fork", "exec", "sbrk"}
                 /\ job.todo \in SUBSET VPage /\ job.segs \in Seq(Segment)
                 /\ job.ok \in BOOLEAN /\ job.break \in Nat
<1>1. NoJob \in Job
  BY DEF NoJob, Job, Segment
<1>2. ASSUME JobSound PROVE /\ job.op \in {"none", "load", "fork", "exec", "sbrk"}
                           /\ job.todo \in SUBSET VPage /\ job.segs \in Seq(Segment)
                           /\ job.ok \in BOOLEAN /\ job.break \in Nat
  BY <1>2 DEF JobSound, Job
<1> QED BY <1>1, <1>2

LEMMA StartType ==
  ASSUME Memory, NEW op \in {"load", "fork", "exec", "sbrk"}, NEW p \in Procs,
         NEW parent \in Procs \cup {NoTable}, NEW todo \in SUBSET VPage,
         NEW segs \in Seq(Segment), NEW ok \in BOOLEAN, NEW break \in Nat,
         Start(op, p, parent, todo, segs, ok, break)
  PROVE  /\ job' \in Job
         /\ job'.op = op /\ job'.proc = p /\ job'.todo = todo /\ job'.segs = segs
         /\ job'.ok = ok /\ job'.used = used /\ job'.tables = free_table_count /\ job'.over = {}
<1>1. used \in SUBSET Frame /\ free_table_count \in Nat
  BY PoolsFinite DEF Memory, Typed, PoolsExact
<1> QED BY <1>1 DEF Start, Job

LEMMA SbrkStep ==
  ASSUME IInv, NEW p \in Procs, NEW inc \in INCREMENTS, sys_sbrk(p, inc)
  PROVE  Good
<1>0. /\ UNCHANGED <<pmm, pool, spaces, page_directory>> /\ status' = status /\ heap_start' = heap_start
      /\ job.op = "none" /\ status[p] = "running"
  BY DEF sys_sbrk
<1>1. Typed /\ heap_end \in [Procs -> Nat] /\ heap_start \in [Procs -> Nat] /\ status \in [Procs -> Statuses]
  BY DEF IInv, Memory, Typed
<1>2. CASE Shrinks(p, inc)
  <2>1. heap_end' \in [Procs -> Nat]
    <3>1. inc \in Int /\ -inc <= heap_end[p] - heap_start[p] /\ heap_end[p] \in Nat /\ heap_start[p] \in Nat
      BY <1>1, <1>2, MemoryAssumption DEF Shrinks
    <3>2. heap_end[p] + inc \in Nat
      BY <3>1
    <3>3. heap_end' = [heap_end EXCEPT ![p] = heap_end[p] + inc]
      BY <1>2 DEF Shrinks
    <3> QED BY <1>1, <3>2, <3>3
  <2>2. job' = job
    BY <1>2 DEF Shrinks
  <2>3. /\ Memory' /\ LosesOnlyRemapped /\ KeepsStacks
        /\ \A q : HasStack(q)' <=> HasStack(q)
        /\ BuildKept'
    BY <1>0, <1>1, <2>1, <2>2, QuietStep
  <2>4. JobSound' /\ Stacks'
    <3>1. JobSound'
      BY <1>0, <2>2 DEF JobSound, IInv
    <3>2. Stacks'
      BY <1>0, <2>2, <2>3 DEF Stacks, IInv
    <3> QED BY <3>1, <3>2
  <2> QED BY <2>3, <2>4 DEF Good, IInv
<1>3. CASE Grows(p, inc)
  <2> DEFINE h == heap_end[p]
             n == PagesNeeded(inc)
             b == (h + n * PG) % WORD
             todo == {(h + k * PG) \div PG : k \in 0 .. n - 1}
  <2>1. /\ job'.op = "sbrk" /\ job'.proc = p /\ job'.todo = todo /\ job'.segs = << >>
        /\ job'.break = b /\ heap_end' = heap_end
    BY <1>3 DEF Grows, Start, NewBreak
  <2>2. inc > 0 /\ ~(b < h) /\ ~(b >= StackPage * PG - PG) /\ h \in Nat
    BY <1>1, <1>3 DEF Grows, SbrkRefuses, NewBreak
  <2>3. \A k \in 0 .. n - 1 : (h + k * PG) \div PG \in VPage \ {StackPage}
    <3> HIDE DEF h, b, n
    <3>1. n = PagesNeeded(inc) /\ b = (h + n * PG) % WORD
      BY DEF b, n
    <3> QED BY <2>2, <3>1, BreakGrows
  <2>4. todo \in SUBSET VPage /\ StackPage \notin todo
    BY <2>3
  <2>5. b \in Nat
    <3>1. inc \in Nat /\ PG \in Nat
      BY <2>2, MemoryAssumption
    <3>2. n \in Nat
      BY <3>1, Ceiling
    <3>3. n * PG \in Nat
      BY <3>1, <3>2
    <3>4. h + n * PG \in Nat
      BY <2>2, <3>3
    <3>5. WORD \in Nat \ {0}
      <4>1. DIRS \in Nat \ {0} /\ FANOUT \in Nat \ {0} /\ PG \in Nat \ {0} /\ WORD \in Nat
            /\ DIRS * FANOUT * PG <= WORD
        BY MemoryAssumption
      <4>2. DIRS * FANOUT \in Nat \ {0}
        BY <4>1
      <4>3. (DIRS * FANOUT) * PG \in Nat \ {0}
        BY <4>1, <4>2
      <4> QED BY <4>1, <4>3
    <3> DEFINE c == h + n * PG
    <3>6. b = c % WORD
      OBVIOUS
    <3> HIDE DEF b, c
    <3> QED BY <3>4, <3>5, <3>6 DEF c
  <2> HIDE DEF h, n, b, todo
  <2>6. /\ Memory' /\ LosesOnlyRemapped /\ KeepsStacks
        /\ \A q : HasStack(q)' <=> HasStack(q)
        /\ BuildKept'
    BY <1>0, <1>1, <2>1, QuietStep
  <2>7. JobSound'
    <3>1. << >> \in Seq(Segment) /\ DOMAIN << >> = {}
      OBVIOUS
    <3>2. Start("sbrk", p, NoTable, todo, << >>, TRUE, b)
      BY <1>3 DEF Grows, NewBreak, todo, b, n, h
    <3>3. job' \in Job
      BY <2>4, <2>5, <3>1, <3>2, StartType DEF IInv
    <3> QED BY <1>0, <2>1, <3>1, <3>3 DEF JobSound
  <2>8. Stacks'
    BY <1>0, <2>1, <2>4, <2>6 DEF Stacks, IInv
  <2> QED BY <2>6, <2>7, <2>8 DEF Good, IInv
<1> QED BY <1>2, <1>3 DEF sys_sbrk

LEMMA ExitStep ==
  ASSUME IInv, NEW p \in Procs, process_exit(p)
  PROVE  Good
<1>0. /\ UNCHANGED <<pmm, pool, spaces, page_directory>> /\ job' = job
      /\ heap_start' = heap_start /\ heap_end' = heap_end
      /\ job.op = "none" /\ status[p] = "running" /\ status' = [status EXCEPT ![p] = "dead"]
  BY DEF process_exit
<1>1. heap_end \in [Procs -> Nat] /\ heap_start \in [Procs -> Nat] /\ status \in [Procs -> Statuses]
  BY DEF IInv, Memory, Typed
<1>2. /\ status' \in [Procs -> Statuses] /\ \A q \in Procs : status'[q] = "none" <=> status[q] = "none"
      /\ \A q \in Procs : status'[q] = "running" => status[q] = "running"
  BY <1>0, <1>1 DEF Statuses
<1>3. /\ Memory' /\ LosesOnlyRemapped /\ KeepsStacks
      /\ \A q : HasStack(q)' <=> HasStack(q)
      /\ BuildKept'
  BY <1>0, <1>1, <1>2, QuietStep
<1>4. JobSound' /\ Stacks'
  BY <1>0, <1>2, <1>3 DEF JobSound, Stacks, IInv
<1> QED BY <1>3, <1>4 DEF Good, IInv

\* The steps that end an operation.
LEMMA SucceedStep ==
  ASSUME IInv, Succeed
  PROVE  Good
<1> DEFINE p == job.proc
<1>0. /\ UNCHANGED <<pmm, pool, spaces, page_directory>> /\ job' = NoJob
      /\ job.op # "none" /\ job.todo = {} /\ job.segs = << >> /\ job.ok
      /\ status' = [status EXCEPT ![p] = "running"]
      /\ heap_start' = [heap_start EXCEPT ![p] = IF job.op \in {"load", "exec"} THEN job.break ELSE @]
      /\ heap_end' = [heap_end EXCEPT ![p] = IF job.op = "fork" THEN @ ELSE job.break]
  BY DEF Succeed
<1>1. /\ heap_end \in [Procs -> Nat] /\ heap_start \in [Procs -> Nat] /\ status \in [Procs -> Statuses]
      /\ p \in Procs /\ job.break \in Nat /\ status[p] # "none"
      /\ job.op \in {"load", "fork", "exec", "sbrk"}
      /\ job.op = "sbrk" => status[p] = "running"
  BY <1>0, JobTypes DEF IInv, Memory, Typed, JobSound
<1> HIDE DEF p
<1>2. /\ status' \in [Procs -> Statuses] /\ \A q \in Procs : status'[q] = "none" <=> status[q] = "none"
      /\ \A q \in Procs : status'[q] = "running" => status[q] = "running" \/ q = p
  BY <1>0, <1>1 DEF Statuses
<1>3. heap_start' \in [Procs -> Nat] /\ heap_end' \in [Procs -> Nat]
  BY <1>0, <1>1
<1>4. job'.op = "none"
  BY <1>0 DEF NoJob
<1>5. /\ Memory' /\ LosesOnlyRemapped /\ KeepsStacks
      /\ \A q : HasStack(q)' <=> HasStack(q)
      /\ BuildKept'
  <2>1. ~(job'.op \in {"load", "fork"})
    BY <1>4
  <2> QED BY <1>0, <1>2, <1>3, <2>1, QuietStep
<1>6. HasStack(p)
  <2>1. CASE job.op = "sbrk"
    BY <2>1, <1>1 DEF IInv, Stacks
  <2>2. CASE job.op # "sbrk"
    <3>1. StackComes
      BY <2>2, <1>0, <1>1 DEF IInv, Stacks
    <3> QED BY <3>1, <1>0 DEF StackComes, p
  <2> QED BY <2>1, <2>2
<1>7. Stacks'
  <2>1. \A q \in Procs : status'[q] = "running" => HasStack(q)'
    BY <1>2, <1>5, <1>6 DEF IInv, Stacks, p
  <2> QED BY <1>4, <2>1 DEF Stacks
<1>8. JobSound'
  BY <1>0, <1>4, JobTypes DEF JobSound
<1> QED BY <1>5, <1>7, <1>8 DEF Good, IInv

LEMMA FailStep ==
  ASSUME IInv, ExecFails \/ SbrkFails
  PROVE  Good
<1>0. /\ UNCHANGED <<pmm, pool, spaces, page_directory>> /\ job' = NoJob
      /\ heap_start' = heap_start /\ heap_end' = heap_end
      /\ job.op \in {"exec", "sbrk"}
      /\ job.op = "exec" => status' = [status EXCEPT ![job.proc] = "dead"]
      /\ job.op = "sbrk" => status' = status
  BY DEF ExecFails, SbrkFails, procs
<1>1. /\ heap_end \in [Procs -> Nat] /\ heap_start \in [Procs -> Nat] /\ status \in [Procs -> Statuses]
      /\ job.proc \in Procs /\ status[job.proc] = "running"
  BY <1>0 DEF IInv, Memory, Typed, JobSound
<1>2. /\ status' \in [Procs -> Statuses] /\ \A q \in Procs : status'[q] = "none" <=> status[q] = "none"
      /\ \A q \in Procs : status'[q] = "running" =>
                            status[q] = "running" /\ ~(job.op = "exec" /\ job.proc = q)
  BY <1>0, <1>1 DEF Statuses
<1>4. job'.op = "none"
  BY <1>0 DEF NoJob
<1>5. /\ Memory' /\ LosesOnlyRemapped /\ KeepsStacks
      /\ \A q : HasStack(q)' <=> HasStack(q)
      /\ BuildKept'
  <2>1. ~(job'.op \in {"load", "fork"})
    BY <1>4
  <2> QED BY <1>0, <1>1, <1>2, <2>1, QuietStep
<1>6. JobSound' /\ Stacks'
  <2>1. JobSound'
    BY <1>0, <1>4, JobTypes DEF JobSound
  <2>2. Stacks'
    BY <1>2, <1>4, <1>5 DEF Stacks, IInv
  <2> QED BY <2>1, <2>2
<1> QED BY <1>5, <1>6 DEF Good, IInv
\* The segments to load, the stack last.
LEMMA LoadListFacts ==
  ASSUME NEW img \in IMAGES
  PROVE  /\ LoadList(img) \in Seq(Segment) /\ img.entry \in BOOLEAN
         /\ \A i \in DOMAIN LoadList(img) : SegmentPages(LoadList(img)[i]) \subseteq VPage
         /\ img.entry => /\ LoadList(img) # << >>
                         /\ LoadList(img)[Len(LoadList(img))] = StackSegment
<1> DEFINE s == img.segs
<1>1. s \in Seq(Segment) /\ img.entry \in BOOLEAN /\ \A i \in DOMAIN s : SegmentPages(s[i]) \subseteq VPage
  BY ImagesAssumption DEF Segment
<1>2. StackSegment \in Segment /\ SegmentPages(StackSegment) \subseteq VPage
  BY StackFacts
<1>3. LoadList(img) = IF img.entry THEN Append(s, StackSegment) ELSE s
  BY DEF LoadList
<1> HIDE DEF s
<1>4. /\ Append(s, StackSegment) \in Seq(Segment) /\ Append(s, StackSegment) # << >>
      /\ Len(Append(s, StackSegment)) = Len(s) + 1
      /\ Append(s, StackSegment)[Len(s) + 1] = StackSegment
      /\ DOMAIN Append(s, StackSegment) = 1 .. Len(s) + 1
      /\ \A i \in 1 .. Len(s) : Append(s, StackSegment)[i] = s[i]
  BY <1>1, <1>2
<1>5. \A i \in DOMAIN Append(s, StackSegment) : SegmentPages(Append(s, StackSegment)[i]) \subseteq VPage
  <2> SUFFICES ASSUME NEW i \in 1 .. Len(s) + 1
               PROVE  SegmentPages(Append(s, StackSegment)[i]) \subseteq VPage
    BY <1>4
  <2>1. Len(s) \in Nat /\ DOMAIN s = 1 .. Len(s)
    BY <1>1
  <2>2. CASE i = Len(s) + 1
    BY <2>2, <1>2, <1>4
  <2>3. CASE i # Len(s) + 1
    BY <2>1, <2>3, <1>1, <1>4
  <2> QED BY <2>2, <2>3
<1>6. CASE img.entry
  BY <1>3, <1>4, <1>5, <1>6
<1>7. CASE ~img.entry
  BY <1>1, <1>3, <1>7
<1> QED BY <1>1, <1>6, <1>7

\* What is left of the segments keeps the last one.
LEMMA TailFacts ==
  ASSUME NEW s \in Seq(Segment), s # << >>, \A i \in DOMAIN s : SegmentPages(s[i]) \subseteq VPage
  PROVE  /\ Tail(s) \in Seq(Segment) /\ SegmentPages(Head(s)) \subseteq VPage
         /\ \A i \in DOMAIN Tail(s) : SegmentPages(Tail(s)[i]) \subseteq VPage
         /\ s[Len(s)] = StackSegment =>
              \/ Head(s) = StackSegment
              \/ Tail(s) # << >> /\ Tail(s)[Len(Tail(s))] = StackSegment
<1>1. /\ Tail(s) \in Seq(Segment) /\ Len(Tail(s)) = Len(s) - 1 /\ Len(s) \in Nat /\ Len(s) >= 1
      /\ Head(s) = s[1] /\ DOMAIN s = 1 .. Len(s) /\ DOMAIN Tail(s) = 1 .. Len(s) - 1
      /\ \A i \in 1 .. Len(s) - 1 : Tail(s)[i] = s[i + 1]
  OBVIOUS
<1>2. \A i \in DOMAIN Tail(s) : SegmentPages(Tail(s)[i]) \subseteq VPage
  BY <1>1
<1>3. CASE Len(s) = 1
  BY <1>1, <1>2, <1>3
<1>4. CASE Len(s) # 1
  <2>1. Tail(s) # << >>
    BY <1>1, <1>4
  <2>2. Tail(s)[Len(Tail(s))] = s[Len(s)]
    BY <1>1, <1>4
  <2> QED BY <1>1, <1>2, <2>1, <2>2
<1> QED BY <1>3, <1>4

LEMMA SegmentStep ==
  ASSUME IInv, NextSegment
  PROVE  Good
<1> DEFINE s == job.segs
<1>0. /\ UNCHANGED <<pmm, pool, spaces, page_directory>> /\ status' = status
      /\ heap_start' = heap_start /\ heap_end' = heap_end
      /\ job.op # "none" /\ job.todo = {} /\ s # << >>
      /\ job' = [job EXCEPT !.todo = SegmentPages(Head(s)), !.segs = Tail(s)]
  BY DEF NextSegment, procs
<1>1. /\ heap_end \in [Procs -> Nat] /\ heap_start \in [Procs -> Nat] /\ status \in [Procs -> Statuses]
      /\ job \in Job /\ s \in Seq(Segment) /\ \A i \in DOMAIN s : SegmentPages(s[i]) \subseteq VPage
  BY <1>0, JobTypes DEF IInv, Memory, Typed, JobSound
<1>x. s = job.segs
  OBVIOUS
<1> HIDE DEF s
<1>2. /\ Tail(s) \in Seq(Segment) /\ SegmentPages(Head(s)) \subseteq VPage
      /\ \A i \in DOMAIN Tail(s) : SegmentPages(Tail(s)[i]) \subseteq VPage
      /\ s[Len(s)] = StackSegment =>
           \/ Head(s) = StackSegment
           \/ Tail(s) # << >> /\ Tail(s)[Len(Tail(s))] = StackSegment
  BY <1>0, <1>1, TailFacts
<1>3. /\ job' \in Job /\ job'.op = job.op /\ job'.proc = job.proc /\ job'.ok = job.ok
      /\ job'.used = job.used /\ job'.tables = job.tables
      /\ job'.todo = SegmentPages(Head(s)) /\ job'.segs = Tail(s)
  <2> DEFINE tl == Tail(s)
             pages == SegmentPages(Head(s))
  <2>1. tl \in Seq(Segment) /\ pages \in SUBSET VPage /\ job' = [job EXCEPT !.todo = pages, !.segs = tl]
    BY <1>0, <1>2
  <2> HIDE DEF tl, pages
  <2>2. /\ job' \in Job /\ job'.op = job.op /\ job'.proc = job.proc /\ job'.ok = job.ok
        /\ job'.used = job.used /\ job'.tables = job.tables
        /\ job'.todo = pages /\ job'.segs = tl
    BY <2>1, <1>1 DEF Job
  <2> QED BY <2>2 DEF tl, pages
<1>5. /\ Memory' /\ LosesOnlyRemapped /\ KeepsStacks
      /\ \A q : HasStack(q)' <=> HasStack(q)
      /\ BuildKept'
  BY <1>0, <1>1, <1>3, QuietStep
<1>6. JobSound'
  BY <1>0, <1>2, <1>3 DEF JobSound, IInv
<1>7. Stacks'
  <2>1. job.op # "sbrk"
    BY <1>0, <1>x DEF IInv, Stacks
  <2>2. ASSUME job.op \in {"load", "fork", "exec"}, job.ok PROVE StackComes'
    <3>1. HasStack(job.proc) \/ s[Len(s)] = StackSegment
      BY <2>2, <1>0, <1>x DEF IInv, Stacks, StackComes
    <3>2. CASE HasStack(job.proc)
      <4> DEFINE p == job.proc
      <4>2. p = job'.proc
        BY <1>3
      <4> SUFFICES ASSUME NEW r, r = p PROVE StackComes'
        OBVIOUS
      <4>3. HasStack(r)'
        BY <3>2, <1>5
      <4>4. HasStack(job.proc)'
        BY <4>2, <4>3 DEF HasStack, FrameAt
      <4> QED BY <4>4 DEF StackComes
    <3>3. CASE Head(s) = StackSegment
      <4>1. StackPage \in job'.todo
        BY <3>3, <1>3, StackFacts
      <4> QED BY <4>1 DEF StackComes
    <3>4. CASE Tail(s) # << >> /\ Tail(s)[Len(Tail(s))] = StackSegment
      BY <3>4, <1>3 DEF StackComes
    <3> QED BY <3>1, <3>2, <3>3, <3>4, <1>2
  <2>3. \A q \in Procs : status'[q] = "running" /\ ~(job'.op = "exec" /\ job'.proc = q) => HasStack(q)'
    BY <1>0, <1>3, <1>5 DEF IInv, Stacks
  <2> QED BY <2>1, <2>2, <2>3, <1>3 DEF Stacks
<1> QED BY <1>5, <1>6, <1>7 DEF Good, IInv

LEMMA HeapStep ==
  ASSUME IInv, NEW n \in HEAPRUNS, KernelHeapGrows(n)
  PROVE  Good
<1>0. /\ job.op = "none" /\ job' = job /\ status' = status /\ page_directory' = page_directory
      /\ dirent' = dirent /\ pte' = pte
  BY DEF KernelHeapGrows, procs, spaces
<1>1. FramesExclusive' /\ PoolsExact' /\ SpacesExist' /\ Lost' \subseteq Lost /\ Typed'
  BY KernelHeapEffect DEF IInv
<1>2. ASSUME NEW p
      PROVE  /\ HasStack(p)' <=> HasStack(p)
             /\ FrameAt(page_directory[p], StackPage)' = FrameAt(page_directory[p], StackPage)
  BY <1>0 DEF FrameAt, HasStack
<1>3. KeepsStacks
  BY <1>2, StacksKeptBy
<1>4. JobSound' /\ BuildKept' /\ Stacks'
  <2>1. JobSound'
    BY <1>0 DEF JobSound, IInv
  <2>2. BuildKept'
    BY <1>0 DEF BuildKept
  <2>3. Stacks'
    BY <1>0, <1>2 DEF Stacks, IInv
  <2> QED BY <2>1, <2>2, <2>3
<1> QED BY <1>1, <1>3, <1>4 DEF Good, IInv, Memory, LosesOnlyRemapped
\* The beginning of a start or of a fork.
LEMMA CreateStep ==
  ASSUME IInv, NEW p \in Procs, process_create(p), UNCHANGED pmm, job.op = "none",
         job' \in Job, job'.op \in {"load", "fork"}, job'.proc = p,
         job'.used = used, job'.tables = free_table_count,
         \A i \in DOMAIN job'.segs : SegmentPages(job'.segs[i]) \subseteq VPage,
         job'.ok => \/ StackPage \in job'.todo
                    \/ job'.segs # << >> /\ job'.segs[Len(job'.segs)] = StackSegment
  PROVE  Good
<1>1. PICK d \in free_tables : /\ paging_create_address_space(d)
                               /\ page_directory' = [page_directory EXCEPT ![p] = d]
  BY DEF process_create
<1>2. /\ status[p] = "none" /\ status' = [status EXCEPT ![p] = "new"]
      /\ heap_start' = [heap_start EXCEPT ![p] = 0] /\ heap_end' = [heap_end EXCEPT ![p] = 0]
  BY DEF process_create
<1>a. Memory /\ Typed /\ PoolsExact /\ FramesExclusive
  BY DEF IInv, Memory
<1>0. used' = used /\ kheap' = kheap
  BY DEF pmm
<1>3. /\ FramesExclusive' /\ PoolsExact' /\ SpacesExist'
      /\ Reachable' = Reachable /\ TablesOf(d)' = {} /\ FramesOf(d)' = {}
      /\ \A c \in Directories, v \in VPage : FrameAt(c, v)' = FrameAt(c, v)
      /\ free_tables' \in SUBSET Tables
      /\ dirent' \in [Tables -> [Slot -> Tables \cup {NoTable}]]
      /\ pte' \in [Tables -> [Entry -> Frame \cup {0}]]
      /\ free_table_count = free_table_count' + 1
  BY <1>a, <1>1, <1>2, Created
<1>4. /\ status'[p] = "new" /\ page_directory'[p] = d
      /\ \A q \in Procs : q # p => status'[q] = status[q] /\ page_directory'[q] = page_directory[q]
  BY <1>a, <1>1, <1>2 DEF Typed
<1>5. Typed'
  <2>1. d \in Tables
    BY <1>a DEF Typed
  <2>2. /\ status' \in [Procs -> Statuses] /\ page_directory' \in [Procs -> Tables \cup {NoTable}]
        /\ heap_start' \in [Procs -> Nat] /\ heap_end' \in [Procs -> Nat]
    BY <2>1, <1>a, <1>1, <1>2 DEF Typed, Statuses
  <2> QED BY <2>2, <1>0, <1>3, <1>a DEF Typed
<1>6. ASSUME NEW q \in Procs, status[q] # "none"
      PROVE  /\ HasStack(q)' <=> HasStack(q)
             /\ FrameAt(page_directory[q], StackPage)' = FrameAt(page_directory[q], StackPage)
  <2> DEFINE c == page_directory[q]
  <2>1. c \in Directories /\ page_directory'[q] = c
    BY <1>2, <1>4, <1>6, OwnDirectory
  <2> SUFFICES ASSUME NEW e, e = c
               PROVE  /\ HasStack(q)' <=> HasStack(q)
                      /\ FrameAt(page_directory[q], StackPage)' = FrameAt(page_directory[q], StackPage)
    OBVIOUS
  <2>2. FrameAt(e, StackPage)' = FrameAt(e, StackPage)
    BY <2>1, <1>3, StackFacts
  <2> QED BY <2>1, <2>2, StackKept
<1>7. KeepsStacks
  BY <1>6, StacksKeptBy
<1>8. LosesOnlyRemapped
  BY <1>0, <1>3 DEF LosesOnlyRemapped, Lost
<1>9. JobSound'
  BY <1>4 DEF JobSound
<1>10. Stacks'
  <2>1. \A q \in Procs : status'[q] = "running" => HasStack(q)'
    BY <1>2, <1>4, <1>6 DEF IInv, Stacks
  <2>2. job'.ok => StackComes'
    BY DEF StackComes
  <2>3. job'.op # "sbrk" /\ job'.op # "exec"
    OBVIOUS
  <2> QED BY <2>1, <2>2, <2>3 DEF Stacks
<1>11. BuildKept'
  <2>1. /\ job'.used \subseteq used' /\ job'.used \cap FramesOf(d)' = {}
        /\ (Reachable' \ FramesOf(d)') \cup kheap' \subseteq job'.used
    BY <1>0, <1>3, <1>a DEF FramesExclusive
  <2>2. free_table_count' + Cardinality(TablesOf(d)') + 1 = job'.tables
    <3>1. Cardinality(TablesOf(d)') = 0
      BY <1>3, FS_EmptySet
    <3>2. free_table_count' \in Nat
      <4>1. Typed' /\ PoolsExact'
        BY <1>3, <1>5
      <4>2. Cardinality(free_tables') \in Nat
        BY <1>a, <1>3, PoolsFinite
      <4> QED BY <4>1, <4>2 DEF PoolsExact
    <3> QED BY <1>3, <3>1, <3>2
  <2>3. d = page_directory'[job'.proc]
    BY <1>4
  <2> QED BY <2>1, <2>2, <2>3, BuildAt
<1> QED BY <1>3, <1>5, <1>7, <1>8, <1>9, <1>10, <1>11 DEF Good, IInv, Memory

LEMMA StartStep ==
  ASSUME IInv, NEW p \in Procs, NEW img \in IMAGES, start_program(p, img)
  PROVE  Good
<1>1. /\ job.op = "none" /\ process_create(p) /\ UNCHANGED pmm
      /\ Start("load", p, NoTable, {}, LoadList(img), img.entry, HeapBase(img))
  BY DEF start_program
<1> DEFINE s == LoadList(img)
           b == HeapBase(img)
           ok == img.entry
<1>2. /\ s \in Seq(Segment) /\ ok \in BOOLEAN /\ b \in Nat
      /\ \A i \in DOMAIN s : SegmentPages(s[i]) \subseteq VPage
      /\ ok => s # << >> /\ s[Len(s)] = StackSegment
  BY LoadListFacts, HeapBaseType
<1>3. Start("load", p, NoTable, {}, s, ok, b)
  BY <1>1
<1> HIDE DEF s, b, ok
<1>4. /\ job' \in Job
      /\ job'.op = "load" /\ job'.proc = p /\ job'.todo = {} /\ job'.segs = s
      /\ job'.ok = ok /\ job'.used = used /\ job'.tables = free_table_count
  <2> DEFINE none == {}
  <2>1. /\ Memory /\ "load" \in {"load", "fork", "exec", "sbrk"} /\ NoTable \in Procs \cup {NoTable}
        /\ none \in SUBSET VPage /\ Start("load", p, NoTable, none, s, ok, b)
        /\ s \in Seq(Segment) /\ ok \in BOOLEAN /\ b \in Nat
    BY <1>2, <1>3 DEF IInv
  <2> HIDE DEF none
  <2>2. /\ job' \in Job
        /\ job'.op = "load" /\ job'.proc = p /\ job'.todo = none /\ job'.segs = s
        /\ job'.ok = ok /\ job'.used = used /\ job'.tables = free_table_count
    <3>1. used \in SUBSET Frame /\ free_table_count \in Nat
      BY <2>1, PoolsFinite DEF Memory, Typed, PoolsExact
    <3> QED BY ONLY <2>1, <3>1, p \in Procs DEF Start, Job
  <2> QED BY <2>2 DEF none
<1> QED BY <1>1, <1>2, <1>4, CreateStep

LEMMA ForkStep ==
  ASSUME IInv, NEW p \in Procs, NEW c \in Procs, process_fork(p, c)
  PROVE  Good
<1>1. /\ job.op = "none" /\ status[p] = "running" /\ process_create(c) /\ UNCHANGED pmm
      /\ Start("fork", c, p, Mapped(page_directory[p]), << >>, TRUE, 0)
  BY DEF process_fork
<1> DEFINE todo == Mapped(page_directory[p])
<1>2. StackPage \in todo /\ todo \in SUBSET VPage
  <2>1. HasStack(p)
    BY <1>1 DEF IInv, Stacks
  <2> QED BY <2>1, StackFacts DEF Mapped, HasStack
<1>3. << >> \in Seq(Segment) /\ DOMAIN << >> = {}
  OBVIOUS
<1>5. Start("fork", c, p, todo, << >>, TRUE, 0)
  BY <1>1
<1> HIDE DEF todo
<1>4. /\ job' \in Job
      /\ job'.op = "fork" /\ job'.proc = c /\ job'.todo = todo /\ job'.segs = << >>
      /\ job'.ok = TRUE /\ job'.used = used /\ job'.tables = free_table_count
  BY <1>2, <1>3, <1>5, StartType DEF IInv
<1> QED BY <1>1, <1>2, <1>3, <1>4, CreateStep
LEMMA ExecStep ==
  ASSUME IInv, NEW p \in Procs, NEW img \in IMAGES, process_exec(p, img)
  PROVE  Good
<1> DEFINE s == LoadList(img)
           b == HeapBase(img)
           ok == img.entry
<1>0. /\ job.op = "none" /\ status[p] = "running"
      /\ status' = status /\ page_directory' = page_directory
      /\ heap_start' = heap_start /\ heap_end' = heap_end
  BY DEF process_exec, procs
<1>s. Start("exec", p, NoTable, {}, s, ok, b)
  BY DEF process_exec
<1>a. Memory /\ Typed
  BY DEF IInv, Memory
<1>1. /\ s \in Seq(Segment) /\ ok \in BOOLEAN /\ b \in Nat
      /\ \A i \in DOMAIN s : SegmentPages(s[i]) \subseteq VPage
      /\ ok => s # << >> /\ s[Len(s)] = StackSegment
  BY LoadListFacts, HeapBaseType
<1> HIDE DEF s, b, ok
<1>2. /\ job' \in Job
      /\ job'.op = "exec" /\ job'.proc = p /\ job'.todo = {} /\ job'.segs = s /\ job'.ok = ok
  <2> DEFINE none == {}
  <2>1. /\ Memory /\ "exec" \in {"load", "fork", "exec", "sbrk"} /\ NoTable \in Procs \cup {NoTable}
        /\ none \in SUBSET VPage /\ Start("exec", p, NoTable, none, s, ok, b)
        /\ s \in Seq(Segment) /\ ok \in BOOLEAN /\ b \in Nat
    BY <1>a, <1>1, <1>s
  <2> HIDE DEF none
  <2>2. /\ job' \in Job
        /\ job'.op = "exec" /\ job'.proc = p /\ job'.todo = none /\ job'.segs = s
        /\ job'.ok = ok /\ job'.used = used /\ job'.tables = free_table_count
    <3>1. used \in SUBSET Frame /\ free_table_count \in Nat
      BY <2>1, PoolsFinite DEF Memory, Typed, PoolsExact
    <3> QED BY ONLY <2>1, <3>1, p \in Procs DEF Start, Job
  <2> QED BY <2>2 DEF none
<1>d. PICK d \in Directories : d = page_directory[p]
  BY <1>0, OwnDirectory
<1>3. /\ Freed(FramesOf(d)) /\ TablesFreed(TablesOf(d)) /\ Cleared(d) /\ kheap' = kheap
  BY <1>d DEF process_exec, paging_clear_user_space
<1>4. TablesOf(d) \cup {} = TablesOf(d) /\ Directories' = Directories \ {}
  BY <1>0 DEF Directories, Alive
<1>5. /\ FramesExclusive' /\ PoolsExact' /\ SpacesExist'
      /\ Reachable' = Reachable \ FramesOf(d)
      /\ \A c \in Directories \ {d}, v \in VPage : FrameAt(c, v)' = FrameAt(c, v)
      /\ used' \in SUBSET Frame /\ free_tables' \in SUBSET Tables
      /\ dirent' \in [Tables -> [Slot -> Tables \cup {NoTable}]]
      /\ pte' \in [Tables -> [Entry -> Frame \cup {0}]]
  <2>1. TablesFreed(TablesOf(d) \cup {})
    BY <1>3, <1>4
  <2> QED BY <1>a, <1>0, <1>3, <1>4, <2>1, Released
<1>6. Typed'
  BY <1>a, <1>0, <1>3, <1>5 DEF Typed
<1>7. LosesOnlyRemapped
  <2>1. used' = used \ FramesOf(d)
    BY <1>3 DEF Freed
  <2> QED BY <1>3, <1>5, <2>1 DEF LosesOnlyRemapped, Lost
<1>8. KeepsStacks
  BY <1>2 DEF KeepsStacks
<1>9. JobSound' /\ BuildKept'
  BY <1>0, <1>1, <1>2 DEF JobSound, BuildKept
<1>10. Stacks'
  <2>1. ASSUME NEW q \in Procs, status'[q] = "running", q # p PROVE HasStack(q)'
    <3>1. PICK c \in Directories : c = page_directory[q] /\ c # d
      BY <2>1, <1>a, <1>0, <1>d, OwnDirectory DEF Memory
    <3>2. FrameAt(c, StackPage)' = FrameAt(c, StackPage)
      BY <3>1, <1>5, StackFacts
    <3>3. HasStack(q)
      BY <2>1, <1>0 DEF IInv, Stacks
    <3> QED BY <3>1, <3>2, <3>3, <1>0, StackKept
  <2>2. ok => StackComes'
    BY <1>1, <1>2 DEF StackComes
  <2> QED BY <2>1, <2>2, <1>2 DEF Stacks
<1> QED BY <1>5, <1>6, <1>7, <1>8, <1>9, <1>10 DEF Good, IInv, Memory

LEMMA DestroyStep ==
  ASSUME IInv, NEW p \in Procs, status[p] \in {"new", "dead"}, process_destroy(p),
         job' \in Job, job'.op = "none", job.op # "exec", job.op = "sbrk" => job.proc # p
  PROVE  /\ Good
         /\ \A d : d = page_directory[p] =>
              /\ used' = used \ FramesOf(d) /\ kheap' = kheap
              /\ Reachable' = Reachable \ FramesOf(d)
              /\ free_table_count' = free_table_count + Cardinality(TablesOf(d)) + 1
<1>a. Memory /\ Typed /\ PoolsExact
  BY DEF IInv, Memory
<1>d. PICK d \in Directories : d = page_directory[p]
  BY OwnDirectory
<1>1. /\ Freed(FramesOf(d)) /\ TablesFreed(TablesOf(d) \cup {d}) /\ Cleared(d) /\ kheap' = kheap
      /\ page_directory' = [page_directory EXCEPT ![p] = NoTable]
      /\ status' = [status EXCEPT ![p] = "none"]
      /\ heap_start' = [heap_start EXCEPT ![p] = 0] /\ heap_end' = [heap_end EXCEPT ![p] = 0]
  BY <1>d DEF process_destroy, paging_destroy_address_space
<1>2. /\ status'[p] = "none"
      /\ \A q \in Procs : q # p => status'[q] = status[q] /\ page_directory'[q] = page_directory[q]
  BY <1>a, <1>1 DEF Typed
<1>3. Directories' = Directories \ {d}
  <2>1. ASSUME NEW c, c \in Directories' PROVE c \in Directories \ {d}
    <3>1. PICK q \in Procs : status'[q] # "none" /\ page_directory'[q] = c
      BY <2>1, DirectoryMember
    <3>2. q # p /\ status[q] # "none" /\ page_directory[q] = c
      BY <3>1, <1>2
    <3> QED BY <3>2, <1>a, <1>d, OwnDirectory
  <2>2. ASSUME NEW c \in Directories \ {d} PROVE c \in Directories'
    <3>1. PICK q \in Procs : status[q] # "none" /\ page_directory[q] = c
      BY DirectoryMember
    <3>2. q # p /\ status'[q] # "none" /\ page_directory'[q] = c
      BY <3>1, <1>2, <1>d
    <3> QED BY <3>2, DirectoryMember
  <2> QED BY <2>1, <2>2
<1>5. /\ FramesExclusive' /\ PoolsExact' /\ SpacesExist'
      /\ Reachable' = Reachable \ FramesOf(d)
      /\ free_table_count' = free_table_count + Cardinality(TablesOf(d)) + Cardinality({d})
      /\ \A c \in Directories \ {d}, v \in VPage : FrameAt(c, v)' = FrameAt(c, v)
      /\ used' \in SUBSET Frame /\ free_tables' \in SUBSET Tables
      /\ dirent' \in [Tables -> [Slot -> Tables \cup {NoTable}]]
      /\ pte' \in [Tables -> [Entry -> Frame \cup {0}]]
  BY <1>a, <1>1, <1>2, <1>3, Released
<1>6. Typed'
  <2>1. /\ status' \in [Procs -> Statuses] /\ page_directory' \in [Procs -> Tables \cup {NoTable}]
        /\ heap_start' \in [Procs -> Nat] /\ heap_end' \in [Procs -> Nat]
    BY <1>a, <1>1 DEF Typed, Statuses
  <2> QED BY <1>a, <1>1, <1>5, <2>1 DEF Typed
<1>7. used' = used \ FramesOf(d)
  BY <1>1 DEF Freed
<1>8. LosesOnlyRemapped
  BY <1>1, <1>5, <1>7 DEF LosesOnlyRemapped, Lost
<1>9. ASSUME NEW q \in Procs, status[q] # "none", q # p
      PROVE  /\ HasStack(q)' <=> HasStack(q)
             /\ FrameAt(page_directory[q], StackPage)' = FrameAt(page_directory[q], StackPage)
  <2>1. PICK c \in Directories : c = page_directory[q] /\ c # d
    BY <1>9, <1>a, <1>d, OwnDirectory
  <2>2. FrameAt(c, StackPage)' = FrameAt(c, StackPage)
    BY <2>1, <1>5, StackFacts
  <2> QED BY <2>1, <2>2, <1>2, <1>9, StackKept
<1>10. KeepsStacks
  <2>1. \A q \in Procs : status[q] = "running" => q # p
    OBVIOUS
  <2> QED BY <2>1, <1>9, StacksKeptBy
<1>11. JobSound' /\ BuildKept'
  BY DEF JobSound, BuildKept
<1>12. Stacks'
  <2>1. \A q \in Procs : status'[q] = "running" => HasStack(q)'
    BY <1>2, <1>9 DEF IInv, Stacks
  <2> QED BY <2>1 DEF Stacks
<1>13. free_table_count' = free_table_count + Cardinality(TablesOf(d)) + 1
  BY <1>5, FS_Singleton
<1>14. Good
  BY <1>5, <1>6, <1>8, <1>10, <1>11, <1>12 DEF Good, IInv, Memory
<1> QED BY <1>d, <1>1, <1>5, <1>7, <1>13, <1>14

LEMMA ReapStep ==
  ASSUME IInv, NEW p \in Procs, process_reap(p)
  PROVE  Good
<1>1. job.op = "none" /\ status[p] = "dead" /\ process_destroy(p) /\ job' = job
  BY DEF process_reap
<1>2. job' \in Job
  BY <1>1 DEF IInv, JobSound
<1> QED BY <1>1, <1>2, DestroyStep

\* What FailureRestores says of a step.
LEMMA BuildFailsStep ==
  ASSUME IInv, BuildFails
  PROVE  /\ Good
         /\ used' = used \ FramesOf(page_directory[job.proc])
         /\ job.used \subseteq used' /\ free_table_count' = job.tables
<1> DEFINE p == job.proc
           d == page_directory[p]
<1>1. job.op \in {"load", "fork"} /\ process_destroy(p) /\ job' = NoJob
  BY DEF BuildFails
<1>2. p \in Procs /\ status[p] = "new" /\ job' \in Job /\ job'.op = "none" /\ job.op # "exec" /\ job.op # "sbrk"
  BY <1>1, JobTypes DEF IInv, JobSound, NoJob
<1>3. /\ job.used \subseteq used /\ job.used \cap FramesOf(d) = {}
      /\ (Reachable \ FramesOf(d)) \cup kheap \subseteq job.used
      /\ free_table_count + Cardinality(TablesOf(d)) + 1 = job.tables
  BY <1>1 DEF IInv, BuildKept
<1>x. d = page_directory[p]
  OBVIOUS
<1> HIDE DEF p, d
<1>4. /\ Good
      /\ used' = used \ FramesOf(d) /\ kheap' = kheap
      /\ Reachable' = Reachable \ FramesOf(d)
      /\ free_table_count' = free_table_count + Cardinality(TablesOf(d)) + 1
  BY <1>1, <1>2, <1>x, DestroyStep
<1> QED BY <1>3, <1>4, <1>x DEF p

LEMMA MapStep ==
  ASSUME IInv, MapNext
  PROVE  Good
<1>1. /\ job.op # "none" /\ status' = status /\ page_directory' = page_directory
      /\ heap_start' = heap_start /\ heap_end' = heap_end
  BY DEF MapNext, procs
<1>a. Memory /\ Typed /\ PoolsExact /\ FramesExclusive /\ JobSound
  BY DEF IInv, Memory
<1>b. PICK p \in Procs : p = job.proc
  BY <1>a, <1>1 DEF JobSound
<1>2. PICK v \in job.todo, f \in Frame :
         /\ NextFrame(f) /\ MapInto(page_directory[p], v, f)
         /\ job' = [job EXCEPT !.todo = @ \ {v},
                       !.over = @ \cup ({FrameAt(page_directory[job.proc], v)} \ {0})]
  BY <1>b DEF MapNext
<1>3. /\ status[p] = IF job.op \in {"load", "fork"} THEN "new" ELSE "running"
      /\ v \in VPage /\ job \in Job /\ job.todo \in SUBSET VPage
      /\ job.op \in {"load", "fork", "exec", "sbrk"}
  BY <1>a, <1>b, <1>1, JobTypes DEF JobSound
<1>4. PICK d \in Directories : d = page_directory[p]
  BY <1>3, OwnDirectory
<1>5. f \in Frame \ used /\ MapInto(d, v, f) /\ used' = used \cup {f} /\ kheap' = kheap /\ f # 0
  <2>1. f # 0
    BY MemoryAssumption DEF Frame
  <2> QED BY <2>1, <1>2, <1>4 DEF NextFrame, MapInto
<1>6. /\ job' \in Job /\ job'.op = job.op /\ job'.proc = p /\ job'.todo = job.todo \ {v}
      /\ job'.segs = job.segs /\ job'.ok = job.ok /\ job'.used = job.used /\ job'.tables = job.tables
  <2> DEFINE rest == job.todo \ {v}
             over == job.over \cup ({FrameAt(page_directory[job.proc], v)} \ {0})
  <2>1. job' = [job EXCEPT !.todo = rest, !.over = over]
    BY <1>2
  <2>2. rest \in SUBSET VPage /\ job.over \in SUBSET Frame
    BY <1>3 DEF Job
  <2>3. over \in SUBSET Frame
    <3>1. FrameAt(d, v) \in Frame \cup {0}
      BY <1>a, <1>3, <1>4, FrameType DEF Memory
    <3> QED BY <3>1, <2>2, <1>b, <1>4
  <2>4. rest = job.todo \ {v}
    OBVIOUS
  <2> HIDE DEF rest, over
  <2> QED BY <1>b, <1>3, <2>1, <2>2, <2>3, <2>4 DEF Job
<1>7. /\ FramesExclusive' /\ PoolsExact' /\ SpacesExist'
      /\ FrameAt(d, v)' = f
      /\ \A w \in VPage \ {v} : FrameAt(d, w)' = FrameAt(d, w)
      /\ \A c \in Directories \ {d}, w \in VPage : FrameAt(c, w)' = FrameAt(c, w)
      /\ free_table_count' + Cardinality(TablesOf(d)') = free_table_count + Cardinality(TablesOf(d))
      /\ Reachable \subseteq Reachable' \cup {FrameAt(d, v)}
      /\ FramesOf(d)' \subseteq FramesOf(d) \cup {f}
      /\ Reachable' \ FramesOf(d)' \subseteq Reachable \ FramesOf(d)
      /\ f \in Reachable'
      /\ used' \in SUBSET Frame /\ free_tables' \in SUBSET Tables
      /\ dirent' \in [Tables -> [Slot -> Tables \cup {NoTable}]]
      /\ pte' \in [Tables -> [Entry -> Frame \cup {0}]]
  BY <1>a, <1>1, <1>3, <1>5, PageMapped
<1>8. Typed'
  BY <1>a, <1>1, <1>5, <1>7 DEF Typed
<1>9. LosesOnlyRemapped
  <2> SUFFICES ASSUME NEW x, x \in Lost', x \notin Lost
               PROVE  x \in {FrameAt(page_directory[job.proc], w) : w \in job.todo \ job'.todo}
    BY DEF LosesOnlyRemapped
  <2>1. x \in used /\ x \notin kheap /\ x \notin Reachable'
    BY <1>5, <1>7 DEF Lost
  <2>2. x \in Reachable
    BY <2>1 DEF Lost
  <2>3. x = FrameAt(d, v)
    BY <2>1, <2>2, <1>7
  <2>4. v \in job.todo \ job'.todo
    BY <1>6
  <2> QED BY <2>3, <2>4, <1>b, <1>4
\* The stack page of another process, and of this one.
<1>10. ASSUME NEW q \in Procs, status[q] # "none", q # p \/ v # StackPage
       PROVE  /\ HasStack(q)' <=> HasStack(q)
              /\ FrameAt(page_directory[q], StackPage)' = FrameAt(page_directory[q], StackPage)
  <2>1. PICK c \in Directories : c = page_directory[q]
    BY <1>10, OwnDirectory
  <2>2. q # p => c # d
    BY <2>1, <1>a, <1>3, <1>4, <1>10, OwnDirectory
  <2>3. c # d \/ StackPage # v
    BY <2>2, <1>10
  <2>4. FrameAt(c, StackPage)' = FrameAt(c, StackPage)
    BY <2>3, <1>7, StackFacts
  <2> QED BY <2>1, <2>4, <1>1, StackKept
<1>11. v = StackPage => HasStack(p)'
  <2>1. d = page_directory'[p]
    BY <1>1, <1>4
  <2>2. HasStack(p)' <=> FrameAt(d, StackPage)' # 0
    BY <2>1, StackAt
  <2> QED BY <2>2, <1>5, <1>7
<1>12. KeepsStacks
  <2>1. ASSUME NEW q \in Procs, status[q] = "running", job.op # "exec"
        PROVE  q # p \/ v # StackPage
    <3>1. q = p => job.op = "sbrk"
      BY <2>1, <1>3
    <3>2. job.op = "sbrk" => StackPage \notin job.todo
      BY DEF IInv, Stacks
    <3> QED BY <3>1, <3>2
  <2> QED BY <2>1, <1>10, StacksKeptBy
<1>13. JobSound'
  BY <1>a, <1>1, <1>3, <1>6, <1>b DEF JobSound
<1>14. Stacks'
  <2>1. ASSUME NEW q \in Procs, status'[q] = "running", ~(job'.op = "exec" /\ job'.proc = q)
        PROVE  HasStack(q)'
    <3>1. HasStack(q)
      BY <2>1, <1>1, <1>6, <1>b DEF IInv, Stacks
    <3> QED BY <2>1, <3>1, <1>1, <1>10, <1>11
  <2>2. ASSUME job.op \in {"load", "fork", "exec"}, job.ok PROVE StackComes'
    <3>1. StackComes
      BY <2>2 DEF IInv, Stacks
    <3>2. HasStack(p)' => StackComes'
      <4>1. ASSUME HasStack(p)' PROVE HasStack(job.proc)'
        BY <4>1, <1>6 DEF HasStack, FrameAt
      <4> QED BY <4>1 DEF StackComes
    <3>3. CASE v = StackPage
      BY <3>2, <3>3, <1>11
    <3>4. CASE v # StackPage /\ HasStack(p)
      <4>1. status[p] # "none"
        BY <1>3
      <4> QED BY <3>2, <3>4, <4>1, <1>3, <1>10
    <3>5. CASE v # StackPage /\ ~HasStack(p)
      BY <3>1, <3>5, <1>6, <1>b DEF StackComes
    <3> QED BY <3>3, <3>4, <3>5
  <2>3. job.op = "sbrk" => StackPage \notin job'.todo /\ job'.segs = << >>
    BY <1>6 DEF IInv, Stacks
  <2> QED BY <2>1, <2>2, <2>3, <1>6 DEF Stacks
<1>15. BuildKept'
  <2>1. CASE job.op \in {"load", "fork"}
    <3>1. /\ job.used \subseteq used /\ job.used \cap FramesOf(d) = {}
          /\ (Reachable \ FramesOf(d)) \cup kheap \subseteq job.used
          /\ free_table_count + Cardinality(TablesOf(d)) + 1 = job.tables
      BY <2>1, <1>4, <1>b DEF IInv, BuildKept
    <3>2. d = page_directory'[job'.proc]
      BY <1>1, <1>4, <1>6
    <3>3. /\ job'.used \subseteq used' /\ job'.used \cap FramesOf(d)' = {}
          /\ (Reachable' \ FramesOf(d)') \cup kheap' \subseteq job'.used
      BY <3>1, <1>5, <1>6, <1>7
    <3>4. free_table_count' + Cardinality(TablesOf(d)') + 1 = job'.tables
      BY <3>1, <1>6, <1>7
    <3> QED BY <3>2, <3>3, <3>4, BuildAt
  <2>2. CASE job.op \notin {"load", "fork"}
    BY <2>2, <1>6 DEF BuildKept
  <2> QED BY <2>1, <2>2
<1> QED BY <1>7, <1>8, <1>9, <1>12, <1>13, <1>14, <1>15 DEF Good, IInv, Memory
-----------------------------------------------------------------------------
(* The specification. *)

LEMMA InitInv ==
  ASSUME Init
  PROVE  IInv
<1>1. Typed
  <2>1. /\ used = {} /\ kheap = {} /\ free_tables = Tables
        /\ dirent = [t \in Tables |-> [i \in Slot |-> NoTable]]
        /\ pte = [t \in Tables |-> [i \in Entry |-> 0]]
        /\ status = [p \in Procs |-> "none"] /\ page_directory = [p \in Procs |-> NoTable]
        /\ heap_start = [p \in Procs |-> 0] /\ heap_end = [p \in Procs |-> 0]
    BY DEF Init
  <2> QED BY <2>1 DEF Typed, Statuses
<1>2. Directories = {} /\ InUse = {} /\ Reachable = {} /\ Alive = {}
  <2>1. Alive = {}
    BY DEF Alive, Init
  <2>2. Directories = {}
    BY <2>1 DEF Directories
  <2>3. InUse = {}
    BY <2>2 DEF InUse
  <2>4. Reachable = {}
    BY <2>2 DEF Reachable
  <2> QED BY <2>1, <2>2, <2>3, <2>4
<1>3. SpacesExist
  BY DEF SpacesExist, Init
<1>4. FramesExclusive
  BY <1>2 DEF FramesExclusive, Init
<1>5. free_pages = Cardinality(Frame \ used) + 1
  <2>1. Frame \ used = 1 .. NLOW + NHIGH
    BY DEF Init, Frame
  <2> DEFINE n == NLOW + NHIGH
  <2>2. n \in Nat /\ 1 \in Int /\ n \in Int /\ n >= 1
    BY MemoryAssumption
  <2>3. free_pages = n + 1
    BY DEF Init
  <2>4. Frame \ used = 1 .. n
    BY <2>1
  <2> HIDE DEF n
  <2>5. Cardinality(1 .. n) = IF 1 > n THEN 0 ELSE n - 1 + 1
    BY <2>2, FS_Interval
  <2>6. Cardinality(1 .. n) = n
    BY <2>2, <2>5
  <2>7. Cardinality(Frame \ used) = n
    BY <2>4, <2>6
  <2> QED BY <2>2, <2>3, <2>7
<1>6. PoolsExact
  BY <1>2, <1>5 DEF PoolsExact, Init
<1>7. JobSound /\ Stacks /\ BuildKept
  <2>1. job = NoJob /\ job.op = "none" /\ status = [p \in Procs |-> "none"]
    BY DEF Init, NoJob
  <2> QED BY <2>1, JobTypes DEF JobSound, Stacks, BuildKept
<1> QED BY <1>1, <1>3, <1>4, <1>6, <1>7 DEF IInv, Memory

\* Every action preserves the invariant, loses at most what it maps over, and
\* leaves the stacks of running programs alone.
LEMMA StepGood ==
  ASSUME IInv, Next
  PROVE  Good
<1>1. ASSUME NEW n \in HEAPRUNS, KernelHeapGrows(n) PROVE Good
  BY <1>1, HeapStep
<1>2. ASSUME NEW p \in Procs, NEW img \in IMAGES, start_program(p, img) PROVE Good
  BY <1>2, StartStep
<1>3. ASSUME NEW p \in Procs, NEW img \in IMAGES, process_exec(p, img) PROVE Good
  BY <1>3, ExecStep
<1>4. ASSUME NEW p \in Procs, NEW c \in Procs, process_fork(p, c) PROVE Good
  BY <1>4, ForkStep
<1>5. ASSUME NEW p \in Procs, NEW inc \in INCREMENTS, sys_sbrk(p, inc) PROVE Good
  BY <1>5, SbrkStep
<1>6. CASE NextSegment
  BY <1>6, SegmentStep
<1>7. CASE MapNext
  BY <1>7, MapStep
<1>8. CASE Succeed
  BY <1>8, SucceedStep
<1>9. CASE BuildFails
  BY <1>9, BuildFailsStep
<1>10. CASE ExecFails \/ SbrkFails
  BY <1>10, FailStep
<1>11. ASSUME NEW p \in Procs, process_exit(p) PROVE Good
  BY <1>11, ExitStep
<1>12. ASSUME NEW p \in Procs, process_reap(p) PROVE Good
  BY <1>12, ReapStep
<1> QED BY <1>1, <1>2, <1>3, <1>4, <1>5, <1>6, <1>7, <1>8, <1>9, <1>10, <1>11, <1>12 DEF Next

\* What a start or a fork takes beyond what it had at its beginning.
LEMMA CreateOver ==
  ASSUME IInv, NEW p \in Procs, process_create(p), UNCHANGED pmm,
         job'.proc = p, job'.used = used, job'.over = {},
         job'.op = "fork" => job'.segs = << >> /\ job'.todo \subseteq VPage
  PROVE  OverKept'
<1>1. PICK d \in free_tables : /\ paging_create_address_space(d)
                               /\ page_directory' = [page_directory EXCEPT ![p] = d]
  BY DEF process_create
<1>2. d \in Tables /\ page_directory'[p] = d /\ used' = used
  BY <1>1 DEF IInv, Memory, Typed, pmm
<1>3. \A i \in Slot : dirent'[d][i] = NoTable
  BY <1>1, <1>2 DEF IInv, Memory, Typed, paging_create_address_space
<1>4. \A v \in VPage : FrameAt(d, v)' = 0
  BY <1>3, PageIndex DEF FrameAt
<1> QED BY <1>2, <1>4, OverAt

LEMMA MapOver ==
  ASSUME IInv, OverKept, MapNext, job.op \in {"load", "fork"}
  PROVE  OverKept'
<1>1. page_directory' = page_directory /\ status' = status
  BY DEF MapNext, procs
<1>2. PICK v \in job.todo, f \in Frame :
         /\ NextFrame(f) /\ MapInto(page_directory[job.proc], v, f)
         /\ job' = [job EXCEPT !.todo = @ \ {v},
                       !.over = @ \cup ({FrameAt(page_directory[job.proc], v)} \ {0})]
  BY DEF MapNext
<1>3. job \in Job /\ v \in VPage /\ job.proc \in Procs /\ status[job.proc] # "none"
  BY JobTypes DEF IInv, JobSound
<1>4. PICK d \in Directories : d = page_directory[job.proc]
  BY <1>3, OwnDirectory
<1>5. /\ job'.op = job.op /\ job'.proc = job.proc /\ job'.segs = job.segs /\ job'.used = job.used
      /\ job'.todo = job.todo \ {v} /\ job'.over = job.over \cup ({FrameAt(d, v)} \ {0})
  BY <1>2, <1>3, <1>4 DEF Job
<1>6. f \in Frame \ used /\ MapInto(d, v, f) /\ used' = used \cup {f}
  BY <1>2, <1>4 DEF NextFrame, MapInto
<1>7. /\ \A w \in VPage \ {v} : FrameAt(d, w)' = FrameAt(d, w)
      /\ Reachable \subseteq Reachable' \cup {FrameAt(d, v)}
      /\ Reachable' \ FramesOf(d)' \subseteq Reachable \ FramesOf(d)
      /\ f \in Reachable'
  BY <1>1, <1>3, <1>6, PageMapped DEF IInv
<1>8. Reachable \subseteq used /\ FramesOf(d) \subseteq Reachable /\ 0 \notin Reachable
  <2>1. FramesOf(d) \subseteq Reachable
    BY DEF Reachable
  <2>2. 0 \notin Reachable
    BY ReachableMember
  <2> QED BY <2>1, <2>2 DEF IInv, Memory, FramesExclusive
<1>9. /\ used \subseteq job.used \cup FramesOf(d) \cup job.over
      /\ job.op = "fork" => /\ job.over = {} /\ job.segs = << >>
                            /\ \A w \in job.todo : FrameAt(d, w) = 0
  BY <1>4 DEF OverKept
<1>10. f \in FramesOf(d)' /\ FramesOf(d) \subseteq FramesOf(d)' \cup ({FrameAt(d, v)} \ {0})
  BY <1>6, <1>7, <1>8
<1>11. used' \subseteq job'.used \cup FramesOf(d)' \cup job'.over
  BY <1>5, <1>6, <1>9, <1>10
<1>12. ASSUME job.op = "fork"
       PROVE  job'.over = {} /\ job'.segs = << >> /\ \A w \in job'.todo : FrameAt(d, w)' = 0
  <2>1. job.todo \in SUBSET VPage
    BY <1>3 DEF Job
  <2> QED BY <2>1, <1>12, <1>5, <1>7, <1>9
<1>13. d = page_directory'[job'.proc]
  BY <1>1, <1>4, <1>5
<1> QED BY <1>5, <1>11, <1>12, <1>13, OverAt

LEMMA SegmentOver ==
  ASSUME IInv, OverKept, NextSegment, job.op \in {"load", "fork"}
  PROVE  OverKept'
<1>1. /\ page_directory' = page_directory /\ used' = used /\ dirent' = dirent /\ pte' = pte
      /\ job.segs # << >> /\ job \in Job
  BY DEF NextSegment, procs, spaces, pmm, IInv, JobSound
<1>2. job.op = "load"
  BY <1>1 DEF OverKept
<1>3. job'.op = job.op /\ job'.proc = job.proc /\ job'.used = job.used /\ job'.over = job.over
  BY <1>1 DEF NextSegment, Job
<1> DEFINE d == page_directory[job.proc]
<1>4. used \subseteq job.used \cup FramesOf(d) \cup job.over /\ d = page_directory'[job'.proc]
  BY <1>1, <1>2, <1>3 DEF OverKept
<1> SUFFICES ASSUME NEW e, e = d PROVE OverKept'
  OBVIOUS
<1>5. FramesOf(e)' = FramesOf(e)
  BY <1>1 DEF FramesOf, FramesIn, TablesOf
<1> QED BY <1>1, <1>2, <1>3, <1>4, <1>5, OverAt

LEMMA OverStep ==
  ASSUME IInv, OverKept, Next
  PROVE  OverKept'
<1>0. ASSUME job'.op \notin {"load", "fork"} PROVE OverKept'
  BY <1>0 DEF OverKept
<1>1. ASSUME NEW p \in Procs, NEW img \in IMAGES, start_program(p, img) PROVE OverKept'
  <2>1. /\ process_create(p) /\ UNCHANGED pmm
        /\ job'.op = "load" /\ job'.proc = p /\ job'.used = used /\ job'.over = {}
    BY <1>1 DEF start_program, Start
  <2> QED BY <2>1, CreateOver
<1>2. ASSUME NEW p \in Procs, NEW c \in Procs, process_fork(p, c) PROVE OverKept'
  <2>1. /\ process_create(c) /\ UNCHANGED pmm /\ job'.segs = << >>
        /\ job'.proc = c /\ job'.used = used /\ job'.over = {} /\ job'.todo = Mapped(page_directory[p])
    BY <1>2 DEF process_fork, Start
  <2>2. Mapped(page_directory[p]) \subseteq VPage
    BY DEF Mapped
  <2> QED BY <2>1, <2>2, CreateOver
<1>3. ASSUME NEW n \in HEAPRUNS, KernelHeapGrows(n) PROVE OverKept'
  BY <1>0, <1>3 DEF KernelHeapGrows
<1>4. ASSUME NEW p \in Procs, NEW img \in IMAGES, process_exec(p, img) PROVE OverKept'
  BY <1>0, <1>4 DEF process_exec, Start
<1>5. ASSUME NEW p \in Procs, NEW inc \in INCREMENTS, sys_sbrk(p, inc) PROVE OverKept'
  BY <1>0, <1>5 DEF sys_sbrk, Grows, Shrinks, Start
<1>6. CASE NextSegment \/ MapNext
  <2>1. CASE job.op \in {"load", "fork"}
    BY <1>6, <2>1, SegmentOver, MapOver
  <2>2. CASE job.op \notin {"load", "fork"}
    <3>1. job \in Job
      BY DEF IInv, JobSound
    <3>2. job'.op = job.op
      BY <1>6, <3>1 DEF NextSegment, MapNext, Job
    <3> QED BY <1>0, <2>2, <3>2
  <2> QED BY <2>1, <2>2
<1>7. CASE Succeed \/ BuildFails \/ ExecFails \/ SbrkFails
  BY <1>0, <1>7 DEF Succeed, BuildFails, ExecFails, SbrkFails, NoJob
<1>8. ASSUME NEW p \in Procs, process_exit(p) \/ process_reap(p) PROVE OverKept'
  BY <1>0, <1>8 DEF process_exit, process_reap
<1> QED BY <1>1, <1>2, <1>3, <1>4, <1>5, <1>6, <1>7, <1>8 DEF Next

LEMMA StutterOver ==
  ASSUME OverKept, UNCHANGED vars
  PROVE  OverKept'
<1>1. page_directory' = page_directory /\ used' = used /\ dirent' = dirent /\ pte' = pte /\ job' = job
  BY DEF vars, procs, spaces, pmm
<1> QED BY <1>1 DEF OverKept, FramesOf, FramesIn, TablesOf, FrameAt

LEMMA StutterInv ==
  ASSUME IInv, UNCHANGED vars
  PROVE  IInv'
<1>0. /\ UNCHANGED <<pmm, pool, spaces, page_directory>> /\ status' = status
      /\ heap_start' = heap_start /\ heap_end' = heap_end /\ job' = job
  BY DEF vars, procs
<1>1. heap_end \in [Procs -> Nat] /\ heap_start \in [Procs -> Nat] /\ status \in [Procs -> Statuses]
  BY DEF IInv, Memory, Typed
<1>2. Memory' /\ BuildKept' /\ \A p : HasStack(p)' <=> HasStack(p)
  BY <1>0, <1>1, QuietStep
<1>3. JobSound'
  BY <1>0 DEF JobSound, IInv
<1>4. StackComes' <=> StackComes
  BY <1>0 DEF StackComes, HasStack, FrameAt, spaces
<1>5. Stacks'
  BY <1>0, <1>2, <1>4 DEF Stacks, IInv
<1> QED BY <1>2, <1>3, <1>5 DEF IInv

\* The inductive invariant: what the runs check of memory, the shape of the
\* operation in progress, where the stacks are, and what a start or a fork has
\* taken so far.
THEOREM Invariance == Spec => [](IInv /\ OverKept)
<1>1. Init => IInv /\ OverKept
  <2>1. Init => OverKept
    BY DEF Init, OverKept, NoJob
  <2> QED BY <2>1, InitInv
<1>2. IInv /\ OverKept /\ [Next]_vars => (IInv /\ OverKept)'
  BY StepGood, StutterInv, OverStep, StutterOver DEF Good
<1> QED BY <1>1, <1>2, PTL DEF Spec

\* A frame that pmm_alloc_page has handed out is mapped at one place of one
\* address space at most, and never while it is part of the kernel heap.
THEOREM MemoryIsolated == Spec => []FramesExclusive
<1>1. IInv => FramesExclusive
  BY DEF IInv, Memory
<1> QED BY <1>1, Invariance, PTL

\* Every table of paging.c's pool is free, a directory or a page table at one
\* place, and the counters of free pages and of free tables agree with the
\* bitmap and the list.
THEOREM NothingLeaks == Spec => []PoolsExact
<1>1. IInv => PoolsExact
  BY DEF IInv, Memory
<1> QED BY <1>1, Invariance, PTL

\* The one way to lose a frame is paging_map_page_in on a page that is mapped
\* already.
THEOREM OnlyRemapLoses == Spec => LostOnlyByRemap
<1>1. IInv /\ [Next]_vars => [LosesOnlyRemapped]_vars
  BY StepGood DEF Good
<1>2. IInv /\ [Next]_vars =>
        [Lost' \subseteq Lost
           \cup {FrameAt(page_directory[job.proc], v) : v \in job.todo \ job'.todo}]_vars
  BY <1>1 DEF LosesOnlyRemapped
<1> QED BY <1>2, Invariance, PTL DEF Spec, LostOnlyByRemap

\* The error paths of start_program and process_fork give back every table and
\* every frame they have taken, but for those that elf_load has mapped a second
\* page over; a fork gives back all.
THEOREM FailedStartRestores == Spec => FailureRestores
<1>1. ASSUME IInv, OverKept, BuildFails
      PROVE  /\ job.used \subseteq used' /\ used' \subseteq job.used \cup job.over
             /\ job.op = "fork" => used' = job.used
             /\ free_table_count' = job.tables
  <2>1. job.op \in {"load", "fork"}
    BY <1>1 DEF BuildFails
  <2> DEFINE d == page_directory[job.proc]
  <2>2. used \subseteq job.used \cup FramesOf(d) \cup job.over /\ (job.op = "fork" => job.over = {})
    BY <1>1, <2>1 DEF OverKept
  <2>3. used' = used \ FramesOf(d) /\ job.used \subseteq used' /\ free_table_count' = job.tables
    BY <1>1, BuildFailsStep
  <2> QED BY <2>2, <2>3
<1>2. IInv /\ OverKept /\ [Next]_vars =>
        [BuildFails =>
           /\ job.used \subseteq used' /\ used' \subseteq job.used \cup job.over
           /\ job.op = "fork" => used' = job.used
           /\ free_table_count' = job.tables]_vars
  BY <1>1
<1> QED BY <1>2, Invariance, PTL DEF Spec, FailureRestores

\* sbrk's check against USER_STACK_PAGE keeps the heap off the stack: a running
\* program has its stack page and keeps its frame until it execs or exits.
THEOREM StackSafe == Spec => StackStays
<1>1. IInv /\ [Next]_vars => [KeepsStacks]_vars
  BY StepGood DEF Good
<1>2. IInv /\ [Next]_vars =>
        [\A p \in Procs : status[p] = "running" /\ status'[p] = "running" /\ job.op # "exec"
                          /\ job'.op # "exec" =>
           /\ FrameAt(page_directory[p], StackPage) # 0
           /\ FrameAt(page_directory[p], StackPage)' = FrameAt(page_directory[p], StackPage)]_vars
  BY <1>1 DEF KeepsStacks
<1> QED BY <1>2, Invariance, PTL DEF Spec, StackStays
=============================================================================
