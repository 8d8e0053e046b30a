---------------------------- MODULE AddressSpace ----------------------------
(***************************************************************************)
(* User memory: the page bitmap (memory/pmm.c), the pool of page tables    *)
(* and the address spaces built from it (memory/paging.c), the ELF loader  *)
(* (kernel/elf.c), and what process_create, process_fork, process_exec,    *)
(* process_destroy and sbrk do with them.                                  *)
(*                                                                         *)
(* All of this runs with interrupts off, so one operation runs to its end  *)
(* before the next begins; its loop over pages is one step per page, since *)
(* it can run out of frames or of tables at any of them.  Which table the  *)
(* pool hands out is left open: the code takes the one returned last.      *)
(***************************************************************************)
EXTENDS Integers, FiniteSets, Sequences

CONSTANTS
    Procs,            \* process structures
    Tables,           \* user_page_tables, without the one paging_init uses
    NoTable,          \* an absent directory entry
    NLOW,             \* identity-mapped frames 1 .. NLOW
    NHIGH,            \* frames above them
    FANOUT,           \* entries of a page table (1024)
    DIRS,             \* directory entries of the user half (768)
    PG,               \* bytes of a page (4096)
    WORD,             \* addresses are modulo WORD (2^32)
    IMAGES,           \* executables: [segs : Seq of [vaddr, memsz], entry : BOOLEAN]
    INCREMENTS,       \* arguments of sbrk
    HEAPRUNS          \* pages the kernel heap asks for at a time

Frame == 1 .. NLOW + NHIGH
Low   == 1 .. NLOW
VPage == 0 .. DIRS * FANOUT - 1
Entry == 0 .. FANOUT - 1
Slot  == 0 .. DIRS - 1

\* USER_STACK_PAGE is the last page of the user half.
StackPage == DIRS * FANOUT - 1

ASSUME MemoryAssumption ==
    /\ NoTable \notin Tables /\ IsFiniteSet(Tables)
    /\ NLOW \in Nat \ {0} /\ NHIGH \in Nat
    /\ FANOUT \in Nat \ {0} /\ DIRS \in Nat \ {0} /\ PG \in Nat \ {0}
    /\ WORD \in Nat /\ DIRS * FANOUT * PG <= WORD
    /\ INCREMENTS \subseteq Int /\ HEAPRUNS \subseteq Nat \ {0}

\* sbrk takes an int, which with a page added is no larger than an address.
ASSUME IncrementAssumption == \A inc \in INCREMENTS : inc + PG <= WORD

VARIABLES
    used,             \* the bitmap: frames marked used
    free_pages,       \* the counter of free frames
    kheap,            \* frames of the kernel heap (pmm_alloc_contiguous)
    free_tables,      \* table_free_list
    free_table_count,
    dirent,           \* [table -> its entries, read as a directory]
    pte,              \* [table -> its entries, read as a page table]
    status,           \* of each process structure
    page_directory,
    heap_start,
    heap_end,
    job               \* the operation in progress

pmm    == <<used, free_pages, kheap>>
pool   == <<free_tables, free_table_count>>
spaces == <<dirent, pte>>
procs  == <<status, page_directory, heap_start, heap_end>>
vars   == <<pmm, pool, spaces, procs, job>>

NoJob == [op |-> "none", proc |-> NoTable, parent |-> NoTable, todo |-> {}, segs |-> << >>,
          ok |-> TRUE, break |-> 0, used |-> {}, tables |-> 0, over |-> {}]

\* pmm_init counts page 0 as free before it marks it used: the counter is
\* one too high from the start.
Init ==
    /\ used = {} /\ free_pages = NLOW + NHIGH + 1 /\ kheap = {}
    /\ free_tables = Tables /\ free_table_count = Cardinality(Tables)
    /\ dirent = [t \in Tables |-> [i \in Slot |-> NoTable]]
    /\ pte = [t \in Tables |-> [i \in Entry |-> 0]]
    /\ status = [p \in Procs |-> "none"]
    /\ page_directory = [p \in Procs |-> NoTable]
    /\ heap_start = [p \in Procs |-> 0]
    /\ heap_end = [p \in Procs |-> 0]
    /\ job = NoJob
----------------------------------------------------------------------------
(* Physical memory. *)

\* pmm_alloc_page prefers frames above the identity-mapped region and takes
\* the lowest of either.
Before(f, g) == IF (f \in Low) = (g \in Low) THEN f <= g ELSE g \in Low
NextFrame(f) == f \in Frame \ used /\ \A g \in Frame \ used : Before(f, g)
NoFrame == Frame \subseteq used

\* pmm_free_page ignores a frame that is free already.
Freed_HighOnly(F) == /\ used' = used \ (F \ Low)
                     /\ free_pages' = free_pages + Cardinality((F \ Low) \cap used)

Freed(F) == /\ used' = used \ F
            /\ free_pages' = free_pages + Cardinality(F \cap used)

\* pmm_alloc_contiguous(n), the kernel heap's source of pages: the lowest
\* run of free frames in the identity-mapped region.
FreeRun(i, n) == i .. i + n - 1 \subseteq Low \ used

KernelHeapGrows(n) ==
    /\ job.op = "none"
    /\ \E i \in Low : /\ FreeRun(i, n) /\ \A j \in 1 .. i - 1 : ~FreeRun(j, n)
                      /\ used' = used \cup (i .. i + n - 1)
                      /\ kheap' = kheap \cup (i .. i + n - 1)
    /\ free_pages' = free_pages - n
    /\ UNCHANGED <<pool, spaces, procs, job>>
----------------------------------------------------------------------------
(* Address spaces. *)

DirIndex(v) == v \div FANOUT
TableIndex(v) == v % FANOUT

\* The page tables of a directory, the frames they map, the pages mapped.
TablesOf(d) == {dirent[d][i] : i \in Slot} \ {NoTable}
FramesIn(t) == {pte[t][j] : j \in Entry} \ {0}
FramesOf(d) == UNION {FramesIn(t) : t \in TablesOf(d)}
FrameAt(d, v) == IF dirent[d][DirIndex(v)] = NoTable THEN 0
                 ELSE pte[dirent[d][DirIndex(v)]][TableIndex(v)]
Mapped(d) == {v \in VPage : FrameAt(d, v) # 0}

\* free_page_table, for each of the tables T: a full list takes no more.  A
\* table keeps its entries until it is handed out again; as nobody reads
\* them, the model keeps no more than that they are not zero.
Stale == [j \in Entry |-> 1]

TablesFreed(T) ==
    /\ pte' = [t \in Tables |-> IF t \in T THEN Stale ELSE pte[t]]
    /\ free_tables' = free_tables \cup T
    /\ free_table_count' = IF free_table_count + Cardinality(T) <= Cardinality(Tables)
                           THEN free_table_count + Cardinality(T) ELSE Cardinality(Tables)

\* paging_clear_user_space and paging_destroy_address_space.
Cleared(d) == dirent' = [dirent EXCEPT ![d] = [i \in Slot |-> NoTable]]

paging_clear_user_space(d) ==
    /\ Freed(FramesOf(d)) /\ TablesFreed(TablesOf(d)) /\ Cleared(d)
    /\ UNCHANGED kheap

paging_destroy_address_space_KeepsDirectory(d) == paging_clear_user_space(d)

paging_destroy_address_space(d) ==
    /\ Freed(FramesOf(d)) /\ TablesFreed(TablesOf(d) \cup {d}) /\ Cleared(d)
    /\ UNCHANGED kheap

\* paging_create_address_space: a zeroed table from the pool.  (The copied
\* kernel half is the same in all directories.)
paging_create_address_space(d) ==
    /\ free_table_count # 0 /\ d \in free_tables
    /\ free_tables' = free_tables \ {d}
    /\ free_table_count' = free_table_count - 1
    /\ dirent' = [dirent EXCEPT ![d] = [i \in Slot |-> NoTable]]
    /\ pte' = [pte EXCEPT ![d] = [i \in Entry |-> 0]]

\* A fresh page table that maps f at v.
ZeroedWith_Stale(t, v, f) == [pte[t] EXCEPT ![TableIndex(v)] = f]
ZeroedWith(t, v, f) == [j \in Entry |-> IF j = TableIndex(v) THEN f ELSE 0]

\* pmm_alloc_page and paging_map_page_in: frame f appears at page v of
\* directory d, in the table there or in a fresh one.  A mapping that was
\* there is overwritten.
MapInto(d, v, f) ==
    /\ used' = used \cup {f}
    /\ free_pages' = free_pages - 1
    /\ \/ /\ dirent[d][DirIndex(v)] # NoTable
          /\ pte' = [pte EXCEPT ![dirent[d][DirIndex(v)]][TableIndex(v)] = f]
          /\ UNCHANGED <<pool, dirent>>
       \/ /\ dirent[d][DirIndex(v)] = NoTable /\ free_table_count # 0
          /\ \E t \in free_tables :
                /\ free_tables' = free_tables \ {t}
                /\ free_table_count' = free_table_count - 1
                /\ dirent' = [dirent EXCEPT ![t] = [i \in Slot |-> NoTable],
                                            ![d][DirIndex(v)] = t]
                /\ pte' = [pte EXCEPT ![t] = ZeroedWith(t, v, f)]
    /\ UNCHANGED kheap

\* No frame, or no table for it: the frame goes back and the call fails.
CannotMap(d, v) ==
    \/ NoFrame
    \/ dirent[d][DirIndex(v)] = NoTable /\ free_table_count = 0
----------------------------------------------------------------------------
(* The loops over pages. *)

\* The pages elf_load maps for a segment: as many as its size needs, from
\* the page its address is in.
PagesNeeded(n) == (n + PG - 1) \div PG
SegmentPages(s) == s.vaddr \div PG .. s.vaddr \div PG + PagesNeeded(s.memsz) - 1

\* elf_load takes the segments as they are: executables are what the linker
\* script of the user programs makes, all of it in the user half.
ASSUME ImagesAssumption ==
    \A img \in IMAGES :
        /\ img.segs \in Seq([vaddr : Nat, memsz : Nat]) /\ img.entry \in BOOLEAN
        /\ \A i \in DOMAIN img.segs : SegmentPages(img.segs[i]) \subseteq VPage

\* elf_load, then the stack page; with entry 0 the loader reports failure
\* and no stack is mapped.
StackSegment == [vaddr |-> StackPage * PG, memsz |-> PG]
LoadList(img) == IF img.entry THEN Append(img.segs, StackSegment) ELSE img.segs

\* The break of a fresh program: the highest end of a segment, rounded up.
SegmentEnd(s) == IF s.memsz = 0 THEN 0 ELSE s.vaddr + s.memsz
HeapBase(img) ==
    LET ends == {SegmentEnd(img.segs[i]) : i \in DOMAIN img.segs} \cup {0}
    IN  PagesNeeded(CHOOSE e \in ends : \A f \in ends : f <= e) * PG

\* A job remembers what was taken when it began, and the frames it has mapped
\* others over: both are history.
Start(op, p, parent, todo, segs, ok, break) ==
    job' = [op |-> op, proc |-> p, parent |-> parent, todo |-> todo, segs |-> segs,
            ok |-> ok, break |-> break, used |-> used, tables |-> free_table_count,
            over |-> {}]

\* process_create: an empty address space and no heap.
process_create(p) ==
    /\ status[p] = "none"
    /\ \E d \in free_tables :
          /\ paging_create_address_space(d)
          /\ page_directory' = [page_directory EXCEPT ![p] = d]
    /\ status' = [status EXCEPT ![p] = "new"]
    /\ heap_start' = [heap_start EXCEPT ![p] = 0]
    /\ heap_end' = [heap_end EXCEPT ![p] = 0]

\* start_program and shell_launch_ush up to elf_load.
start_program(p, img) ==
    /\ job.op = "none" /\ process_create(p)
    /\ Start("load", p, NoTable, {}, LoadList(img), img.entry, HeapBase(img))
    /\ UNCHANGED pmm

\* process_fork up to the copy of the address space.
process_fork(p, c) ==
    /\ job.op = "none" /\ status[p] = "running" /\ process_create(c)
    /\ Start("fork", c, p, Mapped(page_directory[p]), << >>, TRUE, 0)
    /\ UNCHANGED pmm

\* process_exec with a valid header: the old program is gone from here on.
process_exec(p, img) ==
    /\ job.op = "none" /\ status[p] = "running"
    /\ paging_clear_user_space(page_directory[p])
    /\ Start("exec", p, NoTable, {}, LoadList(img), img.entry, HeapBase(img))
    /\ UNCHANGED procs

\* sbrk: shrinking moves the break, growing maps pages from the old break.
NewBreak(p, inc) == (heap_end[p] + PagesNeeded(inc) * PG) % WORD

SbrkRefuses_IntoStack(p, inc) == NewBreak(p, inc) > (StackPage + 1) * PG

SbrkRefuses(p, inc) ==
    \/ NewBreak(p, inc) < heap_end[p]
    \/ NewBreak(p, inc) >= StackPage * PG - PG

Grows(p, inc) ==
    /\ inc > 0 /\ ~SbrkRefuses(p, inc)
    /\ Start("sbrk", p, NoTable,
             {(heap_end[p] + k * PG) \div PG : k \in 0 .. PagesNeeded(inc) - 1},
             << >>, TRUE, NewBreak(p, inc))
    /\ UNCHANGED heap_end

Shrinks(p, inc) ==
    /\ inc < 0 /\ -inc <= heap_end[p] - heap_start[p]
    /\ heap_end' = [heap_end EXCEPT ![p] = @ + inc]
    /\ UNCHANGED job

sys_sbrk(p, inc) ==
    /\ job.op = "none" /\ status[p] = "running" /\ heap_end[p] # 0
    /\ Grows(p, inc) \/ Shrinks(p, inc)
    /\ UNCHANGED <<pmm, pool, spaces, status, page_directory, heap_start>>

\* The next segment of elf_load.
NextSegment ==
    /\ job.op # "none" /\ job.todo = {} /\ job.segs # << >>
    /\ job' = [job EXCEPT !.todo = SegmentPages(Head(job.segs)), !.segs = Tail(job.segs)]
    /\ UNCHANGED <<pmm, pool, spaces, procs>>

FirstOf(S, v) == v \in S /\ \A w \in S : v <= w

MapNext ==
    /\ job.op # "none"
    /\ \E v \in job.todo, f \in Frame :
          /\ FirstOf(job.todo, v) /\ NextFrame(f)
          /\ MapInto(page_directory[job.proc], v, f)
          /\ job' = [job EXCEPT !.todo = @ \ {v},
                        !.over = @ \cup ({FrameAt(page_directory[job.proc], v)} \ {0})]
    /\ UNCHANGED procs

\* The end of the loop: the program is started, the child made runnable, the
\* break moved.
Succeed ==
    /\ job.op # "none" /\ job.todo = {} /\ job.segs = << >> /\ job.ok
    /\ status' = [status EXCEPT ![job.proc] = "running"]
    /\ heap_start' = [heap_start EXCEPT ![job.proc] =
                        IF job.op \in {"load", "exec"} THEN job.break ELSE @]
    /\ heap_end' = [heap_end EXCEPT ![job.proc] = IF job.op = "fork" THEN @ ELSE job.break]
    /\ job' = NoJob
    /\ UNCHANGED <<pmm, pool, spaces, page_directory>>

Stuck ==
    \/ job.todo = {} /\ job.segs = << >> /\ ~job.ok
    \/ \E v \in job.todo : FirstOf(job.todo, v) /\ CannotMap(page_directory[job.proc], v)

\* process_destroy frees the address space and the structure.
process_destroy(p) ==
    /\ paging_destroy_address_space(page_directory[p])
    /\ page_directory' = [page_directory EXCEPT ![p] = NoTable]
    /\ status' = [status EXCEPT ![p] = "none"]
    /\ heap_start' = [heap_start EXCEPT ![p] = 0]
    /\ heap_end' = [heap_end EXCEPT ![p] = 0]

\* A half-built process is destroyed.
BuildFails_KeepsSpace ==
    /\ job.op \in {"load", "fork"} /\ Stuck
    /\ status' = [status EXCEPT ![job.proc] = "none"]
    /\ page_directory' = [page_directory EXCEPT ![job.proc] = NoTable]
    /\ job' = NoJob
    /\ UNCHANGED <<pmm, pool, spaces, heap_start, heap_end>>

BuildFails ==
    /\ job.op \in {"load", "fork"} /\ Stuck
    /\ process_destroy(job.proc)
    /\ job' = NoJob

\* exec has nothing to return to: process_exit, and the reaper later.
ExecFails ==
    /\ job.op = "exec" /\ Stuck
    /\ status' = [status EXCEPT ![job.proc] = "dead"]
    /\ job' = NoJob
    /\ UNCHANGED <<pmm, pool, spaces, page_directory, heap_start, heap_end>>

\* sbrk returns -1; what it has mapped stays.
SbrkFails ==
    /\ job.op = "sbrk" /\ Stuck
    /\ job' = NoJob
    /\ UNCHANGED <<pmm, pool, spaces, procs>>

process_exit(p) ==
    /\ job.op = "none" /\ status[p] = "running"
    /\ status' = [status EXCEPT ![p] = "dead"]
    /\ UNCHANGED <<pmm, pool, spaces, page_directory, heap_start, heap_end, job>>

process_reap(p) ==
    /\ job.op = "none" /\ status[p] = "dead"
    /\ process_destroy(p)
    /\ UNCHANGED job

Next ==
    \/ \E n \in HEAPRUNS : KernelHeapGrows(n)
    \/ \E p \in Procs, img \in IMAGES : start_program(p, img) \/ process_exec(p, img)
    \/ \E p, c \in Procs : process_fork(p, c)
    \/ \E p \in Procs, inc \in INCREMENTS : sys_sbrk(p, inc)
    \/ NextSegment \/ MapNext \/ Succeed \/ BuildFails \/ ExecFails \/ SbrkFails
    \/ \E p \in Procs : process_exit(p) \/ process_reap(p)

Spec == Init /\ [][Next]_vars
----------------------------------------------------------------------------
\* The processes that have an address space, the page tables in use and the
\* frames user code can reach.
Alive == {p \in Procs : status[p] # "none"}
Directories == {page_directory[p] : p \in Alive}
InUse == UNION {TablesOf(d) : d \in Directories}
Reachable == UNION {FramesOf(d) : d \in Directories}

\* A frame is mapped at one place at most and never both mapped and part of
\* the kernel heap: no process sees the memory of another or of the kernel,
\* through any fork, exec, failure and reuse of frames and tables.
FramesExclusive ==
    /\ \A t, u \in InUse, i, j \in Entry :
          pte[t][i] = pte[u][j] /\ pte[t][i] # 0 => t = u /\ i = j
    /\ Reachable \cup kheap \subseteq used
    /\ Reachable \cap kheap = {}

\* Every table of the pool is free, a directory or a page table at one place:
\* none is lost on an error path and none is handed out twice.  The counters
\* agree: the one of the tables, and that of free pages, which free and the
\* memory calls report, but for the one page of pmm_init.
PoolsExact ==
    /\ free_pages = Cardinality(Frame \ used) + 1
    /\ free_table_count = Cardinality(free_tables)
    /\ \A p, q \in Alive : p # q => page_directory[p] # page_directory[q]
    /\ \A c, d \in Directories, i, j \in Slot :
          dirent[c][i] = dirent[d][j] /\ dirent[c][i] # NoTable => c = d /\ i = j
    /\ Directories \cap InUse = {}
    /\ free_tables = Tables \ (Directories \cup InUse)

Lost == used \ (Reachable \cup kheap)

\* Frames are lost only where a page that is mapped is mapped again.
LostOnlyByRemap ==
    [][Lost' \subseteq Lost
         \cup {FrameAt(page_directory[job.proc], v) : v \in job.todo \ job'.todo}]_vars

\* A start or a fork that fails at any page leaves memory as it was when it
\* began: every table is back, no frame of others is freed, and the only
\* frames still taken are those whose page it has mapped a second time, for
\* segments that share one.  A fork has no such pages: it gives all back.
FailureRestores ==
    [][BuildFails =>
         /\ job.used \subseteq used' /\ used' \subseteq job.used \cup job.over
         /\ job.op = "fork" => used' = job.used
         /\ free_table_count' = job.tables]_vars

\* The stack page of a running program keeps its frame: the heap does not
\* grow into it.
StackStays ==
    [][\A p \in Procs : status[p] = "running" /\ status'[p] = "running" /\ job.op # "exec"
                        /\ job'.op # "exec" =>
         /\ FrameAt(page_directory[p], StackPage) # 0
         /\ FrameAt(page_directory[p], StackPage)' = FrameAt(page_directory[p], StackPage)]_vars

\* sbrk: "growth maps whole pages starting exactly at the old break", so all
\* of the heap below the break is usable.
HeapBacked ==
    \A p \in Procs : status[p] = "running" /\ job.op = "none" =>
        \A v \in VPage : v * PG >= heap_start[p] /\ v * PG < heap_end[p] =>
            FrameAt(page_directory[p], v) # 0
=============================================================================
