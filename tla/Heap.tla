------------------------------- MODULE Heap -------------------------------
(***************************************************************************)
(* The block-list allocator of GordOS, which exists twice with the same    *)
(* algorithm: kmalloc.c for the kernel, on pages of the identity-mapped    *)
(* region, and user/stdlib.c for programs, on pages from sbrk.  Blocks lie *)
(* in memory as header + data; `next' chains them in the order in which    *)
(* they were obtained, not by address.                                     *)
(*                                                                         *)
(* The walk of malloc along the chain is one step per block.  No other     *)
(* heap call interleaves with it: the kernel runs with interrupts off and  *)
(* a program has one thread.  The variable owner says whose heap it is:    *)
(* only a program's has calloc and realloc, only the kernel's shares its   *)
(* pages with others, and the two get their pages from different calls.    *)
(***************************************************************************)
EXTENDS Integers, FiniteSets

CONSTANTS
    HEADER_SIZE,      \* sizeof(block_header_t)
    PAGE_SIZE,
    NPAGES,           \* IDENTITY_MAPPED_PAGES
    WORD,             \* size_t arithmetic is modulo WORD
    REQUESTS,         \* sizes callers ask for
    COUNTS            \* element counts of calloc

ALIGN == 4            \* "Align size to 4 bytes"

ASSUME SizesAssumption ==
    /\ HEADER_SIZE \in Nat \ {0} /\ PAGE_SIZE \in Nat \ {0} /\ WORD \in Nat
    /\ HEADER_SIZE % ALIGN = 0 /\ PAGE_SIZE % ALIGN = 0 /\ WORD % ALIGN = 0
    /\ HEADER_SIZE < PAGE_SIZE
    /\ NPAGES \in Nat \ {0} /\ NPAGES * PAGE_SIZE < WORD
    /\ REQUESTS \subseteq 0 .. WORD - 1 /\ COUNTS \subseteq 0 .. WORD - 1

VARIABLES
    owner,            \* "kernel", "program", "ended", or "astray": see AtBreak
    heap_head,        \* address of the first block, 0 = none
    hdr,              \* [address of a block -> its header]
    pages,            \* pages the heap has obtained
    others,           \* pages marked used for anything else
    call,             \* the malloc in progress
    live              \* [pointer a caller holds -> bytes it asked for]

vars == <<owner, heap_head, hdr, pages, others, call, live>>

\* A heap is followed while its owner uses it, until it goes astray.
Followed == owner \in {"kernel", "program"}

NULL == 0
Page == 0 .. NPAGES - 1
Addr == 0 .. NPAGES * PAGE_SIZE - 1
Idle == [op |-> "none", size |-> 0, want |-> 0, cur |-> NULL, prev |-> NULL, old |-> NULL]

Header == [size : 0 .. WORD - 1, free : BOOLEAN, next : Addr]

\* Page 0 is never free: pmm_init marks it used, and for a program it stands
\* for what lies below its heap.
Init ==
    /\ owner \in {"kernel", "program"}
    /\ heap_head = NULL
    /\ hdr = << >>
    /\ pages = {}
    /\ others = {0}
    /\ call = Idle
    /\ live = << >>
----------------------------------------------------------------------------
\* (size + 3) & ~3 on a size_t.
Round(n) == LET m == (n + ALIGN - 1) % WORD IN m - (m % ALIGN)

PagesNeeded(n) == ((n + HEADER_SIZE + PAGE_SIZE - 1) % WORD) \div PAGE_SIZE

Run(i, n) == i .. i + n - 1
Free_PastEnd(i, n) == Run(i, n) \cap (pages \cup others) = {}
Free(i, n) == i + n <= NPAGES /\ Run(i, n) \cap (pages \cup others) = {}

\* pmm_alloc_contiguous takes the lowest run of n free pages; sbrk the pages
\* after the break, which is the same where nobody else takes pages.
Contiguous(i, n) == Free(i, n) /\ \A j \in 0 .. i - 1 : ~Free(j, n)

End(h, b) == b + HEADER_SIZE + h[b].size

With(h, b, header) == [a \in DOMAIN h \cup {b} |-> IF a = b THEN header ELSE h[a]]
Without(h, b) == [a \in DOMAIN h \ {b} |-> h[a]]

\* current is free and large enough.
FitsIn_InUse(h, b, n) == h[b].size >= n
FitsIn(h, b, n) == h[b].free /\ h[b].size >= n

\* The first n bytes of free block b are handed out; what is left becomes a
\* block of its own if a header and 4 bytes fit in it.
Carve_NoHeaderRoom(h, b, n) ==
    IF h[b].size > n
    THEN LET split == b + HEADER_SIZE + n
             rest  == [size |-> h[b].size - n, free |-> TRUE, next |-> h[b].next]
         IN  [With(h, split, rest) EXCEPT ![b] = [size |-> n, free |-> FALSE, next |-> split]]
    ELSE [h EXCEPT ![b].free = FALSE]

Carve(h, b, n) ==
    IF h[b].size >= (n + HEADER_SIZE + 4) % WORD
    THEN LET split == b + HEADER_SIZE + n
             rest  == [size |-> h[b].size - n - HEADER_SIZE,
                       free |-> TRUE, next |-> h[b].next]
         IN  [With(h, split, rest) EXCEPT ![b] = [size |-> n, free |-> FALSE, next |-> split]]
    ELSE [h EXCEPT ![b].free = FALSE]

\* kfree: the block is free and absorbs its successor in the chain if that
\* is free and starts where this one ends.
Coalesces_AcrossGap(h, b) ==
    LET n == h[b].next IN n # NULL /\ h[n].free

Coalesces(h, b) ==
    LET n == h[b].next IN n # NULL /\ h[n].free /\ End(h, b) = n

kfree_CutsChain(h, b) ==
    LET n == h[b].next
    IN  IF Coalesces(h, b)
        THEN [Without(h, n) EXCEPT ![b] = [size |-> @.size + HEADER_SIZE + h[n].size,
                                           free |-> TRUE, next |-> NULL]]
        ELSE [h EXCEPT ![b].free = TRUE]

kfree(h, b) ==
    LET n == h[b].next
    IN  IF Coalesces(h, b)
        THEN [Without(h, n) EXCEPT ![b] = [size |-> @.size + HEADER_SIZE + h[n].size,
                                           free |-> TRUE, next |-> h[n].next]]
        ELSE [h EXCEPT ![b].free = TRUE]
----------------------------------------------------------------------------
\* The call returns block b of h: to the caller of malloc, or to realloc,
\* which copies the data and frees the old block.
Return(h, b) ==
    LET p == b + HEADER_SIZE
        kept == DOMAIN live \ {call.old}
    IN  /\ hdr' = IF call.old = NULL THEN h ELSE kfree(h, call.old - HEADER_SIZE)
        /\ live' = [q \in kept \cup {p} |-> IF q = p THEN call.want ELSE live[q]]
        /\ call' = Idle

Enter(n, want, old) ==
    call' = [op |-> "malloc", size |-> Round(n), want |-> want,
             cur |-> heap_head, prev |-> NULL, old |-> old]

malloc(n) ==
    /\ Followed /\ call.op = "none" /\ n # 0
    /\ Enter(n, n, NULL)
    /\ UNCHANGED <<owner, heap_head, hdr, pages, others, live>>

\* calloc refuses a product that does not survive the division.
Survives_Always(nmemb, n) == TRUE
Survives(nmemb, n) == ((nmemb * n) % WORD) \div nmemb = n

calloc(nmemb, n) ==
    /\ owner = "program" /\ call.op = "none" /\ nmemb # 0 /\ n # 0
    /\ Survives(nmemb, n)
    /\ Enter((nmemb * n) % WORD, nmemb * n, NULL)
    /\ UNCHANGED <<owner, heap_head, hdr, pages, others, live>>

Walk_StaysOnFree ==
    /\ call.op = "malloc" /\ call.cur # NULL
    /\ ~FitsIn(hdr, call.cur, call.size)
    /\ call' = [call EXCEPT !.prev = call.cur,
                            !.cur = IF hdr[@].free THEN @ ELSE hdr[@].next]
    /\ UNCHANGED <<owner, heap_head, hdr, pages, others, live>>

Walk ==
    /\ call.op = "malloc" /\ call.cur # NULL
    /\ ~FitsIn(hdr, call.cur, call.size)
    /\ call' = [call EXCEPT !.prev = call.cur, !.cur = hdr[call.cur].next]
    /\ UNCHANGED <<owner, heap_head, hdr, pages, others, live>>

Take ==
    /\ call.op = "malloc" /\ call.cur # NULL
    /\ FitsIn(hdr, call.cur, call.size)
    /\ Return(Carve(hdr, call.cur, call.size), call.cur)
    /\ UNCHANGED <<owner, heap_head, pages, others>>

\* The end of the chain: new_block, linked after the last block seen.
NewBlock(i, n) ==
    LET b == i * PAGE_SIZE
        header == [size |-> (n * PAGE_SIZE - HEADER_SIZE) % WORD, free |-> FALSE, next |-> NULL]
        h == With(hdr, b, header)
    IN  /\ heap_head' = IF heap_head = NULL THEN b ELSE heap_head
        /\ Return(IF heap_head = NULL THEN h ELSE [h EXCEPT ![call.prev].next = b], b)

AtEnd == call.op = "malloc" /\ call.cur = NULL

\* do_sbrk takes the bytes of n pages as an int.
Increment(n) ==
    LET bytes == n * PAGE_SIZE
    IN  IF bytes < WORD \div 2 THEN bytes ELSE bytes - WORD

\* A program may not take the break back below the start of its heap.
Refused(n) == Increment(n) < 0 /\ -Increment(n) > Cardinality(pages) * PAGE_SIZE

\* The kernel's heap and the break grow by n pages.
Grow ==
    /\ AtEnd
    /\ LET n == PagesNeeded(call.size)
       IN  /\ n > 0 /\ (owner = "program" => Increment(n) > 0)
           /\ \E i \in Page : /\ Contiguous(i, n)
                              /\ pages' = pages \cup Run(i, n)
                              /\ NewBlock(i, n)
    /\ UNCHANGED <<owner, others>>

\* No memory: malloc returns NULL and realloc leaves the old block alone.  A
\* run of no pages starts at address 0 for pmm_alloc_contiguous, which is NULL;
\* sbrk shares the memory of the machine and may fail whenever it grows.
OutOfMemory ==
    /\ AtEnd
    /\ LET n == PagesNeeded(call.size)
       IN  \/ owner = "kernel" /\ (n = 0 \/ \A i \in Page : ~Free(i, n))
           \/ owner = "program" /\ (Increment(n) > 0 \/ Refused(n))
    /\ call' = Idle
    /\ UNCHANGED <<owner, heap_head, hdr, pages, others, live>>

\* An empty heap, of a program that has ended or one that starts.
Fresh(o) ==
    /\ owner' = o /\ heap_head' = NULL /\ hdr' = << >> /\ pages' = {}
    /\ others' = {0} /\ call' = Idle /\ live' = << >>

\* The bytes wrapped to nothing, or to a number that is negative as an int:
\* sbrk leaves the break or takes it back, and returns where it was.  The
\* header goes there, behind the pages of the heap.  Usually nothing is mapped
\* there and the program ends with a page fault; if a growth that failed
\* halfway left a page there, malloc returns a block of bytes that are not the
\* program's.  What becomes of a heap that is astray is not followed.
AtBreak ==
    /\ AtEnd /\ owner = "program"
    /\ LET n == PagesNeeded(call.size)
       IN  /\ Increment(n) <= 0 /\ ~Refused(n)
           /\ \/ Fresh("ended")
              \/ /\ owner' = "astray"
                 /\ NewBlock(1 + Cardinality(pages), n)
                 /\ UNCHANGED <<pages, others>>

\* Between two calls a program may end, and another program may be started.
Exit == owner = "program" /\ call.op = "none" /\ Fresh("ended")
Start == owner \in {"ended", "astray"} /\ Fresh("program")

free(p) ==
    /\ Followed /\ call.op = "none" /\ p \in DOMAIN live
    /\ hdr' = kfree(hdr, p - HEADER_SIZE)
    /\ live' = [q \in DOMAIN live \ {p} |-> live[q]]
    /\ UNCHANGED <<owner, heap_head, pages, others, call>>

\* realloc keeps the block if it is large enough, else allocates and copies;
\* realloc(p, 0) is free(p), realloc(NULL, n) is malloc(n).
realloc(p, n) ==
    /\ owner = "program" /\ call.op = "none" /\ p \in DOMAIN live /\ n # 0
    /\ IF hdr[p - HEADER_SIZE].size >= Round(n)
       THEN /\ live' = [live EXCEPT ![p] = n]
            /\ UNCHANGED call
       ELSE /\ Enter(Round(n), n, p)
            /\ UNCHANGED live
    /\ UNCHANGED <<owner, heap_head, hdr, pages, others>>

\* pmm_alloc_page falls back to the lowest free page of this region when
\* there is none above it, and pmm_free_page gives it back.
OthersTake(i) ==
    /\ owner = "kernel" /\ call.op = "none" /\ Contiguous(i, 1)
    /\ others' = others \cup {i}
    /\ UNCHANGED <<owner, heap_head, hdr, pages, call, live>>

OthersRelease(i) ==
    /\ owner = "kernel" /\ call.op = "none" /\ i \in others \ {0}
    /\ others' = others \ {i}
    /\ UNCHANGED <<owner, heap_head, hdr, pages, call, live>>

Next ==
    \/ \E n \in REQUESTS : malloc(n)
    \/ \E m \in COUNTS, n \in REQUESTS : calloc(m, n)
    \/ Walk \/ Take \/ Grow \/ OutOfMemory \/ AtBreak
    \/ \E p \in DOMAIN live : free(p)
    \/ \E p \in DOMAIN live, n \in REQUESTS : realloc(p, n)
    \/ \E i \in Page : OthersTake(i) \/ OthersRelease(i)
    \/ Exit \/ Start

Steps == Walk \/ Take \/ Grow \/ OutOfMemory \/ AtBreak

\* A call that has been entered runs to its end: nothing blocks in it.
Fairness == WF_vars(Steps)

Spec == Init /\ [][Next]_vars /\ Fairness
----------------------------------------------------------------------------
\* The types of the variables: every block, every link and every pointer held
\* lies in the region, and the page numbers handed out exist.
TypeOK ==
    /\ owner \in {"kernel", "program", "ended", "astray"}
    /\ Followed =>
         /\ heap_head \in Addr
         /\ DOMAIN hdr \subseteq Addr \ {NULL} /\ \A b \in DOMAIN hdr : hdr[b] \in Header
         /\ pages \subseteq Page /\ others \subseteq Page /\ 0 \in others
         /\ call \in [op : {"none", "malloc"}, size : 0 .. WORD - 1, want : Nat,
                      cur : Addr, prev : Addr, old : 0 .. NPAGES * PAGE_SIZE]
         /\ DOMAIN live \subseteq 0 .. NPAGES * PAGE_SIZE
         /\ \A p \in DOMAIN live : live[p] \in Nat

\* Headers and data of different blocks never overlap: whatever a caller
\* writes into its own block, it overwrites no header and no other data.
BlocksDisjoint ==
    Followed => \A a, b \in DOMAIN hdr : a < b => End(hdr, a) <= b

PageBytes(i) == i * PAGE_SIZE .. (i + 1) * PAGE_SIZE - 1

\* The blocks fill the pages the heap has obtained, no byte more and no byte
\* less: split and merge lose nothing, and pages in other use are not touched.
BlocksTilePages ==
    Followed =>
      /\ pages \cap others = {}
      /\ UNION {b .. End(hdr, b) - 1 : b \in DOMAIN hdr} = UNION {PageBytes(i) : i \in pages}

\* Sizes from here up to the largest size_t are not kept: the rounding or the
\* number of pages wraps, and malloc, realloc and even calloc, whose test for
\* overflow they pass, may return a block that is shorter.
LargestRequest == WORD - (HEADER_SIZE + PAGE_SIZE + ALIGN)
Unkept == LargestRequest + 1 .. WORD - 1

\* A block is marked in use exactly while a caller holds it, and it holds as
\* many bytes as that caller asked for, unless that is an unkept size.
LiveBlocks ==
    Followed =>
      /\ DOMAIN live = {b + HEADER_SIZE : b \in {a \in DOMAIN hdr : ~hdr[a].free}}
      /\ \A p \in DOMAIN live : live[p] \in Unkept \/ live[p] <= hdr[p - HEADER_SIZE].size

Reached ==
    LET R[n \in 0 .. Cardinality(DOMAIN hdr)] ==
            IF n = 0 THEN {heap_head}
            ELSE R[n - 1] \cup {hdr[b].next : b \in R[n - 1] \ {NULL}}
    IN  R[Cardinality(DOMAIN hdr)] \ {NULL}

\* Every block is on the chain, and on it once: no split, merge or append
\* cuts blocks off, which would never be found again.
ChainComplete ==
    Followed =>
      /\ Reached = DOMAIN hdr
      /\ \A a, b \in DOMAIN hdr : a # b /\ hdr[a].next # NULL => hdr[a].next # hdr[b].next
      /\ \A a \in DOMAIN hdr : hdr[a].next # heap_head

\* malloc returns: the walk along the chain always ends.
CallReturns == call.op = "malloc" ~> call.op = "none"

\* A heap that is astray keeps none of the regions it has handed out.
Kept == IF Followed THEN live ELSE << >>

Promised == INSTANCE Allocator WITH live <- Kept, open <- Followed

\* The heap is an allocator as its callers see it: every region it hands
\* out is aligned, long enough and apart from all regions in use, and a
\* region stays where it is until its owner gives it up or ends.  Nothing is
\* said of the length of a region of an unkept size, nor of a heap astray.
RefinesAllocator == Promised!Spec
=============================================================================
