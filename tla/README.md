# GordOS in TLA+

A verification project for the GordOS kernel: TLA+ modules translated from its
C code, model-checked with TLC on small instances, and proofs about them
checked by TLAPS for every size. `PROJECT.json` maps each definition to the
lines it models and lists the runs, mutants, hazards, findings and theorems.

## 1. The system

GordOS runs on one x86 CPU. Interrupt handlers and system calls run with
interrupts off; interrupts are on in ring 3, in the kernel task's loop and in
`sys_sleep`. All concurrency therefore comes from three places: the PIT tick
that switches processes, the keyboard interrupt (which also runs the whole
kernel shell), and the points where a system call blocks and calls
`scheduler_switch` in the middle of its work.

| component | state it keeps | operations | what makes it correct |
|---|---|---|---|
| scheduler (`kernel/scheduler.c`) | ready ring, `blocked_list`, `zombie_list`, `current_process`, `tick_count` | add, remove, block, wake, wake_waiter, tick, switch | a process is on exactly one list; the kernel task is always on the ring; nobody starves |
| processes (`kernel/process.c`) | `process_t`, `next_pid`, `exit_records`, `foreground_process` | create, fork, exec, exit, reap, reap_child | an exit is noted once and delivered once, to the parent; the dead are freed and never run again |
| system calls (`kernel/syscall.c`) | – | fork, exit, wait, kill, read, write, open, close, dup2, pipe, lseek, sbrk, directory calls | each leaves the tables consistent on every path, failures included |
| pipes (`kernel/pipe.c`) | ring, end counts, one registered reader and writer | create, read, write, close | bounded FIFO; freed with its last descriptor, not before; sleepers are woken |
| write buffers (`kernel/wbuf.c`) | buffer, length, reference count | write, ref, unref (flush) | capacity; flushed once, by the last reference |
| keyboard (`drivers/keyboard.c`) | character ring, modifier flags | decode, deliver, read | bounded; goes to the owner of the keyboard |
| kernel shell (`kernel/shell.c`) | line, history, current directory | exec, bg, kill, file commands | starts and stops processes from inside an interrupt |
| physical memory, paging, ELF loader (`memory/pmm.c`, `memory/paging.c`, `kernel/elf.c`) | page bitmap and counter, pool of page tables, one directory per process, heap bounds | alloc/free, map, copy (fork), clear (exec), load, `sbrk` | no frame or table has two owners; failure gives everything back |
| heaps (`memory/kmalloc.c`, `user/stdlib.c`) | a chain of blocks with headers in the memory they manage | malloc, free, realloc, calloc | blocks never overlap and are never handed out twice; every byte of every page is found again |
| FAT32 and VFS (`fs/*.c`) | FAT, directories, current directory | read, write, delete, rename, mkdir, cd | chains are disjoint and whole; an interrupted write loses as little as it may |
| open files (`kernel/syscall.c`, `kernel/wbuf.c`) | per descriptor position and cached cluster; shared write buffers | open, read, lseek, write, close, dup2 | the cache is where the position says; data is committed once, whole |
| other drivers, graphics, segments | hardware registers | – | – |
| user shell (`user/ush.c`) | line, history, the pids of the command it runs | line editing, run, pipelines, kill | gets the keyboard and its prompt back after every command |
| terminal (`display/vga.c`) | rows of characters, cursor | put, backspace, cursor left | shows the line that Enter will run |
| other user space (`user/*.c`) | streams of each program | stdio | – |
| Tiny C compiler (`tcc/`) | – | – | vendored, left out |

How they interact. The shell and `fork` create processes through
`process_create` and `scheduler_add`; `exit` closes descriptors (which wakes
pipe peers), records the status, wakes a waiting parent, hands the keyboard
back and switches away for ever; the kernel task reaps what is left. Reads of
the terminal and of pipes, and writes to pipes, sleep through
`scheduler_block`; key presses and the other end of the pipe wake them. The
hard behaviours are the orders in which these meet: a child that exits before,
during or after its parent's `wait`, a kill of a process that is running or
half way through a call, an exit table that is full, a pipe end closed under a
sleeper, a `fork` that fails half way. Below them, `fork`, `exec` and `sbrk`
build address spaces page by page and may run out of frames or tables at any of
them, and the file system changes the disk one write at a time with the
power going off or the disk failing in between. The full list, each at its line, is
`hazards` in `PROJECT.json`.

## 2. The modules

| module | models |
|---|---|
| `ReadyQueue` | the circular list of `scheduler.c` as the sequence met by walking it once from `ready_queue` |
| `Process` | life cycle and scheduling of processes, `wait`/`exit`/`kill`, the exit table, keyboard focus and blocking terminal reads, the reaper |
| `Pipes` | descriptor tables, pipes and write buffers under fork, dup2, close, exit, kill and reaping |
| `PipeFifo` | what a pipe promises: a bounded queue of bytes (abstract specification) |
| `Heap` | the block-list allocator of `kmalloc.c` and `user/stdlib.c` |
| `Allocator` | what its callers rely on (abstract specification) |
| `AddressSpace` | frames, page tables and address spaces under load, fork, exec, exit, reaping and `sbrk` |
| `Fat32` | the file system on a disk with faults and power loss |
| `Files` | open files: positions with their cached cluster, write buffers and their commit |
| `OpenFiles` | what open files promise (abstract specification) |
| `Ush` | the user shell on top of `Process`: what it forks, gives the keyboard to and waits for |
| `Console` | the line editors of both shells and the terminal row they draw on |
| `MCProcess`, `MCPipes`, `MCHeap`, `MCAddressSpace`, `MCFat32`, `MCFiles`, `MCUsh`, `MCConsole` | instances for TLC |
| `Process_proofs`, `Pipes_proofs`, `Heap_proofs`, `AddressSpace_proofs`, `Console_proofs`, `Ush_proofs`, `Files_proofs`, `Fat32_proofs` | the theorems |

### Process

State. A `process_t` is one entry in each of `state`, `parent_pid`,
`exit_code`, `block_reason` and `wait_target`, indexed by pid (a pid is never
used twice). `state` has two values the code has not: `UNUSED` before creation
and `FREED` after `process_destroy`. `pc[p]` says whether `p` was switched out
in the middle of `wait` or of a terminal read. `blocked_list`, `zombie_list`
and the local list of `process_reap` are sets: the code searches them by pid
or empties them, so their order shows nowhere but in the order of freeing.
`fate` is a history variable, read by properties only.

Actions. One per system call, handler or critical section, from its first
statement to the return or to the switch:

| action | code |
|---|---|
| `sys_fork`, `start_program`, `CreateFails` | `process_fork`; `exec` and `bg` of the kernel shell; either running out of memory or finding no valid program after a pid has been used |
| `Exit` | `exit(code)`, a fault in ring 3, or `process_exec` failing after it has torn down the old program: all of `process_exit`, the switch included |
| `sys_wait`, `ResumeWait` | one turn of the loop in `sys_wait`, first and after a wakeup |
| `sys_kill_pid`, `cmd_kill` | a queued process is unlinked and made a zombie; the current one is only marked `DEAD` |
| `sys_give_foreground`, `sys_read`, `ResumeRead`, `deliver_char` | focus, `tty_read`/`sys_readraw` turns, a key press |
| `scheduler_tick` | the PIT handler |
| `ReapDetach`, `ReapDestroy` | the two critical sections of `process_reap`; interrupts happen between them |

`scheduler_switch` is a helper with the ring, states and blocked list its
caller has left as arguments, since C callers change them first.

Abstractions. The contents of the keyboard ring are its fill level. A process
in `sys_sleep` is one in user mode: it has interrupts on and does nothing. A
successful `exec` keeps pid, parent, descriptors and focus, so it changes
nothing here. Calls that sleep on a pipe are in `Pipes`, not here. The
`foreground` flag of `process_t` only selects a word that `ps` prints, and is
left out. If a process that was killed while it had the CPU takes the keyboard
before it is gone, the pointer `foreground_process` outlives its `process_t`;
the model reads such a struct as it was when it died, which is what the kernel
heap leaves there until the block is reused, and `ForegroundAlive` names the
case. Characters typed while nobody has the keyboard go to the kernel
shell's line editor; of its commands, those that touch processes are actions.

### Pipes

A descriptor slot is a kind and an object. `PLAIN` stands for the terminal and
for a file opened for reading: neither is shared or counted. A pipe is its
`pipe_t`, ring buffer and indices included; `allocated` tells live addresses
from free ones, and `kmalloc` may return any free one or fail. Each turn of the
read and write loops is one action, and any ready process may take the next
step, which covers every schedule of `Process`. A kill of the process that has
the CPU takes effect at its next switch; that the process may first enter
another call is shown in `Process`. Of a write buffer only the count and the
fill level are here; what is read from and written to files is in `Files`.
`delivered` is a history variable: what the
last step, if it was a read, copied to its caller.

`PipeFifo` says what that amounts to: writes append, reads return a prefix,
closing the last end discards the rest. `RefinesFifo` maps its `queue` to the
bytes between `tail` and `head`.

### Heap and Allocator

The kernel's `kmalloc` and the programs' `malloc` are the same algorithm on
pages from two sources, so there is one model. `hdr` maps the address of each
block to its header (`size`, `free`, `next`), `heap_head` is the first block,
`pages` what the heap has obtained. `next` chains blocks in the order in which
they were obtained, so neighbours in the chain need not be neighbours in
memory; splitting and merging hinge on that. The walk of `malloc` is one step
per block; `free`, `realloc` and `calloc` are actions, `realloc` and `calloc`
going through the same walk. `OthersTake` and `OthersRelease` are the other
users of the bitmap, which is what makes the pages of the kernel heap
discontiguous. `owner` says whose heap it is; only a program's has `realloc` and
`calloc`, and its pages come from `sbrk`.

Sizes are computed modulo `WORD`, and nothing in the code keeps callers from
asking for sizes near 2^32. For those above `LargestRequest` (`Unkept`) the
rounding or the number of pages wraps, and `kmalloc`, `malloc`, `realloc` and
even `calloc`, whose test only finds products beyond 2^32, return a block that
is too short. The model does that; the properties name it as their exception.
A program's request of 2 GB or more reaches `sbrk` as a negative `int`
(`Increment`): the break moves back or stays, and `new_block` writes its header
behind the program's pages (`AtBreak`). That is a page fault, which ends the
program, or, where a growth that failed halfway left a page, a heap that is
`"astray"`; nothing is said of such a heap any more.

`Allocator` is the promise: a region handed out is aligned, apart from every
other, as long as asked for except for the sizes in `Unkept`, and stays until it
is freed or moved or its owner ends.

### AddressSpace

State: `used` and `free_pages` (the bitmap and its counter, which `pmm_init`
leaves one too high: page 0 is marked without lowering it), the pool of page
tables with the entries a returned table keeps, and of each process structure
its directory and heap bounds. An operation (`job`) runs to its end before the
next begins, one step per page, since each page may find no frame or no table.
Frames are handed out in the code's order, high ones first; which free table
comes next is left open. An image is a list of segments with a start and a
size in bytes; its contents, and malformed headers, are left out. `KernelHeapGrows`
takes the kernel heap's runs of identity-mapped frames.

### Fat32

State: the allocation table, the slots of each cluster and the current
directory. `job` holds the operation in progress with its local variables; a
step is one write to the disk, or the reading of one cluster of a directory.
Between any two steps the power may go off (`Crash`), and every read, write and
`kmalloc` may fail. What that leaves on the disk is what the next operation
starts from. Three variables are history and change nothing: `faults` counts the
faults by kind, `astray` says that `cd ..` in the root led elsewhere or that a dot
entry was renamed, `full` that an operation has found no free cluster. `Kept` are
the directories of the tree from the root and, while a directory is being renamed
and no entry leads to it, of the tree from that one; `Live` are their entries.
What is being renamed is in the hands of the operation alone between the writing
of its old slot and of its new one (`InHand`). `Lost` are the clusters in use that
neither these trees nor the operation at work lead to.

`rename` accepts `.` and `..`, as the code does: the dot entry goes and the
directory it led to gets a second entry, under the new name. From then on two
entries share a chain, by request, and the properties about sharing say nothing
more (`astray`); that operations end is still checked.

Abstractions. Writing a cluster is one step, although it is several sectors.
The driver only ever writes the first copy of the table, so there is only one.
Names are values; a long name takes one extra slot before its entry. Sizes are
counted in clusters. File data never looks like a directory entry, and a
cluster number off the disk is never readable. Listing and prefix search change
no state.

### Files and OpenFiles

A descriptor opened for reading is its size, position, and the cluster and
offset the code caches for that position. `file_read` is one step per cluster,
so that a failed read of the table can hit any of them; an exit closes one
descriptor per step. A descriptor opened for writing shares a `wbuf_t` which
the last close hands to `fat32_write_file`. That write is one step here, with
the outcomes its steps in `Fat32` have: done (`Wrote`), or the file kept or lost
with a full disk or a failed `kmalloc` (`WriteFails`). A path is looked up from
the one current directory of the system (`FileAt[cwd]`), for reading at `open`;
for writing the `wbuf_t` keeps its first 63 characters (`Cut`) and the last close
looks them up, so that a `chdir` in between, of any process, leads to another file
or to none (`Commit`). `opened` and `returned` are history variables: what a
descriptor was opened on, as long as that has not been replaced or deleted, what
the read that has just ended gave its caller, and whether the close that has just
ended lost its buffer, which the code tells nobody. Standard descriptors are the
terminal.

`OpenFiles` has files that change as a whole, read handles with a place in
the contents at the time of opening, and buffers that are committed by their
last holder: each buffer whose last handle goes is written, whole, to the file its
path leads to at that moment, or the step is one that `lost` it, and then that file
is as it was or gone. No other buffer is touched and no other file changes. Of a
handle whose file has been replaced it promises nothing, as the clusters may by
then belong to another file.

### Ush

`Ush` extends `Process`: process 1 is `ush`, and `ush.step` is the system call
it makes next. `ReadKey` is the read of one character in `readline`; what the
line says is left open, so it may be followed by any command. `Fork`,
`GiveForeground` and `Wait` are the calls of `run_simple` and `run_pipe` in
their order, every failure included, and each is the action of `Process` for
that call with the arguments `ush` gives it. The other processes are programs
that read the terminal and end when they please; the pipe between two of them
is in `Pipes`. `KillJob` takes any pid but 0, as `cmd_kill` does, the shell's own
included: it then goes on until the next tick, and may get to its prompt once
more, without the keyboard. `UshUp` is the shell to which that has not happened.

### Console

The kernel shell and `ush` have the same line editor but for details; `shell`
says which one is running. A key is one action. `screen` is the row of the
prompt, cell by cell, with the cursor and the column where the prompt starts;
lines that reach the end of the row, and rows that output of a program has run
into, are not followed until the next prompt (`ok`). Programs start with Enter,
write, end at any moment, and in the kernel shell are announced by the reaper
some time later. Everything is drawn as the code draws it, also where that is not
the line any more (section 5): `Complete` and `ReapFg` then set `off`, which lasts
until the next prompt on a row of its own. A completion of `ush` may leave a line
longer than its buffer (`Overrun`); what it has overwritten is not known and
nothing is modelled after it.

## 3. What TLC checks

| run | instance | what it shows |
|---|---|---|
| `process` | 3 user pids, 1 exit record, time slice 2, keyboard ring of 1 | `TypeOK`; `RingSound`, `ListsMatchStates` (one `next` pointer, one list); `ExitAccounting` (exit table against the history of exits); `WaiterHasChild`; `ForegroundAlive`; `LifeCycle`; and of steps, `DeadStayDead` and `ExitDeliveredOnce` |
| `process_live` | 2 user pids, time slice 2, fair | `EveryQueuedRuns` (no starvation), `DeadAreReaped`, `WaitReturns` (no lost wakeup) |
| `pipes` | 3 processes, 2 slots, a pipe with room for 1 byte, a write buffer of 1 | `TypeOK`; `RefcountsExact` (end counts equal open descriptors); `PipesAllocatedWhileUsed` (no use after free, no leak); `SleepersJustified` (who is registered on a pipe has reason to sleep, and no sleeper loses its place but to another sleeper) |
| `pipe_fifo` | 2 processes, 2 different bytes, a ring of 3 | `RefinesFifo` |
| `heap` | 3 usable pages of 20 bytes, headers of 12, a `size_t` of 0 to 159, requests of 1, 9 and four sizes that are too large | `TypeOK`; `BlocksDisjoint`; `BlocksTilePages`; `LiveBlocks` (in use exactly while held, and large enough but for sizes that wrap); `ChainComplete` (every block is found from `heap_head`); `RefinesAllocator`; `CallReturns` |
| `memory` | 2 processes, 6 frames (2 identity-mapped), 5 tables, a user half of 8 pages | `FramesExclusive`; `PoolsExact` (every table has one place, both counters agree); and of steps, `LostOnlyByRemap` (a frame is lost only by mapping a page twice), `FailureRestores` (a fork that fails leaves exactly the frames and tables it found, a start besides at most the frames its own overlapping segments mapped over), `StackStays` |
| `fat32` | 5 clusters of 2 slots, a long and a short file name, one directory, 4 operations and faults | `OnlyTargetAtRisk` (without I/O errors, whatever the moment the power goes off, only the file being replaced or deleted is damaged; the file or directory being renamed is whole, but no entry leads to it in between, and the power going off then loses it); `LostOnlyWhenFull` (before an operation has found the disk full, no cluster is lost); `OpsEnd` (each operation ends on any disk) |
| `files` | 2 processes of 2 descriptors, 2 files, 2 directories, a short and a long path, 3 clusters of 2 bytes, a buffer of 3 | `TypeOK`; `CacheExact`; `ShortOnlyAtEnd`; `RefinesOpenFiles` (a read returns what follows its place in the file as opened; the last close, and no other, writes its buffer, unless its path leads nowhere or the write fails) |
| `ush` | the shell and 3 more processes, 2 exit records, time slice 1, fair | `PromptReady` (until it kills itself: at its prompt the shell has the keyboard, does not sleep on a character in the ring, and the programs it was to wait for have ended); `PromptReturns` |
| `console` | one letter and the space, lines of 3 characters, 1 line of history, 2 programs, a row of 5 columns, prompts at the start of it and one further | `LineFits` (of the line, for the kernel shell only); `ScreenShowsLine` (but for three cases the row shows what Enter will run) |
| `no_stranded_waiter`, `heap_backed` | as `process` and `memory` | violated: see section 5 |

Bounds. `MaxPid` bounds `next_pid`; three user processes are a parent, a child
and a third one that kills, takes the keyboard or fills the exit table, which
with one record overflows at the second uncollected exit. With a time slice of
2 a tick may count or switch, and since a switch between two ticks leaves the
count as it is, slices of one and of two ticks both happen. A keyboard ring of 1 is full after one key. Two
descriptor slots are both ends of a pipe; three processes are a reader and two
writers, or the reverse, which is what a single registration per end is about.
A ring of 3 wraps with one or two bytes in flight, and a write of 2 does not
always fit. Two bytes tell order from disorder. Symmetry of the processes is
used for safety only. Only `Pipes`, where the last process may exit, does not
check for deadlock.

In `heap`, a request of 1 byte leaves in a block of two pages a remainder that is
split off and in one of a page one that is too small for that, 9 bytes take two
pages, 5 times 9 three, and 5 times 100 overflows; 100 bytes alone take six
pages, which is a negative increment, with 130 the number of pages wraps to zero,
with 150 to one, and 159 is rounded to zero. With three pages and others taking
some, runs are obtained apart and out of order. In `memory`, five tables are a directory and one or two
tables for each of two processes, so the second may or may not fit; frames run
out in the middle of a fork, a load and an `sbrk`; the images are one page, two
segments that share a page, and one without an entry point; increments are part
of a page, more than one, the largest `int`, and negative. In `fat32`,
`MAXEVENTS` bounds operations plus faults: four are enough to write, replace and
rename with a crash in between, five clusters are filled by a file, a directory
and the growth of the root, and a directory of two slots grows with the second
entry, the long name across the cluster boundary. In `files`,
`MAXOPS` bounds opens, forks, deletes and writes by name, `MAXFAULTS` failed
reads and allocations, `MAXPOS` how far `lseek` goes; a file is empty, one
cluster exactly, or one and a half, so that seeks meet a cluster boundary, the end
and what lies past it; one path leads to a different file from each directory, and
the part kept of the long one leads nowhere. In `ush`, three processes are both
programs of a pipeline and a job in the background beside it. In `console`, of
two file names one begins with the other, so that Tab completes, lists or finds
nothing; a command completed in front of a line of spaces does not fit, which the
kernel shell refuses and `ush` does not; a line of three
characters and the space a completion draws after it reach the end of the row.

Fairness (`FairSpec`). Strong fairness of `scheduler_tick`: the PIT never stops
and the interrupt controller holds its request until interrupts are on, so a
tick that is possible again and again is taken, though a process may make
system calls in between. Weak fairness of `ResumeWait` and `ResumeRead`: a call
that was switched in runs on by itself. Strong fairness of the two reaper steps:
the kernel task's loop continues whenever it has the CPU. Programs and the
keyboard are not assumed to do anything. In `Heap` and `Fat32`, weak fairness of
the steps of an operation that has begun: it never blocks and runs with
interrupts off (or, in a program, by itself), so it goes on. That operations
begin is not assumed. In `Ush`, besides, strong fairness of the shell's own calls:
between two system calls it does nothing but compute, so it makes the next one
when it has had the CPU for long enough, and it gets the CPU again and again.

Every property has a mutant in `PROJECT.json`: a plausible slip in the code
(a swapped guard, a missing reset) under which TLC finds the property violated.

## 4. What is proved

`Process_proofs` proves for every `MaxPid`, `MaxRecords`, `TIMESLICE`,
`KbdCapacity` and `Codes` satisfying `BoundsAssumption` (they are positive) and
`CodesAssumption` (exit codes are integers, 0 among them):

| theorem | statement |
|---|---|
| `Invariance` | `Spec => []IInv` |
| `TypeCorrect`, `RingAlwaysSound`, `ListsAlwaysMatchStates`, `ExitsAccountedFor`, `WaitersHaveChildren`, `ForegroundAlwaysAlive` | `[]` of `TypeOK`, `RingSound`, `ListsMatchStates`, `ExitAccounting`, `WaiterHasChild`, `ForegroundAlive` |
| `LivesInOrder` | `[]LifeCycle` |
| `DeadNeverRun`, `ExitStatusDeliveredOnce` | the action properties `DeadStayDead`, `ExitDeliveredOnce` |

The argument. None of the invariants is inductive alone. The ring stays sound
over a switch only if the outgoing process is on the list of its state;
`ExitAccounting` survives an exit only if a process with the CPU has no record
yet, which is `LifeCycle`; a waiter keeps its child only if lists match states.
`IInv` is their conjunction with `LifeCycle`, and TLC checks each conjunct in
run `process`. The proof has three layers:

1. The ready queue: what adding, removing and advancing do to the set of
   processes on the ring, to its head and to the absence of duplicates.
2. `SwitchProperties`: `scheduler_switch`, called in a state `ReadyToSwitch`
   (a sound ring, lists right but for the process that has just died or gone to
   sleep), re-establishes everything; `TickMaySwitch` and `SleeperMaySwitch`
   and the exit proof show that its callers are in such a state.
3. One lemma per action, one step per conjunct. Each lemma also shows
   `DeadUntouched` and `DeliversOnce`, from which the action properties follow.

`Heap_proofs` proves for every header and page size, number of pages, word
size and set of requests satisfying `SizesAssumption` (header, page and word are
multiples of 4, a page is larger than a header, the pages fit in a word, requests
are any values of `size_t`):

| theorem | statement |
|---|---|
| `Invariance` | `Spec => []HeapInv` |
| `TypeCorrect`, `NoOverlap`, `InUseWhileHeld`, `Tiling`, `ChainHolds` | `[]` of `TypeOK`, `BlocksDisjoint`, `LiveBlocks`, `BlocksTilePages`, `ChainComplete` |
| `Refinement` | `Spec => RefinesAllocator` |

The argument. That blocks do not overlap is not inductive: a merge adds the size
of the next block in the chain, which is right only if that block lies directly
behind, has not been merged already, and leads on to blocks nothing else leads
to. `IInv` therefore says of the heap (`HeapOK`) that blocks are aligned and
inside the region (`Shaped`), apart (`Apart`), and linked so that no block has
two predecessors and the first has none (`Linked`), and that only the set of all
blocks contains the first one and, with each block, the next (`Whole`); that an
address is covered by a block exactly if it is in one of the heap's pages;
which blocks callers hold (`Held`); and of a walk in progress that its places are blocks, one behind
the other (`CallOK`): a growth would otherwise hook the new block into the
middle of the chain and cut off the rest. `HeapInv` is `IInv` until the heap goes
astray. A size that wraps leaves `HeapOK` alone: a block of 0 bytes is a block, and
a split compares with the same wrapped size that was found to fit. One lemma each for taking and
splitting a block (`CarveOK`), freeing and merging (`FreeOK`) and growth
(`AppendOK`) shows what it does to `HeapOK`, to the blocks in use and to the
bytes covered; the lemmas about actions follow from them. `ChainComplete` speaks
of the blocks reached in as many steps as there are blocks. `Whole` says the
same without counting, which is why it is the inductive form; `ReachesAll` leads
from one to the other: a step from blocks that do not yet contain all their
successors reaches a new one, so that after as many steps as there are blocks
none can be missing. The refinement rests on `Beside` (a block just taken is
apart from every region a caller holds) and `ReturnRefines` (the step that
returns is a step of `Allocator`, the moves of `realloc` included).

`Pipes_proofs` proves for all sets of processes, pipes, buffers and bytes and
every table, ring and buffer size satisfying `PipesAssumption` (two descriptors
and two ring slots at least, finitely many processes: without that a count of
references need not be a number):

| theorem | statement |
|---|---|
| `Invariance` | `Spec => []IInv` |
| `TypeCorrect`, `CountsExact`, `NoDanglingPipe`, `SleepersHaveReason` | `[]` of `TypeOK`, `RefcountsExact`, `PipesAllocatedWhileUsed`, `SleepersJustified` |
| `Refinement` | `Spec => RefinesFifo` |

The argument. A reference count is right after a close only if it was right for
the set of descriptors before, so the proof is about sets: `RefsClose`,
`RefsOpen`, `RefsDup` and `ForkInv` say which members each call takes from or
adds to the set of descriptors of a pipe end, and the cardinalities follow.
`dup2` is the hard case: it closes one end and opens another, possibly of the
same pipe. That a sleeper has a reason to sleep is not inductive: `IInv` adds
that a process in the middle of a read or write still holds the descriptor of
that call (`CallsHold`; a process can lose it only by a call of its own), so that
the pipe cannot be freed under it. The other half of `SleepersJustified`, that no
step takes a sleeper's place away without waking it, is shown action by action:
whoever clears a place makes its process ready. `FreshUnlessAllocated` and `BytesInFlight`
(what lies between tail and head was written) serve the refinement: `QueueWrite`
and `QueueRead` show that the ring arithmetic, wrap-around included, appends to
and takes from the sequence `QueueOf`, and each action is then a step of
`PipeFifo` or a stutter.

`AddressSpace_proofs` proves for any number of processes, frames and page tables
and any page size, under `MemoryAssumption` (the user half fits in a word),
`IncrementAssumption` (an `sbrk` increment, an `int`, plus a page is no larger
than an address) and `ImagesAssumption` (segments of executables lie in the user
half: `elf_load` does not check it, `user/linker.ld` makes it so):

| theorem | statement |
|---|---|
| `Invariance` | `Spec => []IInv` |
| `MemoryIsolated`, `NothingLeaks` | `[]` of `FramesExclusive`, `PoolsExact` |
| `OnlyRemapLoses`, `FailedStartRestores`, `StackSafe` | the action properties `LostOnlyByRemap`, `FailureRestores`, `StackStays` |

The argument. The core is `Memory`: types, a directory for every process,
exclusive frames and exact pools. Four operations change it, and there is a lemma
for each: a new directory (`Created`), a page mapped, with or without a new table
(`MapPlaces` to `PageMapped`), an address space cleared or destroyed
(`Released`), and frames for the kernel heap (`HeapTakes`). `JobSound` says what
the operation in progress still has to map. `Stacks` says that a running program
has its stack page or, while it is loaded, will get it; `BreakGrows` shows that
the pages `sbrk` maps end below it, with the arithmetic of the word. `BuildKept`
relates what a start or a fork has taken so far to what was taken before it
began, and to the frames that it has mapped over itself (`job.over`, a history
field); without it a failure half way could not be shown to restore the pools.

`Console_proofs` proves for every alphabet, word list, buffer, history, prompt
and row width satisfying `ConsoleAssumption` (prompts start inside a row, the words
hold no space):

| theorem | statement |
|---|---|
| `Invariance` | `Spec => []IInv` |
| `BuffersHold`, `WhatYouSee` | `[]` of `LineFits`, `ScreenShowsLine` |

The argument. `ScreenShowsLine` speaks of moments when a key may come;
`IInv` says the same of every moment (`Shown`), that ush waits for its program
with nothing typed (`WaitsEmpty`: `Enter` has cleared the line before the
foreground program starts), and that each line in the history fits the buffer it
may be recalled into (`HistoryFits`). `Live` is `IInv` where no completion of `ush`
has passed the end of the buffer yet. `Shows(t, n, l, c)` is a row with line `l`
after a prompt of `n` columns and the cursor at `c`, unless it is off; `Overwrite` says when writing over a
row that shows one line makes it show another, and `WriteRest`, `MoveLeft` and
`PromptShown` follow. `PromptDrawn` is the prompt at the cursor, which is right as
long as nothing stands behind it. Every key is then a chain of these: an insertion writes
the rest of the line and moves back; a recalled line blanks the old one first.

`Ush_proofs` proves, on top of `Process_proofs` and from the same assumptions:

| theorem | statement |
|---|---|
| `UshInvariance` | `UshSpec => []UInv` |
| `UshKeepsProcesses` | `UshSpec => []IInv`: a machine whose process 1 is `ush` keeps the invariants of `Process` |
| `PromptAlwaysReady` | `[]PromptReady` |

The argument. Every step of `UshNext` is one of `Process` (`UshIsProcess`), so
`IInv` is kept. `UInv` adds what the shell relies on: it is up until it exits and
nothing killed is left on a list (`UshLives`), it sleeps in the call its step
makes, with the target of that step (`SleepsInStep`), the last program of a
command is its child (`StagesKnown`), the keyboard is with it or with the living
program that it is in `waitpid` for (`FocusKept`), and with no job in the
background every child that it does not await any more has neither a place on a
list nor an exit record (`OthersGone`). The last is what `PromptReady` needs: a
`wait` for any child could otherwise return the exit of an older program while a
stage of the pipeline still runs. `WaitEffect` says what one turn of `wait` comes
to, `ExitEffect` (in `Process_proofs`) what an exit does to the lists, the
records and the keyboard.

`Files_proofs` proves for any number of processes, names, descriptors, clusters
and buffers and any sizes of cluster and buffer satisfying `FilesAssumption`
(positive sizes, finitely many processes and at least one, each path leads from
each directory to a file or to none, the first part of a path is a path):

| theorem | statement |
|---|---|
| `Invariance` | `Spec => []IInv` |
| `TypeCorrect`, `CachesExact`, `ShortReadsOnlyAtEnd` | `[]` of `TypeOK`, `CacheExact`, `ShortOnlyAtEnd` |
| `Refinement` | `Spec => RefinesOpenFiles` |

The argument. `CacheExact` speaks of the chain of a descriptor's file, which
every write and delete of another file changes the table around. `IInv` therefore
says of the disk (`DiskOK`) that the chain of each file has exactly the clusters
its size needs, all allocated, none shared; of each descriptor (`Keeps`) that its
file still has the size and contents it was opened with and that the cached place
is that of its position, or past the end of a chain that a read error has cut; of
buffers that their count is the number of descriptors (`Counts`); and of a read
in progress (`CallSound`) that it has got the bytes of the file from where it
began to the position. `Walk` is the chain as a function of the number of steps;
`Stepwise` shows that such functions exist, and what is true of every step is
proved by looking at the least one for which it is not (`LeastNumber`).
`WalkLaid` and `NewFile` say what a written file's chain and contents are,
`SameWalk` that a change of clusters outside a chain leaves it alone, and
`ClusterMatches` that the bytes of a file up to the end of a cluster lie together
in it, which is what one turn of `file_read` needs. `SlotInv`, `RowInv` and
`PlainRow` then give one argument for all actions that change one descriptor, or
all descriptors of one process.

The refinement writes `FileMap`, `HandleMap` and `BufferMap` as functions of the
state before and after a step and shows what each action does to them. A turn of
`file_read` stutters, as a handle shows where a read began until it returns; then
`CallSound` says that the bytes are those that follow. Closing, duplicating,
inheriting and exiting are all `Arrange` (`ArrangeStep`, with `SlotArranges` and
`RowArranges` for one descriptor and for all of a process): `CloseCommits` shows
from the exact count that a close writes or loses a buffer exactly when it leaves
nobody who refers to it (`LastEmpties`, `OthersNotEmptied`), `WroteReplaces` that
the file then has the buffer's bytes, `FailsReplaces` that otherwise it is as it
was, or gone.

`Fat32_proofs` proves for any number of clusters, any slots in a cluster, any
names, paths, sizes of files and number of operations satisfying `DiskAssumption`
(there is a cluster, which holds two slots or more; file and directory names
differ from each other and from the dot entries; paths are not empty):

| theorem | statement |
|---|---|
| `Invariance` | `Spec => []IInv` |
| `TargetAtRisk` | `[]OnlyTargetAtRisk` |
| `SpaceInvariance` | `Spec => []LInv` |
| `SpaceKept` | `[]LostOnlyWhenFull` |

The argument. `OnlyTargetAtRisk` speaks of what entries lead to and of what is
being renamed, but an operation also holds other chains that no entry leads to: a file half written, what is left of a file to free, a cluster that
is not linked yet. A step is safe only if those chains meet no other. `Good` says,
as long as there was no fault and nothing went astray: of the table (`FatOK`) that no cluster follows two
others, that none in use leads to a free one and that no chain is a circle; of
directories (`DirsOK`), which are known by their dot entries whether or not an
entry leads to them, that they hold entries up to the end mark and that free
clusters hold none; of entries (`EntriesOK`) that they lead to whole files and to
directories, all different, and to none of the chains that the operation holds
(`HeldHeads`); and of the operation (`JobOK`) what it knows at each of its steps.
TLC has checked `IInv` on six clusters before it was proved.

A chain is `Reach`, the least set that is closed under the table, so that nothing
is counted: `AllocKeeps`, `LinkKeeps` and `FreeKeeps` say what the three writes to
the table do to every chain, `Rewrite`, `Hook` and `NewDirectory` what the writes
to a directory do to the entries. There is one lemma per step of an operation
(`ScanGood` to `PutGood`). At the end `ChainReach` shows that `Chain`, which the
run evaluates by following the table `NCLUSTERS` times, is `Reach`: a set that
grows at each step has as many clusters as steps (`Follow`), and the disk has
no more. `DirsFromFacts` does the same for the tree.

`Good` keeps chains apart but does not say that somebody knows each of them;
that is `NoneLost`, which holds until an operation finds the disk full (`LInv`,
also checked by TLC on six clusters first). `Owned`: the first cluster of every
chain is a directory's, that of an entry, or held by the operation. `Below`: every
directory is reached from the root, or from the directory that is being made or
renamed while no entry leads to it (`HeldDir`). The tree is the least set of
directories closed under entries (`DownClosed`), so again nothing is counted. Two
things are needed to put the entry back. The directory that receives it must be
reached from the root by itself, or writing the entry would close a circle apart
from the tree: this is the last conjunct of `NoneLost`, and it holds when the old
entry goes because that entry lay in the very same directory and directories share
no cluster (`MarkNone`). And the entry must lead to what was held (`PutNone`).
Most steps leave the tree alone (`NoneKept`). At the end `UsedHasHead` finds the
first cluster of the chain of any cluster in use, going back along the table until
the chain grows no longer, and `GoodLost` that the tree from the root and the
directory held has all directories.

Only model-checked: liveness (fairness is outside the prover's reach), which
includes what `Fat32` claims of a disk after a fault, that every operation ends
on it (`OpsEnd`).

## 5. Findings

Each is a run that TLC refutes; the property states a comment of the code.

1. `no_stranded_waiter`. `kill` neither records an exit nor wakes the parent.
   A parent that sleeps in `wait` for the killed child sleeps for ever, and
   since `scheduler_find` does not know sleepers it cannot be killed either.
2. `heap_backed`. A negative `sbrk` may leave the break inside a page. The next
   growth maps its pages from there: the page the break is in is replaced, and
   the last page below the new break stays unmapped.

Met while modelling. The models do what the code does, and the properties name
these cases as their exceptions:

- A process killed while it has the CPU is only marked `DEAD`. If it blocks
  before the next tick, `scheduler_block` overwrites the mark and it lives on.
- A pipe has one place to register a sleeping reader and one for a writer. A
  second sleeper overwrites the first, which no close wakes, though the comment on
  `fd_close_pipes` says "wakes any process blocked on the other end".
  `SleepersJustified` excepts the step that displaces (`Displaced`).
- `kill` in `ush` does not refuse the shell's own pid. `PromptReady` and
  `PromptReturns` end there.
- With a job in the background, the last `wait` of a pipeline in `ush` may
  collect the job, and the prompt returns while the left program still runs.
- Characters typed between the exit of a foreground program of the kernel shell
  and its reaping stay in the line but stand before the new prompt.
- Tab in the middle of a word replaces the whole word. The kernel shell then
  moves the cursor back too far, though it means to "Move terminal cursor back to
  word_start", and both shells cover only one character of what the old word
  leaves behind, though that is "to erase any leftover characters if new name is
  shorter". With the case before it this is `off`, the exception of `ScreenShowsLine`.
- `do_tab` of `ush` does not check that the completed line fits in `g_input`; the
  kernel shell does. `LineFits` bounds the line of the kernel shell only.
- A start that fails does not get back the frames that a segment of its image
  mapped over those of another.
- A process started from the kernel shell is a child of whatever process the
  keyboard interrupt came in on.
- `fork` does not copy `heap_start` and `heap_end`: `sbrk` fails in a child.
- `rename` deletes the old entry first. If the directory is full and so is the
  disk, or the power goes off between the two writes, the file is gone.
- `rename` does not refuse `.` and `..`: the directory loses its dot entry and its
  parent, or it itself, gets a second entry inside it.
- A read error in the allocation table looks like the end of a file to a reader
  and like a free cluster to the allocator.
- `open` for writing neither creates nor truncates the file, though the comment
  on the flags of `sys_open` says "O_WRITE creates/truncates the file and opens it
  for writing"; all of it happens at the last close, whose failure nobody is told of.
- The last close looks the path up, cut to 63 characters, from the directory that
  is current then: after a `chdir`, or with a longer path, another file is written,
  or none.
- `cd ..` in the root directory reads the second entry of the root as if it
  were `..`.

## 6. Not modelled, and the plan

Left out for good: register and FPU switching, segment and interrupt
controller set-up, port I/O of the drivers, graphics and colours, string functions. They are
hardware access, output or textbook loops. The Tiny C compiler under `tcc/`,
three quarters of the repository's lines, is vendored third-party code and no
part of the kernel.

Left out so far: the scratch windows through which the kernel reaches frames
above the identity map; malformed ELF headers; the copying of arguments; scan
codes and modifier keys; the splitting of a command line into words; the buffered
streams of the user library; the length of a sleep.

Next, in this order:

1. Scan codes and modifier keys; who gets the input after a change of focus.
2. The buffered streams on top of `OpenFiles`.
