------------------------------- MODULE Files -------------------------------
(***************************************************************************)
(* Open files: the descriptors of files in kernel/syscall.c with their     *)
(* cached place in the cluster chain, the write buffers of kernel/wbuf.c   *)
(* that are committed by the last close, and both under fork, dup2 and     *)
(* exit, over a disk of clusters that other calls write to.                *)
(*                                                                         *)
(* A system call runs with interrupts off, so one call ends before the     *)
(* next begins; a read takes one step per cluster, an exit one per         *)
(* descriptor.  How the file system writes is in module Fat32: here a file *)
(* is replaced in one step, and may be lost when the disk or the memory is *)
(* full.                                                                   *)
(***************************************************************************)
EXTENDS Integers, Sequences, FiniteSets

CONSTANTS
    Procs, NULL,
    Names,            \* the files there may be
    Cwds,             \* the directories that may be the current one
    Paths,
    FileAt,           \* FileAt[d][q]: the file path q leads to from d, or NULL
    Cut,              \* Cut[q]: the first 63 characters of path q
    Wbufs,            \* addresses kmalloc may return for a wbuf_t
    Bytes,            \* what programs write; 0 pads the last cluster
    MAX_FDS,
    NCLUSTERS,        \* clusters of the disk
    CLUSTER_BYTES,
    WBUF_CAP,
    WRITES,           \* what one call may write
    LENS,             \* how much one call may read
    OFFSETS,          \* arguments of lseek
    MAXPOS,           \* bound on the place lseek may go to
    MAXFAULTS,        \* bound on failed reads and on failed kmallocs
    MAXOPS            \* bound on opens, forks, deletes and writes by name

ASSUME FilesAssumption ==
    /\ MAX_FDS \in Nat \ {0} /\ NCLUSTERS \in Nat \ {0} /\ CLUSTER_BYTES \in Nat \ {0}
    /\ WBUF_CAP \in Nat /\ MAXPOS \in Nat /\ MAXFAULTS \in Nat /\ MAXOPS \in Nat
    /\ IsFiniteSet(Procs) /\ Procs # {}
    /\ NULL \notin Procs \cup Names \cup Wbufs \cup Paths /\ NULL \notin Nat
    /\ Cwds # {} /\ FileAt \in [Cwds -> [Paths -> Names \cup {NULL}]] /\ Cut \in [Paths -> Paths]
    /\ WRITES \subseteq Seq(Bytes) /\ LENS \subseteq Nat \ {0} /\ OFFSETS \subseteq Int

Cluster == 2 .. NCLUSTERS + 1
EOC     == NCLUSTERS + 2          \* VFS_CLUSTER_EOC
Fds     == 0 .. MAX_FDS - 1
Block   == 1 .. CLUSTER_BYTES

VARIABLES
    fat,              \* 0: free; EOC: the last cluster of its file
    data,             \* [cluster -> its bytes]
    dir,              \* [name -> its entry, or NoEntry]
    cwd,              \* cwd_cluster, one for all processes
    alive,            \* the processes there are
    fds,              \* process_t.fds
    wbuf,             \* the wbuf_t at each address; refcount 0: none
    call,             \* the read or exit in progress
    opened,           \* history, per descriptor: the file it was opened on, if
                      \* that is still what it was, and if a read error cut
                      \* its chain short
    returned,         \* history: what the read that has just ended was and gave,
                      \* and if the close that has just ended lost its buffer
    faults,           \* failed reads and kmallocs so far
    ops               \* opens, forks, deletes and writes by name so far

store == <<fat, data, dir, cwd>>
vars  == <<store, alive, fds, wbuf, call, opened, returned, faults, ops>>

NoEntry == [first |-> NULL, size |-> 0]
Closed  == [kind |-> "NONE", wbuf |-> NULL, first_cluster |-> 0, cur_cluster |-> 0,
            cluster_offset |-> 0, pos |-> 0, size |-> 0]
Tty     == [Closed EXCEPT !.kind = "TTY"]
NoWbuf  == [path |-> NULL, buf |-> << >>, refcount |-> 0]
NoCall  == [op |-> "none", p |-> NULL, fd |-> 0, len |-> 0, from |-> 0,
            got |-> << >>, failed |-> FALSE]
Unknown == [name |-> NULL, bytes |-> << >>, cut |-> FALSE]
NoRead  == [bytes |-> << >>, due |-> 0, failed |-> FALSE, lost |-> FALSE]

\* fd_init_std
StdFds == [f \in Fds |-> IF f <= 2 THEN Tty ELSE Closed]

Init ==
    /\ fat = [c \in Cluster |-> 0]
    /\ data = [c \in Cluster |-> [i \in Block |-> 0]]
    /\ dir = [n \in Names |-> NoEntry]
    /\ cwd \in Cwds
    /\ \E p \in Procs : alive = {p}
    /\ fds = [p \in Procs |-> StdFds]
    /\ wbuf = [w \in Wbufs |-> NoWbuf]
    /\ call = NoCall
    /\ opened = [p \in Procs |-> [f \in Fds |-> Unknown]]
    /\ returned = NoRead
    /\ faults = 0 /\ ops = 0
----------------------------------------------------------------------------
(* The disk. *)

Fault == faults < MAXFAULTS /\ faults' = faults + 1

\* fat_next_cluster; entry 0 of the table reads as an end mark.
NextCluster(c) == IF c \in Cluster THEN fat[c] ELSE EOC

\* The cluster k steps along the chain from c, stopping at its end; the j-th
\* step of the walk, if any, fails to read the table and gives 0.
Along(c, k, j) ==
    LET at[i \in Nat] == IF i = 0 THEN c
                         ELSE IF at[i - 1] >= EOC THEN at[i - 1]
                         ELSE IF i = j THEN 0
                         ELSE NextCluster(at[i - 1])
    IN  at[k]

ClustersFor(size) == (size + CLUSTER_BYTES - 1) \div CLUSTER_BYTES

\* The clusters and the contents of the file with entry e.
ChainOf(e) == {Along(e.first, i, 0) : i \in 0 .. ClustersFor(e.size) - 1}
Contents(e) ==
    [i \in 1 .. e.size |->
        data[Along(e.first, (i - 1) \div CLUSTER_BYTES, 0)][1 + ((i - 1) % CLUSTER_BYTES)]]

\* The table without the file n.
Released(n) == [c \in Cluster |-> IF dir[n] # NoEntry /\ c \in ChainOf(dir[n]) THEN 0 ELSE fat[c]]

\* fat_alloc_cluster takes the lowest free cluster each time: the first k.
Taken(s, k, table) ==
    /\ s \in [1 .. k -> {c \in Cluster : table[c] = 0}]
    /\ \A i, j \in 1 .. k : i < j => s[i] < s[j]
    /\ \A c \in Cluster : table[c] = 0 /\ (\E i \in 1 .. k : c < s[i]) => \E i \in 1 .. k : c = s[i]

Position(s, c) == CHOOSE i \in DOMAIN s : s[i] = c

\* The clusters s linked and filled with the bytes b, the last one padded.
Laid(s, b, table) ==
    LET in(c) == \E i \in DOMAIN s : s[i] = c
        at(c) == Position(s, c)
    IN  /\ fat' = [c \in Cluster |->
                     IF ~in(c) THEN table[c] ELSE IF at(c) = Len(s) THEN EOC ELSE s[at(c) + 1]]
        /\ data' = [c \in Cluster |->
                     IF ~in(c) THEN data[c]
                     ELSE [i \in Block |->
                             LET k == (at(c) - 1) * CLUSTER_BYTES + i
                             IN  IF k <= Len(b) THEN b[k] ELSE 0]]

NFree(table) == Cardinality({c \in Cluster : table[c] = 0})

\* vfs_write_file: the bytes b become file n, after the old file has gone.
Wrote(n, b) ==
    LET need  == ClustersFor(Len(b))
        table == Released(n)
    IN  /\ need <= NFree(table) /\ UNCHANGED <<cwd, faults>>
        /\ \E s \in [1 .. need -> Cluster] :
              /\ Taken(s, need, table) /\ Laid(s, b, table)
              /\ dir' = [dir EXCEPT ![n] = [first |-> IF need = 0 THEN 0 ELSE s[1],
                                            size |-> Len(b)]]

\* It fails, and R are the files it loses.  Without memory nothing happens, or
\* it ends between two steps; with a full disk what it has allocated is lost.
WriteFails(n, b, R) ==
    LET need  == ClustersFor(Len(b))
        table == Released(n)
        room  == NFree(table)
    IN  /\ UNCHANGED cwd
        /\ \/ /\ R = {n} /\ dir' = [dir EXCEPT ![n] = NoEntry]
              /\ \/ need > room /\ UNCHANGED faults
                 \/ need <= room /\ Fault
              /\ \E k \in IF need > room THEN {room} ELSE {0, need} :
                 \E s \in [1 .. k -> Cluster] : Taken(s, k, table) /\ Laid(s, b, table)
           \/ R = {} /\ Fault /\ UNCHANGED <<fat, data, dir>>

\* The descriptors of the files R no longer show what they were opened on.
Outdated(R) == [p \in Procs |-> [f \in Fds |->
                  IF opened[p][f].name \in R THEN Unknown ELSE opened[p][f]]]

Idle == call = NoCall
Counted == ops < MAXOPS /\ ops' = ops + 1
Nothing == returned' = NoRead

\* writefile, and the shell commands that write or delete a file.
sys_writefile(n, b) ==
    /\ Idle /\ Counted /\ Nothing
    /\ \E R \in SUBSET {n} : /\ (R = {n} /\ Wrote(n, b)) \/ WriteFails(n, b, R)
                             /\ opened' = Outdated(R)
    /\ UNCHANGED <<alive, fds, wbuf, call>>

sys_rmfile(n) ==
    /\ Idle /\ Counted /\ Nothing /\ dir[n] # NoEntry
    /\ fat' = Released(n)
    /\ dir' = [dir EXCEPT ![n] = NoEntry]
    /\ opened' = Outdated({n})
    /\ UNCHANGED <<data, cwd, alive, fds, wbuf, call, faults>>

\* The current directory is that of the whole system.
sys_chdir(d) ==
    /\ Idle /\ Counted /\ Nothing
    /\ cwd' = d
    /\ UNCHANGED <<fat, data, dir, alive, fds, wbuf, call, opened, faults>>
----------------------------------------------------------------------------
(* Opening, reading and seeking. *)

LowestClosed(p, f) == fds[p][f].kind = "NONE" /\ \A g \in 0 .. f - 1 : fds[p][g].kind # "NONE"

OpenRead(p, f, n) ==
    /\ dir[n] # NoEntry
    /\ fds' = [fds EXCEPT ![p][f] =
                 [Closed EXCEPT !.kind = "READ", !.first_cluster = dir[n].first,
                                !.cur_cluster = dir[n].first, !.size = dir[n].size]]
    /\ opened' = [opened EXCEPT ![p][f] = [name |-> n, bytes |-> Contents(dir[n]), cut |-> FALSE]]
    /\ UNCHANGED wbuf

\* wbuf_open: nothing happens to the file yet.  The buffer keeps the first 63
\* characters of the path, and it is not yet looked up.
OpenWrite(p, f, q) ==
    /\ \E w \in Wbufs :
          /\ wbuf[w] = NoWbuf
          /\ wbuf' = [wbuf EXCEPT ![w] = [path |-> Cut[q], buf |-> << >>, refcount |-> 1]]
          /\ fds' = [fds EXCEPT ![p][f] = [Closed EXCEPT !.kind = "WRITE", !.wbuf = w]]
    /\ UNCHANGED opened

sys_open(p, q) ==
    /\ Idle /\ Counted /\ Nothing /\ p \in alive
    /\ \E f \in Fds : /\ LowestClosed(p, f)
                      /\ \/ \E n \in Names : n = FileAt[cwd][q] /\ OpenRead(p, f, n)
                         \/ OpenWrite(p, f, q)
    /\ UNCHANGED <<store, alive, call, faults>>

\* file_read, up to its loop.
sys_read_fd(p, f, len) ==
    /\ Idle /\ Nothing /\ p \in alive /\ fds[p][f].kind = "READ"
    /\ call' = [NoCall EXCEPT !.op = "read", !.p = p, !.fd = f, !.len = len, !.from = fds[p][f].pos]
    /\ UNCHANGED <<store, alive, fds, wbuf, opened, faults, ops>>

\* The descriptor being read, and whether the loop goes on.
Current == fds[call.p][call.fd]

MoreToRead_FirstCluster ==
    /\ call.got = << >> /\ Current.pos < Current.size
    /\ Current.cur_cluster >= 2 /\ Current.cur_cluster < EOC
    /\ ~call.failed

MoreToRead ==
    /\ Len(call.got) < call.len /\ Current.pos < Current.size
    /\ Current.cur_cluster >= 2 /\ Current.cur_cluster < EOC
    /\ ~call.failed

\* The bytes of this turn: what is wanted, left in the cluster and in the file.
Least(a, b) == IF a <= b THEN a ELSE b

ThisTurn == Least(Least(call.len - Len(call.got), CLUSTER_BYTES - Current.cluster_offset),
                  Current.size - Current.pos)

\* The descriptor n bytes on; at the end of a cluster, in cluster c.
Advanced(d, n, c) ==
    IF d.cluster_offset + n >= CLUSTER_BYTES
    THEN [d EXCEPT !.pos = @ + n, !.cur_cluster = c, !.cluster_offset = 0]
    ELSE [d EXCEPT !.pos = @ + n, !.cluster_offset = @ + n]

\* The n bytes copied to the caller.
Copied(d, n) == SubSeq(data[d.cur_cluster], d.cluster_offset + 1, d.cluster_offset + n)

ReadTurn ==
    LET d == Current
        n == ThisTurn
        ends == d.cluster_offset + n >= CLUSTER_BYTES
    IN  /\ call.op = "read" /\ MoreToRead
        /\ call' = [call EXCEPT !.got = @ \o Copied(d, n)]
        /\ \/ /\ fds' = [fds EXCEPT ![call.p][call.fd] = Advanced(d, n, NextCluster(d.cur_cluster))]
              /\ UNCHANGED <<opened, faults>>
           \/ /\ ends /\ Fault
              /\ fds' = [fds EXCEPT ![call.p][call.fd] = Advanced(d, n, 0)]
              /\ opened' = [opened EXCEPT ![call.p][call.fd].cut = (opened[call.p][call.fd].name # NULL)]
        /\ UNCHANGED <<store, alive, wbuf, returned, ops>>

\* The cluster cannot be read: the call ends with what it has.
ReadFails ==
    /\ call.op = "read" /\ MoreToRead /\ Fault
    /\ call' = [call EXCEPT !.failed = TRUE]
    /\ UNCHANGED <<store, alive, fds, wbuf, opened, returned, ops>>

ReadReturns ==
    /\ call.op = "read" /\ ~MoreToRead
    /\ returned' = IF opened[call.p][call.fd].name = NULL THEN NoRead
                   ELSE [bytes  |-> call.got,
                         due    |-> Least(call.len, Len(opened[call.p][call.fd].bytes) - call.from),
                         failed |-> call.failed \/ opened[call.p][call.fd].cut,
                         lost   |-> FALSE]
    /\ call' = NoCall
    /\ UNCHANGED <<store, alive, fds, wbuf, opened, faults, ops>>

\* sys_lseek: the chain is walked from the start each time.
Base(d, whence) == CASE whence = 0 -> 0 [] whence = 1 -> d.pos [] whence = 2 -> d.size

Sought_FromHere(d, pos, j) ==
    [d EXCEPT !.pos = pos, !.cluster_offset = pos % CLUSTER_BYTES,
              !.cur_cluster = Along(d.cur_cluster, pos \div CLUSTER_BYTES, j)]

Sought(d, pos, j) ==
    [d EXCEPT !.pos = pos, !.cluster_offset = pos % CLUSTER_BYTES,
              !.cur_cluster = Along(d.first_cluster, pos \div CLUSTER_BYTES, j)]

sys_lseek(p, f, offset, whence) ==
    LET pos == Base(fds[p][f], whence) + offset
    IN  /\ Idle /\ Nothing /\ p \in alive /\ fds[p][f].kind = "READ"
        /\ pos >= 0 /\ pos <= MAXPOS
        /\ \E j \in 0 .. pos \div CLUSTER_BYTES :
              /\ j # 0 => Along(fds[p][f].first_cluster, j - 1, 0) < EOC
              /\ fds' = [fds EXCEPT ![p][f] = Sought(@, pos, j)]
              /\ opened' = [opened EXCEPT ![p][f].cut = (j # 0 /\ opened[p][f].name # NULL)]
              /\ IF j = 0 THEN UNCHANGED faults ELSE Fault
        /\ UNCHANGED <<store, alive, wbuf, call, ops>>

\* file_write: a full buffer takes less.
Appended_NoCap(w, b) == [wbuf EXCEPT ![w].buf = @ \o b]
Appended(w, b) ==
    [wbuf EXCEPT ![w].buf = @ \o SubSeq(b, 1, Least(Len(b), WBUF_CAP - Len(@)))]

sys_write_fd(p, f, b) ==
    /\ Idle /\ Nothing /\ p \in alive /\ fds[p][f].kind = "WRITE"
    /\ wbuf' = Appended(fds[p][f].wbuf, b)
    /\ UNCHANGED <<store, alive, fds, call, opened, faults, ops>>
----------------------------------------------------------------------------
(* Closing and sharing. *)

\* wbuf_unref and wbuf_ref, on the buffers wb.
Unref(wb, w) ==
    [wb EXCEPT ![w] = IF wb[w].refcount > 1
                      THEN [wb[w] EXCEPT !.refcount = wb[w].refcount - 1] ELSE NoWbuf]

Ref(wb, w) == [wb EXCEPT ![w].refcount = @ + 1]
UnrefOf(wb, d) == IF d.kind = "WRITE" THEN Unref(wb, d.wbuf) ELSE wb
RefOf(wb, d) == IF d.kind = "WRITE" THEN Ref(wb, d.wbuf) ELSE wb

\* The last reference commits the buffer: its path is looked up now.  R are
\* the files that go with it.  Nobody is told that the write failed.
LastOf(d)  == d.kind = "WRITE" /\ wbuf[d.wbuf].refcount = 1
Unwritten  == returned' = [NoRead EXCEPT !.lost = TRUE]
Commit(w, R) ==
    LET n == FileAt[cwd][w.path]
    IN  \/ n \in Names /\ R = {n} /\ Wrote(n, w.buf) /\ Nothing
        \/ n \in Names /\ WriteFails(n, w.buf, R) /\ Unwritten
        \/ n = NULL /\ R = {} /\ UNCHANGED <<store, faults>> /\ Unwritten

Commits_NotEmpty(d, R) ==
    IF LastOf(d) /\ wbuf[d.wbuf].buf # << >> THEN Commit(wbuf[d.wbuf], R)
    ELSE R = {} /\ UNCHANGED <<store, faults>> /\ Nothing

Commits(d, R) ==
    IF LastOf(d) THEN Commit(wbuf[d.wbuf], R)
    ELSE R = {} /\ UNCHANGED <<store, faults>> /\ Nothing

sys_close(p, f) ==
    /\ Idle /\ p \in alive /\ fds[p][f].kind # "NONE"
    /\ wbuf' = UnrefOf(wbuf, fds[p][f])
    /\ fds' = [fds EXCEPT ![p][f] = Closed]
    /\ \E R \in SUBSET Names : /\ Commits(fds[p][f], R)
                               /\ opened' = [Outdated(R) EXCEPT ![p][f] = Unknown]
    /\ UNCHANGED <<alive, call, ops>>

sys_dup2(p, f, g) ==
    /\ Idle /\ p \in alive /\ fds[p][f].kind # "NONE" /\ f # g
    /\ wbuf' = RefOf(UnrefOf(wbuf, fds[p][g]), fds[p][f])
    /\ fds' = [fds EXCEPT ![p][g] = fds[p][f]]
    /\ \E R \in SUBSET Names : /\ Commits(fds[p][g], R)
                               /\ opened' = [Outdated(R) EXCEPT ![p][g] = Outdated(R)[p][f]]
    /\ UNCHANGED <<alive, call, ops>>

\* process_create for a program of the shell.
process_create(p) ==
    /\ Idle /\ Nothing /\ p \notin alive
    /\ alive' = alive \cup {p}
    /\ fds' = [fds EXCEPT ![p] = StdFds]
    /\ UNCHANGED <<store, wbuf, call, opened, faults, ops>>

\* process_fork: the child has copies, and its own place in each file.
process_fork(p, c) ==
    /\ Idle /\ Counted /\ Nothing /\ p \in alive /\ c \notin alive
    /\ alive' = alive \cup {c}
    /\ fds' = [fds EXCEPT ![c] = fds[p]]
    /\ wbuf' = [w \in Wbufs |->
                 [wbuf[w] EXCEPT !.refcount = @ +
                    Cardinality({f \in Fds : fds[p][f].kind = "WRITE" /\ fds[p][f].wbuf = w})]]
    /\ opened' = [opened EXCEPT ![c] = opened[p]]
    /\ UNCHANGED <<store, call, faults>>

\* process_exit, or process_destroy of a killed process: fd_close_writable
\* goes through the table, which is freed with the process.
process_exit(p) ==
    /\ Idle /\ Nothing /\ p \in alive
    /\ call' = [NoCall EXCEPT !.op = "exit", !.p = p]
    /\ UNCHANGED <<store, alive, fds, wbuf, opened, faults, ops>>

FirstWritable(p, f) ==
    fds[p][f].kind = "WRITE" /\ \A g \in 0 .. f - 1 : fds[p][g].kind # "WRITE"

ExitTurn ==
    /\ call.op = "exit"
    /\ \E f \in Fds :
          /\ FirstWritable(call.p, f)
          /\ wbuf' = UnrefOf(wbuf, fds[call.p][f])
          /\ fds' = [fds EXCEPT ![call.p][f] = Closed]
          /\ \E R \in SUBSET Names : Commits(fds[call.p][f], R) /\ opened' = Outdated(R)
    /\ UNCHANGED <<alive, call, ops>>

ExitEnds ==
    /\ call.op = "exit" /\ Nothing
    /\ \A f \in Fds : fds[call.p][f].kind # "WRITE"
    /\ alive' = alive \ {call.p}
    /\ fds' = [fds EXCEPT ![call.p] = StdFds]
    /\ opened' = [opened EXCEPT ![call.p] = [f \in Fds |-> Unknown]]
    /\ call' = NoCall
    /\ UNCHANGED <<store, wbuf, faults, ops>>

Next ==
    \/ \E n \in Names : sys_rmfile(n) \/ \E b \in WRITES : sys_writefile(n, b)
    \/ \E d \in Cwds : sys_chdir(d)
    \/ \E p \in Procs, q \in Paths : sys_open(p, q)
    \/ \E p \in Procs, f \in Fds :
          \/ \E len \in LENS : sys_read_fd(p, f, len)
          \/ \E o \in OFFSETS, whence \in 0 .. 2 : sys_lseek(p, f, o, whence)
          \/ \E b \in WRITES : sys_write_fd(p, f, b)
          \/ sys_close(p, f)
          \/ \E g \in Fds : sys_dup2(p, f, g)
    \/ ReadTurn \/ ReadFails \/ ReadReturns \/ ExitTurn \/ ExitEnds
    \/ \E p \in Procs : process_create(p) \/ process_exit(p) \/ \E c \in Procs : process_fork(p, c)

Spec == Init /\ [][Next]_vars
----------------------------------------------------------------------------
Content == Bytes \cup {0}
Descriptor ==
    [kind : {"NONE", "TTY", "READ", "WRITE"}, wbuf : Wbufs \cup {NULL},
     first_cluster : Cluster \cup {0}, cur_cluster : Cluster \cup {0, EOC},
     cluster_offset : 0 .. CLUSTER_BYTES - 1, pos : Nat, size : Nat]

\* Every variable has its type.  In particular a descriptor's cached place is
\* a byte of a cluster (file_read never leaves the offset past the end of one)
\* and no write buffer is longer than WBUF_CAP.
TypeOK ==
    /\ fat \in [Cluster -> Cluster \cup {0, EOC}]
    /\ data \in [Cluster -> [Block -> Content]]
    /\ dir \in [Names -> [first : Cluster \cup {0, NULL}, size : Nat]]
    /\ cwd \in Cwds /\ alive \subseteq Procs
    /\ fds \in [Procs -> [Fds -> Descriptor]]
    /\ \A w \in Wbufs : /\ wbuf[w].path \in Paths \cup {NULL} /\ wbuf[w].refcount \in Nat
                        /\ wbuf[w].buf \in Seq(Bytes) /\ Len(wbuf[w].buf) <= WBUF_CAP
    /\ call.op \in {"none", "read", "exit"} /\ call.got \in Seq(Content)
    /\ opened \in [Procs -> [Fds -> [name : Names \cup {NULL}, bytes : Seq(Content), cut : BOOLEAN]]]
    /\ faults \in 0 .. MAXFAULTS /\ ops \in 0 .. MAXOPS

\* The cached place of a descriptor is where its position is in the chain of
\* its file, after any sequence of reads, seeks (also past the end), dup2 and
\* fork, as long as the file is not replaced and the table could be read:
\* file_read resumes there without looking at the chain again.
CacheExact ==
    \A p \in Procs, f \in Fds :
        LET d == fds[p][f]  o == opened[p][f]
        IN  o.name # NULL /\ ~o.cut =>
              /\ d.kind = "READ" /\ d.size = dir[o.name].size
              /\ d.cluster_offset = d.pos % CLUSTER_BYTES
              /\ d.cur_cluster = Along(dir[o.name].first, d.pos \div CLUSTER_BYTES, 0)

\* A read that meets no disk error returns all there is, up to what was asked
\* for: fewer bytes mean the end of the file, as fread and cat take it.
ShortOnlyAtEnd ==
    returned # NoRead /\ ~returned.failed =>
        Len(returned.bytes) = IF returned.due > 0 THEN returned.due ELSE 0

\* What OpenFiles calls files, handles and buffers.  A read in progress shows
\* when it returns.
FileMap == [n \in Names |-> IF dir[n] = NoEntry THEN {} ELSE {Contents(dir[n])}]

HandleMap ==
    [h \in Procs \X Fds |->
        LET o == opened[h[1]][h[2]]
        IN  [name |-> o.name, bytes |-> o.bytes,
             pos |-> IF o.name = NULL THEN 0
                     ELSE IF call.op = "read" /\ <<call.p, call.fd>> = h THEN call.from
                     ELSE fds[h[1]][h[2]].pos]]

BufferMap ==
    [w \in Wbufs |->
        [path |-> wbuf[w].path, bytes |-> wbuf[w].buf,
         by |-> {h \in Procs \X Fds : fds[h[1]][h[2]].kind = "WRITE" /\ fds[h[1]][h[2]].wbuf = w}]]

\* The descriptors implement OpenFiles: whatever the order of calls, a read
\* returns the bytes the file had when it was opened, from the descriptor's
\* own position on; files change as a whole, by a write or delete, or when the
\* last descriptor of a write buffer is closed, with all that was accepted
\* through any of them (wbuf.h: "without double-writing or losing data").  That
\* last close always writes the buffer, to the file its path leads to at that
\* moment, unless the path leads nowhere or the write fails.
Promise == INSTANCE OpenFiles WITH
    None <- NULL, Buffers <- Wbufs, where <- FileAt[cwd],
    files <- FileMap, handle <- HandleMap, buffer <- BufferMap,
    returned <- returned.bytes, lost <- returned.lost
RefinesOpenFiles == Promise!Spec
=============================================================================
