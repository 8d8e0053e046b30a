------------------------------- MODULE Fat32 -------------------------------
(***************************************************************************)
(* The FAT32 driver (fs/fat32.c) on a disk (drivers/ata.c) that may fail,  *)
(* with the power going off between any two writes.                        *)
(*                                                                         *)
(* An operation runs to its end before the next begins: system calls and   *)
(* the kernel shell call the driver with interrupts off.  What it does is  *)
(* one step per write to the disk and one per cluster of a directory it    *)
(* reads, so `job' is its program counter and its local variables.         *)
(*                                                                         *)
(* A name stands for itself; a long name takes one slot more, before its   *)
(* entry.  Sizes are counted in clusters.                                  *)
(***************************************************************************)
EXTENDS Integers, FiniteSets, Sequences

CONSTANTS
    NCLUSTERS,        \* clusters of the disk; the first is the root directory
    SLOTS,            \* directory entries in a cluster
    FileNames, DirNames,
    LongNames,        \* the names that need a slot for the long name
    Paths,            \* the paths given to the operations
    SIZES,            \* clusters of the files written
    MAXEVENTS         \* operations and faults in a behaviour

ASSUME DiskAssumption ==
    /\ NCLUSTERS \in Nat \ {0} /\ SLOTS \in Nat \ {0, 1}
    /\ SIZES \subseteq Nat /\ MAXEVENTS \in Nat
    /\ FileNames \cap DirNames = {} /\ LongNames \subseteq FileNames \cup DirNames
    /\ (FileNames \cup DirNames) \cap {".", ".."} = {}
    /\ \A p \in Paths : p.names \in Seq(FileNames \cup DirNames \cup {".", ".."}) \ {<< >>}

Cluster == 2 .. NCLUSTERS + 1
FREE == 0
BAD  == NCLUSTERS + 2        \* a cluster number off the disk
EOC  == NCLUSTERS + 3        \* FAT32_EOC
root_cluster == 2
Names == FileNames \cup DirNames \cup {".", ".."}

\* while (cluster >= 2 && cluster < FAT32_EOC)
OnChain(c) == c >= 2 /\ c < EOC

max_chain_length == NCLUSTERS

VARIABLES
    fat,              \* the file allocation table
    disk,             \* [cluster -> its slots]
    cwd_cluster,
    job,              \* the operation in progress
    faults,           \* the faults so far, by kind
    astray,           \* a dot entry was renamed, or cd .. in the root led elsewhere
    full,             \* an operation has found the disk full
    ops               \* the operations begun so far

vars == <<fat, disk, cwd_cluster, job, faults, astray, full, ops>>

\* A slot of a directory or of a data cluster: k is "end", "del", "lfn", "file",
\* "dir" or "data".
EndSlot     == [k |-> "end", name |-> "", first |-> 0, size |-> 0]
LfnSlot(n)  == [k |-> "lfn", name |-> n, first |-> BAD, size |-> 0]
Entry(k, n, c, s) == [k |-> k, name |-> n, first |-> c, size |-> s]

Zeroed      == [i \in 1 .. SLOTS |-> EndSlot]
FileData    == [i \in 1 .. SLOTS |-> Entry("data", "", BAD, 0)]

\* What fat32_create_entry hands to dir_write_entries.
Entries(e)  == IF e.name \in LongNames THEN <<LfnSlot(e.name), e>> ELSE <<e>>

\* op: the operation; pc: the write or the read it does next.  path: the names
\* still to look up; dir: the directory; cl, idx: the place in its chain;
\* prev: the cluster before; steps: chain_steps.  lfn: the slots of cluster
\* prev tracked as the long name of the entry found.  new: the cluster being
\* freed, filled, read or linked; left: clusters still to write or read;
\* entry: the new entry; put: the slots still to write.
NoJob == [op |-> "none", pc |-> "", path |-> << >>, dir |-> 0, cl |-> 0, idx |-> 0,
          steps |-> 0, prev |-> 0, lfn |-> {}, new |-> 0, left |-> 0,
          entry |-> EndSlot, put |-> << >>]

\* A freshly formatted disk, mounted.
Init ==
    /\ fat = [c \in Cluster |-> IF c = root_cluster THEN EOC ELSE FREE]
    /\ disk = [c \in Cluster |-> Zeroed]
    /\ cwd_cluster = root_cluster
    /\ job = NoJob
    /\ faults = [crash |-> 0, read |-> 0, write |-> 0, memory |-> 0]
    /\ astray = FALSE
    /\ full = FALSE
    /\ ops = 0
----------------------------------------------------------------------------
(* The disk. *)

\* A fault: a power loss, a failed read or write, or a failed kmalloc.
Faults == faults.crash + faults.read + faults.write + faults.memory
Fault(kind) ==
    /\ ops + Faults < MAXEVENTS
    /\ faults' = [faults EXCEPT ![kind] = @ + 1]

\* A write succeeds, or it fails and leaves the disk as it is.
Written(ok) == IF ok THEN UNCHANGED faults ELSE Fault("write")

\* fat_set_cluster and write_cluster.
SetFat(c, v)       == fat' = IF c \in Cluster THEN [fat EXCEPT ![c] = v] ELSE fat
WriteFat(c, v, ok) == UNCHANGED disk /\ Written(ok) /\ IF ok THEN SetFat(c, v) ELSE UNCHANGED fat

WriteCluster(c, slots, ok) ==
    /\ disk' = IF ok /\ c \in Cluster THEN [disk EXCEPT ![c] = slots] ELSE disk
    /\ Written(ok) /\ UNCHANGED fat

NoWrite == UNCHANGED <<fat, disk>>

Go(pc) == job' = [job EXCEPT !.pc = pc]
Done   == job' = NoJob

\* fat_next_cluster; a failed read gives 0.
NextCluster(c) == IF c \in Cluster THEN fat[c] ELSE 0

\* fat_alloc_cluster takes the lowest entry that reads as free.  The entry
\* of cluster e, if any, fails to read and so looks free.
LooksFree(c, e) == fat[c] = FREE \/ c = e
Allocated(c, e) == c \in Cluster /\ LooksFree(c, e) /\ \A b \in 2 .. c - 1 : ~LooksFree(b, e)
DiskFull == \A c \in Cluster : fat[c] # FREE

\* The step that allocates: it goes on at pc with job.new set, or gives up
\* because the disk is full or the entry cannot be written.
Alloc(pc) ==
    \/ \E c \in Cluster : /\ Allocated(c, 0) /\ WriteFat(c, EOC, TRUE) /\ UNCHANGED full
                          /\ job' = [job EXCEPT !.new = c, !.pc = pc]
    \/ \E c \in Cluster : /\ fat[c] # FREE /\ Allocated(c, c)
                          /\ SetFat(c, EOC) /\ Fault("read") /\ UNCHANGED <<disk, full>>
                          /\ job' = [job EXCEPT !.new = c, !.pc = pc]
    \/ DiskFull /\ Done /\ NoWrite /\ full' = TRUE /\ UNCHANGED faults
    \/ ~DiskFull /\ Done /\ NoWrite /\ Fault("write") /\ UNCHANGED full
----------------------------------------------------------------------------
(* Directory searches: fat32_resolve_path and the loops over a directory.  *)

\* The kinds of entries the search is for: directories on the way to the
\* last name, then what the operation works on.
Wanted == IF Len(job.path) > 1 \/ job.op = "cd" THEN {"dir"}
          ELSE IF job.op = "rename" THEN {"file", "dir"} ELSE {"file"}

\* The first slot of cluster c that satisfies the search, before the end mark.
BeforeEnd(c, i) == \A h \in 1 .. i : disk[c][h].k # "end"
Hits(c) == {i \in 1 .. SLOTS : /\ BeforeEnd(c, i)
                               /\ disk[c][i].k \in Wanted /\ disk[c][i].name = Head(job.path)}
FirstHit(c, i) == i \in Hits(c) /\ \A h \in Hits(c) : i <= h

\* lfn_track: the slots that run up to entry i, in cluster c and before it.
LfnRun(c, i)   == {h \in 1 .. i - 1 : \A g \in h .. i - 1 : disk[c][g].k = "lfn"}
LfnBefore(c, i) ==
    IF LfnRun(c, i) = 1 .. i - 1 /\ job.prev \in Cluster THEN LfnRun(job.prev, SLOTS + 1) ELSE {}

\* The walk stops at the end of the chain, at an end mark, when the cluster
\* cannot be read, and when it is longer than any chain can be.
TooLong == job.steps >= max_chain_length
WalkEnds ==
    \/ ~OnChain(job.cl) \/ job.cl \notin Cluster \/ TooLong
    \/ /\ job.cl \in Cluster /\ Hits(job.cl) = {}
       /\ \E i \in 1 .. SLOTS : disk[job.cl][i].k = "end"

Target(e) == IF e.first = 0 THEN root_cluster ELSE e.first

\* The search found entry i of the cluster at hand.
Found(i) ==
    LET e == disk[job.cl][i]
        at == [job EXCEPT !.idx = i, !.lfn = LfnBefore(job.cl, i)]
    IN  \/ /\ Len(job.path) > 1
           /\ job' = [job EXCEPT !.path = Tail(@), !.dir = Target(e), !.cl = Target(e),
                                 !.steps = 0, !.prev = 0,
                                 !.pc = IF job.op = "mkdir" /\ Len(job.path) = 2
                                        THEN "alloc" ELSE "scan"]
           /\ UNCHANGED <<cwd_cluster, astray>>
        \/ /\ Len(job.path) = 1 /\ job.op = "cd"
           /\ cwd_cluster' = Target(e) /\ astray' = astray
           /\ Done
        \/ /\ Len(job.path) = 1 /\ job.op = "rename"
           /\ job' = [at EXCEPT !.pc = "mark",
                                !.entry = Entry(e.k, job.entry.name, e.first, e.size)]
           /\ astray' = (astray \/ e.name \in {".", ".."}) /\ UNCHANGED cwd_cluster
        \/ /\ Len(job.path) = 1 /\ job.op \in {"write", "delete"}
           /\ job' = [at EXCEPT !.pc = IF e.first >= 2 THEN "free" ELSE "mark",
                                !.new = e.first, !.steps = 0]
           /\ UNCHANGED <<cwd_cluster, astray>>
        \/ /\ Len(job.path) = 1 /\ job.op = "read"
           /\ job' = [at EXCEPT !.pc = "read", !.new = e.first, !.left = e.size, !.steps = 0,
                                !.lfn = {}]
           /\ UNCHANGED <<cwd_cluster, astray>>

\* What follows once the old entry is gone: the data of a file, then its entry.
ToCreate(j) == [j EXCEPT !.pc = "seek", !.cl = j.dir, !.steps = 0, !.prev = 0, !.idx = 0,
                         !.lfn = {}, !.new = 0, !.put = Entries(j.entry)]
AfterOld ==
    CASE job.op = "delete" -> NoJob
      [] job.op = "write" /\ job.left > 0 ->
            [job EXCEPT !.pc = "alloc", !.prev = 0, !.new = 0, !.idx = 0, !.lfn = {},
                        !.cl = 0, !.steps = 0]
      [] OTHER -> ToCreate(job)

NotFound ==
    /\ job' = IF Len(job.path) = 1 /\ job.op = "write" THEN AfterOld ELSE NoJob
    /\ UNCHANGED <<cwd_cluster, astray>>

\* The loops over a directory go on with the next cluster.
Onward_NoCount == [job EXCEPT !.prev = job.cl, !.cl = NextCluster(@)]
Onward == [job EXCEPT !.prev = job.cl, !.cl = NextCluster(@), !.steps = @ + 1]

\* One cluster of the search.  A read that fails ends it like the end mark.
Scan ==
    /\ job.pc = "scan" /\ NoWrite
    /\ \/ /\ ~WalkEnds /\ UNCHANGED faults
          /\ \E i \in 1 .. SLOTS : FirstHit(job.cl, i) /\ Found(i)
       \/ WalkEnds /\ UNCHANGED faults /\ NotFound
       \/ ~WalkEnds /\ Fault("read") /\ NotFound
       \/ /\ ~WalkEnds /\ Hits(job.cl) = {} /\ UNCHANGED faults
          /\ job' = Onward
          /\ UNCHANGED <<cwd_cluster, astray>>
----------------------------------------------------------------------------
(* The operations begin. *)

\* A relative path starts in the current directory, an absolute one in the root.
Start(op, path, entry, left) ==
    LET base == IF path.abs THEN root_cluster ELSE cwd_cluster
    IN  /\ job.op = "none" /\ ops + Faults < MAXEVENTS /\ ops' = ops + 1
        /\ job' = [NoJob EXCEPT !.op = op, !.path = path.names, !.dir = base, !.cl = base,
                                !.pc = IF op = "mkdir" /\ Len(path.names) = 1
                                       THEN "alloc" ELSE "scan",
                                !.entry = entry, !.left = left]
        /\ UNCHANGED <<fat, disk, cwd_cluster, faults, astray, full>>

Last(path)  == path.names[Len(path.names)]
PathsTo(N)  == {p \in Paths : Last(p) \in N}
NoEntry     == EndSlot

fat32_read_file == \E p \in PathsTo(FileNames) : Start("read", p, NoEntry, 0)

fat32_write_file ==
    \E p \in PathsTo(FileNames), n \in SIZES : Start("write", p, Entry("file", Last(p), 0, n), n)

fat32_delete_file == \E p \in PathsTo(FileNames) : Start("delete", p, NoEntry, 0)

\* A file is given the name of a file, a directory that of a directory.  Dot
\* and dot-dot are not refused: what they lead to gets a second entry.
fat32_rename_file ==
    \/ \E p \in PathsTo(FileNames), n \in FileNames : Start("rename", p, Entry("end", n, 0, 0), 0)
    \/ \E p \in PathsTo(DirNames \cup {".", ".."}), n \in DirNames :
           Start("rename", p, Entry("end", n, 0, 0), 0)

fat32_mkdir == \E p \in PathsTo(DirNames) : Start("mkdir", p, Entry("dir", Last(p), 0, 0), 0)

fat32_cd == \E p \in PathsTo(DirNames) : Start("cd", p, NoEntry, 0)

\* cd / and cd .. are over at once.  cd .. takes the second slot of the
\* current directory for its dot-dot entry, which the root has not.
cd_root ==
    /\ job.op = "none" /\ cwd_cluster # root_cluster /\ cwd_cluster' = root_cluster
    /\ UNCHANGED <<fat, disk, job, faults, astray, full, ops>>

cd_dotdot ==
    /\ job.op = "none" /\ cwd_cluster \in Cluster
    /\ cwd_cluster' = Target(disk[cwd_cluster][2])
    /\ astray' = (astray \/ (cwd_cluster = root_cluster /\ cwd_cluster' # root_cluster))
    /\ UNCHANGED <<fat, disk, job, faults, full, ops>>
----------------------------------------------------------------------------
(* The steps that follow the search. *)

\* One cluster of fat32_read_file.
Read ==
    /\ job.pc = "read" /\ NoWrite
    /\ \/ /\ job.left > 0 /\ job.new \in Cluster /\ ~TooLong /\ UNCHANGED faults
          /\ job' = [job EXCEPT !.new = NextCluster(@), !.left = @ - 1, !.steps = @ + 1]
       \/ /\ job.left = 0 \/ job.new \notin Cluster \/ TooLong
          /\ UNCHANGED faults /\ Done
       \/ Fault("read") /\ Done

FreeCluster_FirstOnly ==
    /\ job.pc = "free" /\ UNCHANGED disk
    /\ SetFat(job.new, FREE) /\ UNCHANGED faults /\ Go("mark")
\* One cluster of fat_free_chain, which reads the next one first and goes on
\* whether or not the entry could be written.
FreeCluster ==
    /\ job.pc = "free"
    /\ \/ /\ OnChain(job.new) /\ ~TooLong
          /\ \E ok \in BOOLEAN : WriteFat(job.new, FREE, ok)
          /\ job' = [job EXCEPT !.new = NextCluster(@), !.steps = @ + 1]
       \/ /\ OnChain(job.new) /\ ~TooLong
          /\ SetFat(job.new, FREE) /\ Fault("read") /\ UNCHANGED disk
          /\ job' = [job EXCEPT !.new = 0]
       \/ /\ ~OnChain(job.new) \/ TooLong
          /\ NoWrite /\ UNCHANGED faults /\ Go("mark")

\* A deleted slot keeps its cluster number; nothing reads its name or size.
Deleted(c, I) == [i \in 1 .. SLOTS |-> IF i \in I THEN Entry("del", "", disk[c][i].first, 0)
                                                    ELSE disk[c][i]]

\* The old entry and the slots of its long name in the same cluster.
MarkDeleted ==
    /\ job.pc = "mark"
    /\ \E ok \in BOOLEAN :
          WriteCluster(job.cl, Deleted(job.cl, {job.idx} \cup LfnRun(job.cl, job.idx)), ok)
    /\ job' = IF job.lfn = {} THEN AfterOld ELSE [job EXCEPT !.pc = "marklfn"]

\* The slots of its long name in the cluster before: skipped when kmalloc
\* fails or the cluster cannot be read.
MarkLfnDeleted ==
    /\ job.pc = "marklfn"
    /\ \/ \E ok \in BOOLEAN : WriteCluster(job.prev, Deleted(job.prev, job.lfn), ok)
       \/ NoWrite /\ (Fault("read") \/ Fault("memory"))
    /\ job' = AfterOld

\* The loop of fat32_write_file, a cluster at a time.
AllocData == job.pc = "alloc" /\ Alloc(IF job.op = "mkdir" THEN "dots" ELSE "link")

LinkData ==
    /\ job.pc = "link"
    /\ IF job.prev = 0
       THEN /\ NoWrite /\ UNCHANGED faults
            /\ job' = [job EXCEPT !.entry.first = job.new, !.pc = "data"]
       ELSE /\ \E ok \in BOOLEAN : WriteFat(job.prev, job.new, ok)
            /\ Go("data")

WriteData ==
    /\ job.pc = "data"
    /\ \/ /\ WriteCluster(job.new, FileData, TRUE)
          /\ job' = IF job.left = 1 THEN ToCreate([job EXCEPT !.left = 0])
                    ELSE [job EXCEPT !.left = @ - 1, !.prev = job.new, !.pc = "alloc"]
       \/ WriteCluster(job.new, FileData, FALSE) /\ Done

\* fat32_mkdir fills the new directory; when it cannot, it frees the cluster.
WriteDots ==
    LET dots == [i \in 1 .. SLOTS |->
                    CASE i = 1 -> Entry("dir", ".", job.new, 0)
                      [] i = 2 -> Entry("dir", "..", job.dir, 0)
                      [] OTHER -> EndSlot]
    IN  /\ job.pc = "dots"
        /\ \/ /\ WriteCluster(job.new, dots, TRUE)
              /\ job' = ToCreate([job EXCEPT !.entry.first = job.new])
           \/ WriteCluster(job.new, dots, FALSE) /\ Go("undo")

UndoMkdir ==
    /\ job.pc = "undo"
    /\ \E ok \in BOOLEAN : WriteFat(job.new, FREE, ok)
    /\ Done
----------------------------------------------------------------------------
(* dir_write_entries. *)

Room(c) == {i \in 1 .. SLOTS : disk[c][i].k = "end"}
FirstRoom(c, i) == i \in Room(c) /\ \A h \in Room(c) : i <= h

\* One cluster of the search for the first unused slot.
SeekRoom ==
    /\ job.pc = "seek" /\ NoWrite
    /\ \/ /\ job.cl \in Cluster /\ ~TooLong /\ UNCHANGED faults
          /\ \E i \in 1 .. SLOTS : /\ FirstRoom(job.cl, i)
                                  /\ job' = [job EXCEPT !.idx = i, !.pc = "put"]
       \/ /\ job.cl \in Cluster /\ ~TooLong /\ Room(job.cl) = {}
          /\ job' = Onward /\ UNCHANGED faults
       \/ /\ job.cl \in Cluster /\ ~TooLong /\ Fault("read")
          /\ Go("grow")
       \/ /\ job.cl \in Cluster /\ ~TooLong /\ Room(job.cl) = {} /\ Fault("read")
          /\ job' = [job EXCEPT !.prev = job.cl, !.pc = "grow"]
       \/ /\ job.cl \notin Cluster \/ TooLong
          /\ UNCHANGED faults /\ Go("grow")

\* The directory is full: a new cluster is zeroed and then linked.
Grow == job.pc = "grow" /\ Alloc("zero")

ZeroCluster_Skips == job.pc = "zero" /\ NoWrite /\ UNCHANGED faults /\ Go("hook")
ZeroCluster ==
    /\ job.pc = "zero"
    /\ \E ok \in BOOLEAN : WriteCluster(job.new, Zeroed, ok)
    /\ Go("hook")

HookCluster ==
    /\ job.pc = "hook"
    /\ IF job.prev = 0 THEN NoWrite /\ UNCHANGED faults
       ELSE \E ok \in BOOLEAN : WriteFat(job.prev, job.new, ok)
    /\ job' = [job EXCEPT !.cl = job.new, !.idx = 1, !.pc = "put"]

\* As many slots as the cluster takes are written at once.
Fits == IF Len(job.put) <= SLOTS - job.idx + 1 THEN Len(job.put) ELSE SLOTS - job.idx + 1
Filled(old) == [i \in 1 .. SLOTS |-> IF i \in job.idx .. job.idx + Fits - 1
                                     THEN job.put[i - job.idx + 1] ELSE old[i]]
Rest == SubSeq(job.put, Fits + 1, Len(job.put))

\* The cluster is read and written back, unless it is the one just zeroed.
PutEntries ==
    LET old == IF job.pc = "putnew" THEN Zeroed ELSE disk[job.cl]
    IN  /\ job.pc \in {"put", "putnew"}
        /\ \/ /\ WriteCluster(job.cl, Filled(old), TRUE)
              /\ job' = IF Rest = << >> THEN NoJob
                        ELSE [job EXCEPT !.put = Rest, !.pc = "next"]
           \/ WriteCluster(job.cl, Filled(old), FALSE) /\ Done
           \/ job.pc = "put" /\ NoWrite /\ Fault("read") /\ Done

\* The rest goes to the next cluster of the chain; a FAT entry that cannot be
\* read counts as the end of the chain.
NextDirCluster ==
    /\ job.pc = "next" /\ NoWrite
    /\ \/ /\ OnChain(NextCluster(job.cl)) /\ UNCHANGED faults
          /\ job' = [job EXCEPT !.cl = NextCluster(@), !.idx = 1, !.pc = "put"]
       \/ ~OnChain(NextCluster(job.cl)) /\ UNCHANGED faults /\ Go("extend")
       \/ OnChain(NextCluster(job.cl)) /\ Fault("read") /\ Go("extend")

\* Here the new cluster is linked first and zeroed afterwards.
Extend == job.pc = "extend" /\ Alloc("hookfirst")

HookFirst ==
    /\ job.pc = "hookfirst"
    /\ \E ok \in BOOLEAN : WriteFat(job.cl, job.new, ok)
    /\ Go("zerolast")

ZeroLast ==
    /\ job.pc = "zerolast"
    /\ \E ok \in BOOLEAN : WriteCluster(job.new, Zeroed, ok)
    /\ job' = [job EXCEPT !.cl = job.new, !.idx = 1, !.pc = "putnew"]
----------------------------------------------------------------------------
\* A kmalloc that fails ends the operation: the buffer of a search, of the
\* data, of a new directory or of the new entry.
OutOfMemory ==
    /\ \/ job.pc \in {"scan", "seek", "read"} /\ job.steps = 0
       \/ job.pc = "alloc" /\ job.op = "write" /\ job.prev = 0
       \/ job.pc = "dots"
    /\ Fault("memory") /\ Done /\ NoWrite

\* The power goes off; fat32_init starts again in the root directory.
Crash ==
    /\ job.op # "none" /\ Fault("crash") /\ Done
    /\ cwd_cluster' = root_cluster
    /\ UNCHANGED <<fat, disk, astray, full, ops>>

Begin ==
    \/ fat32_read_file \/ fat32_write_file \/ fat32_delete_file \/ fat32_rename_file
    \/ fat32_mkdir \/ fat32_cd \/ cd_root \/ cd_dotdot

Step ==
    \/ Scan /\ UNCHANGED <<full, ops>>
    \/ (AllocData \/ Grow \/ Extend) /\ UNCHANGED <<cwd_cluster, astray, ops>>
    \/ /\ \/ Read \/ FreeCluster \/ MarkDeleted \/ MarkLfnDeleted
          \/ LinkData \/ WriteData \/ WriteDots \/ UndoMkdir
          \/ SeekRoom \/ ZeroCluster \/ HookCluster
          \/ PutEntries \/ NextDirCluster \/ HookFirst \/ ZeroLast
          \/ OutOfMemory
       /\ UNCHANGED <<cwd_cluster, astray, full, ops>>

Next == Begin \/ Step \/ Crash

\* An operation under way runs on.
Fairness == WF_vars(Step)

Spec == Init /\ [][Next]_vars /\ Fairness
----------------------------------------------------------------------------
(* Properties. *)

NoFaults == Faults = 0

\* The clusters of the chain from c.
Chain(c) ==
    LET within[n \in 0 .. NCLUSTERS] ==
            IF n = 0 THEN {c} \cap Cluster
            ELSE LET near == within[n - 1] IN near \cup ({fat[x] : x \in near} \cap Cluster)
    IN  within[NCLUSTERS]

\* The places of the entries of the directory at c, dot and dot-dot apart.
EntriesIn(c) == {p \in Chain(c) \X (1 .. SLOTS) :
                    /\ disk[p[1]][p[2]].k \in {"file", "dir"}
                    /\ disk[p[1]][p[2]].name \notin {".", ".."}}
At(p) == disk[p[1]][p[2]]

\* The directories of the trees from some directories.
DirsFrom(roots) ==
    LET down[n \in 0 .. NCLUSTERS] ==
            IF n = 0 THEN roots
            ELSE LET above == down[n - 1]
                     subs  == {p \in UNION {EntriesIn(d) : d \in above} : At(p).k = "dir"}
                 IN  above \cup {At(p).first : p \in subs}
    IN  down[NCLUSTERS]

\* The directories with the one that the operation holds: while it is being
\* renamed no entry leads to it.
Moved == IF job.entry.k = "dir" /\ job.entry.first # 0 THEN {job.entry.first} ELSE {}
Kept  == DirsFrom({root_cluster} \cup Moved)

\* The entries of these trees.
Live == UNION {EntriesIn(d) : d \in Kept}

\* The entry that the operation is about to delete.
AtRisk == IF job.op \in {"write", "delete"} /\ job.pc \in {"free", "mark"}
          THEN {<<job.cl, job.idx>>} ELSE {}

\* The entry that is being renamed has no place on the disk between the writing
\* of its old slot and of its new one: only the operation knows it.
InHand     == <<0, 0>>
Renamed    == IF job.op = "rename" /\ job.pc \notin {"scan", "mark"} THEN {InHand} ELSE {}
EntryAt(p) == IF p = InHand THEN job.entry ELSE At(p)

Whole(c, n) == Cardinality(Chain(c)) = n /\ \E x \in Chain(c) : fat[x] = EOC

\* The cluster that extends a directory, linked and not yet zeroed.
Unzeroed == IF job.pc = "zerolast" THEN {job.new} ELSE {}

\* What a crash leaves is the state it strikes in.  Until then, in every
\* state of every operation, each file that is not being replaced or deleted
\* is whole: its chain has its length, ends, holds data, and shares no cluster
\* with another file or directory; each directory holds entries only, none
\* after the end mark.  Three things are excepted:
\*   - what is being renamed (Renamed) is as whole as the others, and a
\*     directory with all that is in it, but it is in the hands of the operation:
\*     when the power goes off then, no entry leads to it any more;
\*   - the cluster that extends a directory for an entry of several slots
\*     (Unzeroed) is linked before it is zeroed;
\*   - nothing is said once a dot entry has been renamed or cd .. in the root
\*     has led elsewhere (astray).
OnlyTargetAtRisk ==
    NoFaults /\ ~astray =>
        LET safe  == (Live \ AtRisk) \cup Renamed
            heads == {<<root_cluster, 0>>} \cup {p \in safe : EntryAt(p).first # 0}
            first(p) == IF p = <<root_cluster, 0>> THEN root_cluster ELSE EntryAt(p).first
        IN  /\ \A p, q \in heads : p # q => Chain(first(p)) \cap Chain(first(q)) = {}
            /\ \A p \in safe : EntryAt(p).k = "file" =>
                  IF EntryAt(p).first = 0 THEN EntryAt(p).size = 0
                  ELSE /\ Whole(EntryAt(p).first, EntryAt(p).size)
                       /\ \A x \in Chain(EntryAt(p).first) : disk[x] = FileData
            /\ \A d \in Kept : /\ \E x \in Chain(d) : fat[x] = EOC
                              /\ \A x \in Chain(d) \ Unzeroed, i \in 1 .. SLOTS :
                                    /\ disk[x][i].k # "data"
                                    /\ disk[x][i].k = "end" =>
                                          /\ fat[x] = EOC
                                          /\ \A h \in i .. SLOTS : disk[x][h].k = "end"

\* Clusters in use that no entry leads to and the operation does not hold.
Lost == {c \in Cluster : fat[c] # FREE}
           \ ((UNION {Chain(d) \cup UNION {Chain(At(p).first) : p \in EntriesIn(d)} : d \in Kept})
                \cup Chain(job.new) \cup Chain(job.entry.first))

\* Space is lost only by an operation that finds the disk full: before that,
\* each cluster in use is reached from the root or by the operation at work.
LostOnlyWhenFull == NoFaults /\ ~astray /\ ~full => Lost = {}

\* Every operation ends, after any fault and on any disk: each loop over
\* a chain gives up after max_chain_length clusters.
OpsEnd == job.op # "none" ~> job.op = "none"
=============================================================================
