-------------------------------- MODULE Pipes -------------------------------
(***************************************************************************)
(* File descriptors, anonymous pipes and write buffers: kernel/pipe.c,     *)
(* kernel/wbuf.c, the fd calls of kernel/syscall.c and the fd handling of  *)
(* fork, exit and the reaper in kernel/process.c.                          *)
(*                                                                         *)
(* A system call runs with interrupts off up to the point where it blocks, *)
(* so each turn of a read or write loop is one action.  Which ready        *)
(* process runs next is left open (module Process models the scheduler).   *)
(***************************************************************************)
EXTENDS Integers, Sequences, FiniteSets

CONSTANTS
  Procs,          \* the processes that may ever exist
  PipeIds,        \* addresses kmalloc may return for a pipe_t
  WbufIds,        \* addresses kmalloc may return for a wbuf_t
  Bytes,          \* the characters programs write
  NULL,           \* the null pointer
  MAX_FDS,        \* slots of a descriptor table
  PIPE_BUF_SIZE,  \* size of a pipe's ring, one slot of which stays free
  WBUF_CAP,       \* size of a write buffer
  MaxWrite        \* bound on the bytes of one write

ASSUME PipesAssumption ==
  /\ MAX_FDS \in Nat /\ MAX_FDS >= 2
  /\ PIPE_BUF_SIZE \in Nat /\ PIPE_BUF_SIZE >= 2
  /\ WBUF_CAP \in Nat /\ MaxWrite \in Nat \ {0}
  /\ NULL \notin Procs /\ NULL \notin PipeIds /\ NULL \notin WbufIds
  /\ IsFiniteSet(Procs)

Fds   == 0..(MAX_FDS - 1)
Ring  == 0..(PIPE_BUF_SIZE - 1)
Chars == Bytes \cup {0}          \* pipe_create clears the ring

VARIABLES
  pstate,     \* "unborn", "ready", "asleep" on a pipe, "dead" or "gone"
  call,       \* the pipe call that the process is in the middle of
  fds,        \* process_t.fds: the kind of each slot and its object
  allocated,  \* the pipes that exist
  pipe,       \* the pipe_t at each address
  refcount,   \* wbuf_t.refcount; 0: no such buffer
  len,        \* wbuf_t.len
  delivered   \* history: the bytes a read has just copied to its caller

vars == <<pstate, call, fds, allocated, pipe, refcount, len, delivered>>

Closed == [kind |-> "NONE", obj |-> NULL]
Plain  == [kind |-> "PLAIN", obj |-> NULL]   \* the terminal, or a file being read
NoCall == [op |-> "none", pipe |-> NULL, data |-> <<>>]

\* What pipe_create makes; ends is 1, or 0 where there is no pipe yet.
FreshPipe(ends) ==
  [buf |-> [i \in Ring |-> 0], head |-> 0, tail |-> 0, read_open |-> ends,
   write_open |-> ends, blocked_reader |-> NULL, blocked_writer |-> NULL]

\* fd_init_std
StdFds == [f \in Fds |-> IF f \in 0..2 THEN Plain ELSE Closed]

Init ==
  /\ \E p \in Procs : pstate = [q \in Procs |-> IF q = p THEN "ready" ELSE "unborn"]
  /\ call = [p \in Procs |-> NoCall]
  /\ fds = [p \in Procs |-> StdFds]
  /\ allocated = {}
  /\ pipe = [P \in PipeIds |-> FreshPipe(0)]
  /\ refcount = [w \in WbufIds |-> 0]
  /\ len = [w \in WbufIds |-> 0]
  /\ delivered = <<>>

NothingRead == delivered' = <<>>

-----------------------------------------------------------------------------
(* Descriptor tables *)

\* The slots of table t that hold one end of P, or the write buffer P.
Ends(t, kind, P) == {f \in Fds : t[f].kind = kind /\ t[f].obj = P}

\* A process that can make a system call.
InUserMode(p) == pstate[p] = "ready" /\ call[p] = NoCall

\* scheduler_wake of the processes in W, those that sleep.
Woken(W) == [p \in Procs |-> IF p \in W /\ pstate[p] = "asleep" THEN "ready" ELSE pstate[p]]

\* The pipes of which the slots F of table t hold a read or a write end.
Holding(t, F, kind) == {P \in PipeIds : Ends(t, kind, P) \cap F # {}}

\* Closing the slots F of table t wakes the process that is registered on the
\* other end of each pipe.
Peers_NoWriters(t, F) == {pipe[P].blocked_reader : P \in Holding(t, F, "PIPE_WRITE")}

Peers(t, F) ==
  {pipe[P].blocked_writer : P \in Holding(t, F, "PIPE_READ")}
    \cup {pipe[P].blocked_reader : P \in Holding(t, F, "PIPE_WRITE")}

\* pipe_close_read and pipe_close_write for the slots F of table t, on the
\* pipes pp; the woken peers are struck out.
EndsClosed(pp, t, F) ==
  [P \in PipeIds |->
    [pp[P] EXCEPT
       !.read_open  = @ - Cardinality(Ends(t, "PIPE_READ", P) \cap F),
       !.write_open = @ - Cardinality(Ends(t, "PIPE_WRITE", P) \cap F),
       !.blocked_writer = IF P \in Holding(t, F, "PIPE_READ") THEN NULL ELSE @,
       !.blocked_reader = IF P \in Holding(t, F, "PIPE_WRITE") THEN NULL ELSE @]]

\* The pipes that this leaves without any end: pipe_destroy frees them.
Orphaned_NoReader(pp, t, F) ==
  {P \in Holding(t, F, "PIPE_READ") \cup Holding(t, F, "PIPE_WRITE") :
     EndsClosed(pp, t, F)[P].read_open <= 0}

Orphaned(pp, t, F) ==
  {P \in Holding(t, F, "PIPE_READ") \cup Holding(t, F, "PIPE_WRITE") :
     EndsClosed(pp, t, F)[P].read_open <= 0 /\ EndsClosed(pp, t, F)[P].write_open <= 0}

PipesClosed(pp, t, F) ==
  [P \in PipeIds |-> IF P \in Orphaned(pp, t, F) THEN FreshPipe(0)
                     ELSE EndsClosed(pp, t, F)[P]]

\* wbuf_unref for the slots F of table t, on the reference counts rc: the last
\* reference writes the buffer to disk and frees it.
WbufsClosed(rc, t, F) ==
  [w \in WbufIds |-> rc[w] - Cardinality(Ends(t, "WFILE", w) \cap F)]

\* The slots F of table t are new references.
PipesShared_OncePerPipe(pp, t, F) ==
  [P \in PipeIds |->
    [pp[P] EXCEPT !.read_open  = IF P \in Holding(t, F, "PIPE_READ") THEN @ + 1 ELSE @,
                  !.write_open = IF P \in Holding(t, F, "PIPE_WRITE") THEN @ + 1 ELSE @]]

PipesShared(pp, t, F) ==
  [P \in PipeIds |->
    [pp[P] EXCEPT
       !.read_open  = @ + Cardinality(Ends(t, "PIPE_READ", P) \cap F),
       !.write_open = @ + Cardinality(Ends(t, "PIPE_WRITE", P) \cap F)]]

WbufsShared(rc, t, F) ==
  [w \in WbufIds |-> rc[w] + Cardinality(Ends(t, "WFILE", w) \cap F)]

-----------------------------------------------------------------------------
(* Opening, closing and duplicating *)

FreeSlots(p) == {f \in Fds : fds[p][f].kind = "NONE"}
Lowest(S)    == CHOOSE f \in S : \A g \in S : f <= g

\* sys_pipe: needs two free slots and a pipe_t.
sys_pipe(p) ==
  LET rfd == Lowest(FreeSlots(p))
      wfd == Lowest(FreeSlots(p) \ {rfd})
  IN /\ InUserMode(p) /\ Cardinality(FreeSlots(p)) >= 2
     /\ \E P \in PipeIds \ allocated :
          /\ allocated' = allocated \cup {P}
          /\ pipe' = [pipe EXCEPT ![P] = FreshPipe(1)]
          /\ fds' = [fds EXCEPT ![p][rfd] = [kind |-> "PIPE_READ", obj |-> P],
                                ![p][wfd] = [kind |-> "PIPE_WRITE", obj |-> P]]
     /\ NothingRead /\ UNCHANGED <<pstate, call, refcount, len>>

\* sys_open: with O_WRITE it makes a write buffer; otherwise the slot holds a
\* position of its own, shared with nobody.
sys_open(p) ==
  /\ InUserMode(p) /\ FreeSlots(p) # {}
  /\ \/ \E w \in {w \in WbufIds : refcount[w] = 0} :
          /\ refcount' = [refcount EXCEPT ![w] = 1]
          /\ len' = [len EXCEPT ![w] = 0]
          /\ fds' = [fds EXCEPT ![p][Lowest(FreeSlots(p))] = [kind |-> "WFILE", obj |-> w]]
     \/ /\ fds' = [fds EXCEPT ![p][Lowest(FreeSlots(p))] = Plain]
        /\ UNCHANGED <<refcount, len>>
  /\ NothingRead /\ UNCHANGED <<pstate, call, allocated, pipe>>

\* Closing the slots F of p, as sys_close does for one and process_exit and
\* process_destroy do for all of them.
CloseSlots(p, F) ==
  /\ pipe' = PipesClosed(pipe, fds[p], F)
  /\ allocated' = allocated \ Orphaned(pipe, fds[p], F)
  /\ refcount' = WbufsClosed(refcount, fds[p], F)
  /\ len' = [w \in WbufIds |-> IF refcount'[w] = 0 THEN 0 ELSE len[w]]
  /\ fds' = [fds EXCEPT ![p] = [f \in Fds |-> IF f \in F THEN Closed ELSE @[f]]]
  /\ NothingRead /\ UNCHANGED call

sys_close(p, f) ==
  /\ InUserMode(p)
  /\ CloseSlots(p, {f})
  /\ pstate' = Woken(Peers(fds[p], {f}))

\* sys_dup2: closes newfd, then makes it a second reference to what oldfd is.
sys_dup2(p, oldfd, newfd) ==
  LET t == [fds[p] EXCEPT ![newfd] = fds[p][oldfd]]
      rc == WbufsClosed(refcount, fds[p], {newfd})
  IN /\ InUserMode(p) /\ oldfd # newfd /\ fds[p][oldfd].kind # "NONE"
     /\ pipe' = PipesShared(PipesClosed(pipe, fds[p], {newfd}), t, {newfd})
     /\ allocated' = allocated \ Orphaned(pipe, fds[p], {newfd})
     /\ refcount' = WbufsShared(rc, t, {newfd})
     /\ len' = [w \in WbufIds |-> IF rc[w] = 0 THEN 0 ELSE len[w]]
     /\ fds' = [fds EXCEPT ![p] = t]
     /\ pstate' = Woken(Peers(fds[p], {newfd}))
     /\ NothingRead /\ UNCHANGED call

-----------------------------------------------------------------------------
(* The life of a process, as far as its descriptors are concerned *)

\* process_fork: the child shares everything the parent has open.
sys_fork(p, child) ==
  /\ InUserMode(p) /\ pstate[child] = "unborn"
  /\ pstate' = [pstate EXCEPT ![child] = "ready"]
  /\ fds' = [fds EXCEPT ![child] = fds[p]]
  /\ pipe' = PipesShared(pipe, fds[p], Fds)
  /\ refcount' = WbufsShared(refcount, fds[p], Fds)
  /\ NothingRead /\ UNCHANGED <<call, allocated, len>>

\* process_fork runs out of memory copying the pages: process_destroy of the
\* child closes the shared slots again, and wakes whoever sleeps on them.
ForkFails(p) ==
  /\ InUserMode(p)
  /\ pipe' = PipesClosed(PipesShared(pipe, fds[p], Fds), fds[p], Fds)
  /\ pstate' = Woken(Peers(fds[p], Fds))
  /\ NothingRead /\ UNCHANGED <<call, fds, allocated, refcount, len>>

\* process_exit closes everything; the reaper has nothing left to close.
Exit(p) ==
  /\ InUserMode(p)
  /\ CloseSlots(p, Fds)
  /\ pstate' = [Woken(Peers(fds[p], Fds)) EXCEPT ![p] = "gone"]

\* A process that is ready can be killed, even in the middle of a call from
\* which it was woken; its slots stay open until the reaper destroys it.  (A
\* kill of the process that has the CPU takes effect when it loses the CPU.)
Kill(p) ==
  /\ pstate[p] = "ready"
  /\ pstate' = [pstate EXCEPT ![p] = "dead"]
  /\ call' = [call EXCEPT ![p] = NoCall]
  /\ NothingRead /\ UNCHANGED <<fds, allocated, pipe, refcount, len>>

Reap(p) ==
  /\ pstate[p] = "dead"
  /\ CloseSlots(p, Fds)
  /\ pstate' = [Woken(Peers(fds[p], Fds)) EXCEPT ![p] = "gone"]

-----------------------------------------------------------------------------
(* Reading and writing *)

Min2(a, b) == IF a <= b THEN a ELSE b

Used(pp)  == (pp.head - pp.tail + PIPE_BUF_SIZE) % PIPE_BUF_SIZE
Space_NoSpareSlot(pp) == PIPE_BUF_SIZE - Used(pp)
Space(pp) == PIPE_BUF_SIZE - 1 - Used(pp)

\* The first n bytes of data go into the ring at head.
Stored(pp, data, n) ==
  [pp EXCEPT
     !.head = (@ + n) % PIPE_BUF_SIZE,
     !.buf  = [i \in Ring |->
                 LET k == (i - pp.head + PIPE_BUF_SIZE) % PIPE_BUF_SIZE
                 IN IF k < n THEN data[k + 1] ELSE @[i]]]

\* The first n bytes from tail on.
Taken(pp, n) == [i \in 1..n |-> pp.buf[(pp.tail + i - 1) % PIPE_BUF_SIZE]]

\* pipe_write_fd from its loop on: what fits goes in and wakes the reader; the
\* rest is given up if nobody can read it, and waited for otherwise.
WriteTurn(p, P, data) ==
  LET n    == Min2(Space(pipe[P]), Len(data))
      rest == SubSeq(data, n + 1, Len(data))
      W    == IF n > 0 THEN {pipe[P].blocked_reader} ELSE {}
      pp   == [Stored(pipe[P], data, n) EXCEPT
                 !.blocked_reader = IF n > 0 THEN NULL ELSE @]
  IN /\ IF rest = <<>> \/ pp.read_open = 0
        THEN /\ pipe' = [pipe EXCEPT ![P] = pp]
             /\ call' = [call EXCEPT ![p] = NoCall]
             /\ pstate' = Woken(W)
        ELSE /\ pipe' = [pipe EXCEPT ![P] = [pp EXCEPT !.blocked_writer = p]]
             /\ call' = [call EXCEPT ![p] = [op |-> "write", pipe |-> P, data |-> rest]]
             /\ pstate' = [Woken(W) EXCEPT ![p] = "asleep"]
     /\ NothingRead /\ UNCHANGED <<fds, allocated, refcount, len>>

\* pipe_read_fd: takes up to n bytes and wakes the writer; end of file if
\* nobody can write; waits otherwise.
ReadTurn(p, P, n) ==
  LET pp  == pipe[P]
      got == Min2(Used(pp), n)
  IN /\ IF got > 0
        THEN /\ pipe' = [pipe EXCEPT ![P].tail = (@ + got) % PIPE_BUF_SIZE,
                                     ![P].blocked_writer = NULL]
             /\ call' = [call EXCEPT ![p] = NoCall]
             /\ pstate' = Woken({pp.blocked_writer})
             /\ delivered' = Taken(pp, got)
        ELSE IF pp.write_open = 0
        THEN /\ call' = [call EXCEPT ![p] = NoCall]
             /\ NothingRead /\ UNCHANGED <<pipe, pstate>>
        ELSE /\ pipe' = [pipe EXCEPT ![P].blocked_reader = p]
             /\ call' = [call EXCEPT ![p] = [op |-> "read", pipe |-> P, data |-> <<>>]]
             /\ pstate' = [pstate EXCEPT ![p] = "asleep"]
             /\ NothingRead
     /\ UNCHANGED <<fds, allocated, refcount, len>>

\* The length of a write buffer of length l after n more bytes: wbuf_write
\* drops what does not fit.
wbuf_write_NoLimit(l, n) == l + n
wbuf_write(l, n) == Min2(l + n, WBUF_CAP)

\* do_fd_write.  What goes to the terminal changes nothing here.
sys_write_fd(p, f) ==
  LET d == fds[p][f]
  IN /\ InUserMode(p)
     /\ \/ /\ d.kind = "PIPE_WRITE" /\ pipe[d.obj].read_open # 0
           /\ \E n \in 1..MaxWrite : \E data \in [1..n -> Bytes] : WriteTurn(p, d.obj, data)
        \/ /\ d.kind = "WFILE"
           /\ \E n \in 1..MaxWrite : len' = [len EXCEPT ![d.obj] = wbuf_write(@, n)]
           /\ NothingRead /\ UNCHANGED <<pstate, call, fds, allocated, pipe, refcount>>

\* do_fd_read of a pipe.
sys_read_fd(p, f) ==
  LET d == fds[p][f]
  IN /\ InUserMode(p) /\ d.kind = "PIPE_READ"
     /\ \E n \in 1..(PIPE_BUF_SIZE - 1) : ReadTurn(p, d.obj, n)

\* A woken process goes round the loop of its call again.
ResumeWrite(p) ==
  /\ pstate[p] = "ready" /\ call[p].op = "write"
  /\ WriteTurn(p, call[p].pipe, call[p].data)

ResumeRead(p) ==
  /\ pstate[p] = "ready" /\ call[p].op = "read"
  /\ \E n \in 1..(PIPE_BUF_SIZE - 1) : ReadTurn(p, call[p].pipe, n)

-----------------------------------------------------------------------------
ProcessNext(p) ==
  \/ sys_pipe(p) \/ sys_open(p)
  \/ \E f \in Fds : sys_close(p, f) \/ sys_write_fd(p, f) \/ sys_read_fd(p, f)
  \/ \E f, g \in Fds : sys_dup2(p, f, g)
  \/ \E child \in Procs : sys_fork(p, child)
  \/ ForkFails(p) \/ Exit(p) \/ Kill(p) \/ Reap(p)
  \/ ResumeWrite(p) \/ ResumeRead(p)

Next == \E p \in Procs : ProcessNext(p)

Spec == Init /\ [][Next]_vars

-----------------------------------------------------------------------------
(* Properties *)

Desc  == [kind : {"NONE", "PLAIN"}, obj : {NULL}]
           \cup [kind : {"WFILE"}, obj : WbufIds]
           \cup [kind : {"PIPE_READ", "PIPE_WRITE"}, obj : PipeIds]
Pipe  == [buf : [Ring -> Chars], head : Ring, tail : Ring, read_open : Nat,
          write_open : Nat, blocked_reader : Procs \cup {NULL},
          blocked_writer : Procs \cup {NULL}]
Call  == [op : {"none"}, pipe : {NULL}, data : {<<>>}]
           \cup [op : {"read"}, pipe : PipeIds, data : {<<>>}]
           \cup [op : {"write"}, pipe : PipeIds, data : Seq(Bytes)]

\* Every variable holds a value of the kind its C declaration allows; no
\* reference count and no ring index goes out of range.
TypeOK ==
  /\ pstate \in [Procs -> {"unborn", "ready", "asleep", "dead", "gone"}]
  /\ call \in [Procs -> Call]
  /\ fds \in [Procs -> [Fds -> Desc]]
  /\ allocated \subseteq PipeIds
  /\ pipe \in [PipeIds -> Pipe]
  /\ refcount \in [WbufIds -> Nat]
  /\ len \in [WbufIds -> 0..WBUF_CAP]
  /\ delivered \in Seq(Bytes)

\* The descriptor slots, over all processes that have a table, that are open
\* on one end of P (or on the write buffer P).
Refs(kind, P) ==
  {r \in Procs \X Fds : /\ pstate[r[1]] \notin {"unborn", "gone"}
                        /\ fds[r[1]][r[2]].kind = kind /\ fds[r[1]][r[2]].obj = P}

\* The counts that decide over end of file, broken pipe, flushing and freeing
\* are exactly the numbers of open descriptors, whatever mix of fork, dup2,
\* close, exit, kill and failed fork came before.
RefcountsExact ==
  /\ \A P \in PipeIds : /\ pipe[P].read_open = Cardinality(Refs("PIPE_READ", P))
                        /\ pipe[P].write_open = Cardinality(Refs("PIPE_WRITE", P))
  /\ \A w \in WbufIds : refcount[w] = Cardinality(Refs("WFILE", w))

\* No descriptor and no call in progress refers to a freed pipe, and a pipe
\* that nobody can reach any more has been freed.
PipesAllocatedWhileUsed ==
  /\ \A P \in PipeIds : P \in allocated <=> Refs("PIPE_READ", P) \cup Refs("PIPE_WRITE", P) # {}
  /\ \A p \in Procs : call[p].op # "none" => call[p].pipe \in allocated

\* A process registered on a pipe end is asleep in a call on that end, holds a
\* descriptor of it, and has reason to sleep: the pipe is empty (full) and its
\* other end is open.
RegisteredHaveReason ==
  \A P \in PipeIds :
    /\ LET r == pipe[P].blocked_reader
       IN r # NULL => /\ pstate[r] = "asleep" /\ call[r].op = "read" /\ call[r].pipe = P
                      /\ Ends(fds[r], "PIPE_READ", P) # {}
                      /\ Used(pipe[P]) = 0 /\ pipe[P].write_open > 0
    /\ LET w == pipe[P].blocked_writer
       IN w # NULL => /\ pstate[w] = "asleep" /\ call[w].op = "write" /\ call[w].pipe = P
                      /\ Ends(fds[w], "PIPE_WRITE", P) # {}
                      /\ Space(pipe[P]) = 0 /\ pipe[P].read_open > 0

\* Whoever wakes the sleepers of a pipe can find p.
Registered(p) == \E P \in PipeIds : p \in {pipe[P].blocked_reader, pipe[P].blocked_writer}

\* In this step another process registers itself where p was registered: there
\* is one place for a reader and one for a writer, and neither call looks
\* whether it is taken.
Displaced(p) ==
  \E P \in PipeIds : \E q \in Procs \ {p} :
    \/ pipe[P].blocked_reader = p /\ pipe'[P].blocked_reader = q
    \/ pipe[P].blocked_writer = p /\ pipe'[P].blocked_writer = q

\* In this step nobody falls asleep without registering, and nobody who is
\* registered stays asleep without a place.
SleepersKept ==
  \A p \in Procs :
    /\ pstate'[p] = "asleep"
    /\ pstate[p] = "asleep" => Registered(p)
    => Registered(p)' \/ Displaced(p)

\* No lost wakeup of a registered sleeper: a registered process has reason to
\* sleep, a process that falls asleep is registered, and no step takes a
\* registration away and leaves the process asleep.  The comment on
\* fd_close_pipes promises this of every blocked process; the exception that
\* the code makes is the sleeper displaced by a second reader or writer of the
\* same pipe, which nobody can wake any more.
SleepersJustified ==
  []RegisteredHaveReason /\ [][SleepersKept]_vars

\* The bytes in flight, from tail to head.
Contents(P) == Taken(pipe[P], Used(pipe[P]))

\* The ring with its blocking readers and writers implements a bounded queue
\* of bytes: what the reads return is what the writes put in, nothing lost,
\* duplicated, reordered or invented, until the last end is closed.
Fifo == INSTANCE PipeFifo WITH queue <- [P \in PipeIds |-> Contents(P)],
                               open <- allocated,
                               Capacity <- PIPE_BUF_SIZE - 1
RefinesFifo == Fifo!Spec
=============================================================================
