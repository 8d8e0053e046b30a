------------------------------ MODULE Process -------------------------------
(***************************************************************************)
(* The process life cycle of GordOS: kernel/process.c, kernel/scheduler.c, *)
(* the process calls of kernel/syscall.c, the launch and kill commands of  *)
(* kernel/shell.c and the routing of key presses in drivers/keyboard.c.    *)
(*                                                                         *)
(* One CPU.  A system call or an interrupt handler runs with interrupts    *)
(* off, so it is one action, up to the scheduler_switch that takes the CPU *)
(* away from it.  A process that was switched out in the middle of a       *)
(* system call finishes that call with interrupts still off when it is     *)
(* switched in again: pc[p] says where it stands.                          *)
(***************************************************************************)
EXTENDS ReadyQueue, FiniteSets

CONSTANTS
  MaxPid,       \* bound on next_pid (a uint32 in the code)
  MaxRecords,   \* MAX_EXIT_RECORDS
  TIMESLICE,    \* PIT ticks per time slice
  KbdCapacity,  \* KBD_BUFFER_SIZE - 1, what the keyboard ring can hold
  Codes         \* the values programs pass to exit()

ASSUME BoundsAssumption ==
  /\ MaxPid \in Nat \ {0}
  /\ MaxRecords \in Nat \ {0}
  /\ TIMESLICE \in Nat \ {0}
  /\ KbdCapacity \in Nat \ {0}

ASSUME CodesAssumption == Codes \subseteq Int /\ 0 \in Codes

KernelTask == 0                  \* the pid of kernel_task
Nobody     == -1                 \* a null foreground_process
FaultCode  == -1                 \* exit code of a process killed by a fault
Pids       == 0..MaxPid
UserPids   == 1..MaxPid
Slots      == 1..MaxRecords      \* indices of exit_records
NoRecord   == [pid |-> 0, parent_pid |-> 0, code |-> 0]   \* valid == 0

VARIABLES
  state,              \* process_t.state, and UNUSED / FREED around its life
  parent_pid,         \* process_t.parent_pid
  exit_code,          \* process_t.exit_code
  block_reason,       \* process_t.block_reason
  wait_target,        \* process_t.wait_target
  pc,                 \* "run", or the blocking call p is in the middle of
  ready_queue,        \* the ring, from *ready_queue on
  blocked_list,       \* processes linked on blocked_list
  zombie_list,        \* processes linked on zombie_list
  reaping,            \* process_reap's local list
  current_process,
  foreground_process,
  exit_records,
  next_pid,
  tick_count,
  kbd,                \* number of characters in the keyboard ring
  fate                \* history: what became of p's exit (see TypeOK)

procVars  == <<state, parent_pid, exit_code, block_reason, wait_target, pc>>
listVars  == <<ready_queue, blocked_list, zombie_list, current_process>>
exitVars  == <<exit_records, fate>>
otherVars == <<reaping, foreground_process, next_pid, tick_count, kbd>>
vars      == <<procVars, listVars, exitVars, otherVars>>

-----------------------------------------------------------------------------
(* The machine at boot *)

\* shell_launch_ush runs before interrupts are enabled: USH.ELF is missing,
\* is no valid program (its process is created and destroyed), or becomes
\* process 1 with the keyboard.
BootOutcomes == {"missing", "invalid", "started"}

Init ==
  \E ush \in BootOutcomes :
    /\ state = [p \in Pids |-> IF p = KernelTask THEN "RUNNING"
                               ELSE IF p # 1 \/ ush = "missing" THEN "UNUSED"
                               ELSE IF ush = "invalid" THEN "FREED" ELSE "READY"]
    /\ parent_pid   = [p \in Pids |-> 0]
    /\ exit_code    = [p \in Pids |-> 0]
    /\ block_reason = [p \in Pids |-> "NONE"]
    /\ wait_target  = [p \in Pids |-> 0]
    /\ pc           = [p \in Pids |-> "run"]
    /\ ready_queue  = IF ush = "started" THEN <<KernelTask, 1>> ELSE <<KernelTask>>
    /\ blocked_list = {} /\ zombie_list = {} /\ reaping = {}
    /\ current_process = KernelTask
    /\ foreground_process = IF ush = "started" THEN 1 ELSE Nobody
    /\ exit_records = [i \in Slots |-> NoRecord]
    /\ next_pid = IF ush = "missing" THEN 1 ELSE 2
    /\ tick_count = 0
    /\ kbd = 0
    /\ fate = [p \in Pids |-> "live"]

-----------------------------------------------------------------------------
(* Helpers of scheduler.c and process.c *)

\* What scheduler_find and scheduler_find_any search.
Queued          == ToSet(ready_queue)
QueuedOrBlocked == Queued \cup blocked_list

\* The states in which scheduler_switch takes prev off the ready queue.
OffQueue_DeadOnly == {"DEAD"}
OffQueue == {"DEAD", "BLOCKED"}

\* scheduler_switch, from the ring q, the process states st and the blocked
\* list bl that the caller has left.
scheduler_switch(q, st, bl) ==
  LET prev == current_process
      next == RingNext(q)
  IN IF next = prev
     THEN /\ state' = st /\ ready_queue' = q /\ blocked_list' = bl
          /\ UNCHANGED <<current_process, zombie_list>>
     ELSE /\ current_process' = next
          /\ state' = [st EXCEPT ![next] = "RUNNING",
                                 ![prev] = IF @ \in OffQueue THEN @ ELSE "READY"]
          /\ ready_queue' = IF st[prev] \in OffQueue
                            THEN RingRemove(RingAdvance(q), prev)
                            ELSE RingAdvance(q)
          /\ blocked_list' = IF st[prev] = "BLOCKED" THEN bl \cup {prev} ELSE bl
          /\ zombie_list'  = IF st[prev] = "DEAD" THEN zombie_list \cup {prev}
                                                  ELSE zombie_list

\* scheduler_block, then scheduler_switch, in the middle of a blocking call.
BlockIn(call, reason, target) ==
  LET me == current_process
  IN /\ block_reason' = [block_reason EXCEPT ![me] = reason]
     /\ wait_target'  = [wait_target EXCEPT ![me] = target]
     /\ pc' = [pc EXCEPT ![me] = call]
     /\ scheduler_switch(ready_queue, [state EXCEPT ![me] = "BLOCKED"], blocked_list)

\* scheduler_wake, on each of the fields it writes.  W holds the process to
\* wake, or nothing.
WokenState(st, W) == [p \in Pids |-> IF p \in W THEN "READY" ELSE st[p]]
WokenReason(W)    == [p \in Pids |-> IF p \in W THEN "NONE" ELSE block_reason[p]]
WokenQueue(W)     == IF W = {} THEN ready_queue
                     ELSE RingAdd(ready_queue, CHOOSE w \in W : TRUE)

\* scheduler_wake_waiter: the parent of child, if it sleeps in a wait for it.
Waiters_ExactTarget(child) ==
  {p \in blocked_list : /\ block_reason[p] = "WAIT"
                        /\ p = parent_pid[child]
                        /\ wait_target[p] = child}

Waiters(child) ==
  {p \in blocked_list : /\ block_reason[p] = "WAIT"
                        /\ p = parent_pid[child]
                        /\ wait_target[p] \in {0, child}}

\* The slot record_exit writes: the first invalid one, or else slot 0.
RecordSlot ==
  LET free == {i \in Slots : exit_records[i] = NoRecord}
  IN IF free = {} THEN 1 ELSE Min(free)

record_exit_StaleCode(child, code) ==
  /\ exit_records' =
       [exit_records EXCEPT ![RecordSlot] =
          [pid |-> child, parent_pid |-> parent_pid[child], code |-> exit_code[child]]]
  /\ fate' = [p \in Pids |-> IF p = child THEN "recorded"
                             ELSE IF p # 0 /\ p = exit_records[RecordSlot].pid
                                  THEN "overwritten" ELSE fate[p]]

record_exit(child, code) ==
  /\ exit_records' =
       [exit_records EXCEPT ![RecordSlot] =
          [pid |-> child, parent_pid |-> parent_pid[child], code |-> code]]
  /\ fate' = [p \in Pids |-> IF p = child THEN "recorded"
                             ELSE IF p # 0 /\ p = exit_records[RecordSlot].pid
                                  THEN "overwritten" ELSE fate[p]]

\* The exit records process_reap_child accepts for a wait(target) by me.
Collectable_AnyParent(me, target) ==
  {i \in Slots : exit_records[i] # NoRecord /\ target \in {0, exit_records[i].pid}}

Collectable(me, target) ==
  {i \in Slots : /\ exit_records[i] # NoRecord
                 /\ exit_records[i].parent_pid = me
                 /\ target \in {0, exit_records[i].pid}}

\* scheduler_has_child, or the check of a given target in sys_wait.
HasChild(me, target) ==
  \E c \in QueuedOrBlocked : parent_pid[c] = me /\ target \in {0, c}

-----------------------------------------------------------------------------
(* Creation *)

\* The current process is a user process that executes int 0x80 or faults.
InUserMode == current_process # KernelTask /\ pc[current_process] = "run"

\* Interrupts are enabled: in ring 3, in sys_sleep and in the kernel task.
InterruptsOn == pc[current_process] = "run"

\* process_create and scheduler_add.  The parent is whoever is current.
Create(child) ==
  /\ next_pid <= MaxPid /\ child = next_pid
  /\ next_pid' = next_pid + 1
  /\ state' = [state EXCEPT ![child] = "READY"]
  /\ parent_pid' = [parent_pid EXCEPT ![child] = current_process]
  /\ ready_queue' = RingAdd(ready_queue, child)
  /\ UNCHANGED <<exit_code, block_reason, wait_target, pc, blocked_list, zombie_list,
                 current_process, exitVars, reaping, tick_count>>

\* fork() gives the child no keyboard.
sys_fork ==
  /\ InUserMode
  /\ Create(next_pid)
  /\ UNCHANGED <<foreground_process, kbd>>

\* start_program for `exec` (fg) and `bg`, typed at the kernel shell: it runs
\* inside the keyboard interrupt of whatever process is current.
start_program(fg) ==
  /\ InterruptsOn /\ foreground_process = Nobody
  /\ Create(next_pid)
  /\ foreground_process' = IF fg THEN next_pid ELSE foreground_process
  /\ kbd' = IF fg THEN 0 ELSE kbd

\* Either of them fails once process_create has numbered the process (no
\* memory for its pages, no valid program): process_destroy, the pid is gone.
CreateFails ==
  /\ InUserMode \/ (InterruptsOn /\ foreground_process = Nobody)
  /\ next_pid <= MaxPid
  /\ next_pid' = next_pid + 1
  /\ state' = [state EXCEPT ![next_pid] = "FREED"]
  /\ UNCHANGED <<parent_pid, exit_code, block_reason, wait_target, pc, listVars, exitVars,
                 reaping, foreground_process, tick_count, kbd>>

-----------------------------------------------------------------------------
(* Exit, wait and kill *)

\* Where the keyboard goes when p exits holding it.
FocusAfter_NoLookup(p) ==
  IF foreground_process # p THEN foreground_process
  ELSE IF parent_pid[p] # 0 THEN parent_pid[p] ELSE Nobody

FocusAfter(p) ==
  IF foreground_process # p THEN foreground_process
  ELSE IF parent_pid[p] # 0 /\ parent_pid[p] \in QueuedOrBlocked THEN parent_pid[p]
  ELSE Nobody

\* process_exit of the current process, with code in its exit_code.
process_exit(code) ==
  LET p == current_process
      W == IF parent_pid[p] = 0 THEN {} ELSE Waiters(p)
  IN /\ foreground_process' = FocusAfter(p)
     /\ exit_code' = [exit_code EXCEPT ![p] = code]
     /\ IF parent_pid[p] = 0
        THEN fate' = [fate EXCEPT ![p] = "unrecorded"] /\ UNCHANGED exit_records
        ELSE record_exit(p, code)
     /\ block_reason' = WokenReason(W)
     /\ scheduler_switch(WokenQueue(W), WokenState([state EXCEPT ![p] = "DEAD"], W),
                         blocked_list \ W)
     /\ UNCHANGED <<parent_pid, wait_target, pc, reaping, next_pid, tick_count, kbd>>

\* exit(code); a fault in ring 3; or process_exec running out of memory after
\* it has torn the old program down, which leaves exit_code as it was.
Exit ==
  /\ InUserMode
  /\ \E code \in Codes \cup {FaultCode, exit_code[current_process]} : process_exit(code)

\* One turn of the loop in sys_wait.
WaitTurn(target) ==
  LET me   == current_process
      hits == Collectable(me, target)
  IN \/ /\ hits # {}
        /\ exit_records' = [exit_records EXCEPT ![Min(hits)] = NoRecord]
        /\ fate' = [fate EXCEPT ![exit_records[Min(hits)].pid] = "collected"]
        /\ pc' = [pc EXCEPT ![me] = "run"]
        /\ UNCHANGED <<state, parent_pid, exit_code, block_reason, wait_target, listVars,
                       otherVars>>
     \/ /\ hits = {} /\ ~HasChild(me, target)       \* returns -1
        /\ pc' = [pc EXCEPT ![me] = "run"]
        /\ UNCHANGED <<state, parent_pid, exit_code, block_reason, wait_target, listVars,
                       exitVars, otherVars>>
     \/ /\ hits = {} /\ HasChild(me, target)
        /\ BlockIn("wait", "WAIT", target)
        /\ UNCHANGED <<parent_pid, exit_code, exitVars, otherVars>>

sys_wait   == InUserMode /\ \E target \in Pids : WaitTurn(target)
ResumeWait == pc[current_process] = "wait" /\ WaitTurn(wait_target[current_process])

\* scheduler_find knows only the ready queue: a sleeping process is not found.
Killable_Kernel(pid)  == pid \in Queued
Killable_Blocked(pid) == pid # 0 /\ pid \in QueuedOrBlocked
Killable(pid)         == pid # 0 /\ pid \in Queued

\* sys_kill_pid and the shell's cmd_kill; the current process is only marked.
Kill(pid) ==
  /\ Killable(pid)
  /\ foreground_process' = IF foreground_process = pid THEN Nobody ELSE foreground_process
  /\ state' = [state EXCEPT ![pid] = "DEAD"]
  /\ fate'  = [fate EXCEPT ![pid] = "killed"]
  /\ IF pid = current_process
     THEN UNCHANGED <<ready_queue, zombie_list>>
     ELSE /\ ready_queue' = RingRemove(ready_queue, pid)
          /\ zombie_list' = zombie_list \cup {pid}
  /\ UNCHANGED <<parent_pid, exit_code, block_reason, wait_target, pc, blocked_list,
                 current_process, exit_records, reaping, next_pid, tick_count, kbd>>

sys_kill_pid == InUserMode /\ \E pid \in Pids : Kill(pid)
cmd_kill     == InterruptsOn /\ foreground_process = Nobody /\ \E pid \in Pids : Kill(pid)

-----------------------------------------------------------------------------
(* The keyboard *)

sys_give_foreground ==
  /\ InUserMode
  /\ \E pid \in QueuedOrBlocked : foreground_process' = pid
  /\ UNCHANGED <<procVars, listVars, exitVars, reaping, next_pid, tick_count, kbd>>

\* One turn of the loop in tty_read and sys_readraw: takes what the caller
\* asked for, at most, or sleeps.
ReadTurn ==
  \/ /\ kbd > 0
     /\ \E n \in 1..kbd : kbd' = kbd - n
     /\ pc' = [pc EXCEPT ![current_process] = "run"]
     /\ UNCHANGED <<state, parent_pid, exit_code, block_reason, wait_target, listVars,
                    exitVars, reaping, foreground_process, next_pid, tick_count>>
  \/ /\ kbd = 0
     /\ BlockIn("read", "READ", 0)
     /\ UNCHANGED <<parent_pid, exit_code, exitVars, otherVars>>

sys_read   == InUserMode /\ ReadTurn
ResumeRead == pc[current_process] = "read" /\ ReadTurn

\* A full keyboard ring drops the character.
KbdStore_NoFullCheck == kbd + 1
KbdStore == IF kbd < KbdCapacity THEN kbd + 1 ELSE kbd

\* deliver_char with a foreground process.  (A process struct that has been
\* freed still reads as it did when it died.)
deliver_char ==
  LET fg == foreground_process
      W  == {p \in {fg} : state[p] = "BLOCKED" /\ block_reason[p] = "READ"}
  IN /\ InterruptsOn /\ fg # Nobody
     /\ kbd' = KbdStore
     /\ state' = WokenState(state, W)
     /\ block_reason' = WokenReason(W)
     /\ ready_queue'  = WokenQueue(W)
     /\ blocked_list' = blocked_list \ W
     /\ UNCHANGED <<parent_pid, exit_code, wait_target, pc, zombie_list, current_process,
                    exitVars, reaping, foreground_process, next_pid, tick_count>>

-----------------------------------------------------------------------------
(* The timer and the kernel task *)

scheduler_tick ==
  /\ InterruptsOn
  /\ IF tick_count + 1 >= TIMESLICE \/ state[current_process] = "DEAD"
     THEN /\ tick_count' = 0
          /\ scheduler_switch(ready_queue, state, blocked_list)
     ELSE /\ tick_count' = tick_count + 1
          /\ UNCHANGED <<state, listVars>>
  /\ UNCHANGED <<parent_pid, exit_code, block_reason, wait_target, pc, exitVars, reaping,
                 foreground_process, next_pid, kbd>>

\* process_reap, first critical section: detach the zombie list.
ReapDetach_ClearFirst ==
  /\ current_process = KernelTask /\ reaping = {} /\ zombie_list # {}
  /\ reaping' = {}
  /\ zombie_list' = {}
  /\ UNCHANGED <<procVars, ready_queue, blocked_list, current_process, exitVars,
                 foreground_process, next_pid, tick_count, kbd>>

ReapDetach ==
  /\ current_process = KernelTask /\ reaping = {} /\ zombie_list # {}
  /\ reaping' = zombie_list
  /\ zombie_list' = {}
  /\ UNCHANGED <<procVars, ready_queue, blocked_list, current_process, exitVars,
                 foreground_process, next_pid, tick_count, kbd>>

\* process_reap, second critical section: process_destroy of one of them.
ReapDestroy ==
  /\ current_process = KernelTask
  /\ \E p \in reaping : /\ reaping' = reaping \ {p}
                        /\ state' = [state EXCEPT ![p] = "FREED"]
  /\ UNCHANGED <<parent_pid, exit_code, block_reason, wait_target, pc, listVars, exitVars,
                 foreground_process, next_pid, tick_count, kbd>>

-----------------------------------------------------------------------------
Next ==
  \/ sys_fork \/ \E fg \in BOOLEAN : start_program(fg)
  \/ CreateFails
  \/ Exit \/ sys_wait \/ ResumeWait \/ sys_kill_pid \/ cmd_kill
  \/ sys_give_foreground \/ sys_read \/ ResumeRead \/ deliver_char
  \/ scheduler_tick \/ ReapDetach \/ ReapDestroy

Spec == Init /\ [][Next]_vars

\* The PIT never stops and the interrupt controller latches its request until
\* interrupts are on; a call that was switched in again runs on by itself; the
\* kernel task gets on with its loop whenever it has the CPU.
Fairness ==
  /\ SF_vars(scheduler_tick)
  /\ WF_vars(ResumeWait) /\ WF_vars(ResumeRead)
  /\ SF_vars(ReapDetach) /\ SF_vars(ReapDestroy)

FairSpec == Spec /\ Fairness

-----------------------------------------------------------------------------
(* Properties *)

ProcessStates == {"UNUSED", "READY", "RUNNING", "BLOCKED", "DEAD", "FREED"}
Record == [pid : UserPids, parent_pid : UserPids, code : Codes \cup {FaultCode}]

\* fate: "live" until the process is "killed" or exits.  The exit of a child
\* of the kernel task is "unrecorded"; any other one is "recorded", until it
\* is "collected" by a wait or "overwritten" by a later exit.
Fates == {"live", "killed", "unrecorded", "recorded", "collected", "overwritten"}

\* Every variable holds a value of the kind its C declaration allows.
TypeOK ==
  /\ state \in [Pids -> ProcessStates]
  /\ parent_pid \in [Pids -> Pids]
  /\ exit_code \in [Pids -> Codes \cup {FaultCode}]
  /\ block_reason \in [Pids -> {"NONE", "WAIT", "READ"}]
  /\ wait_target \in [Pids -> Pids]
  /\ pc \in [Pids -> {"run", "wait", "read"}]
  /\ ready_queue \in Seq(Pids)
  /\ blocked_list \subseteq UserPids
  /\ zombie_list \subseteq UserPids
  /\ reaping \subseteq UserPids
  /\ current_process \in Pids
  /\ foreground_process \in Pids \cup {Nobody}
  /\ exit_records \in [Slots -> Record \cup {NoRecord}]
  /\ next_pid \in 1..(MaxPid + 1)
  /\ tick_count \in 0..(TIMESLICE - 1)
  /\ kbd \in 0..KbdCapacity
  /\ fate \in [Pids -> Fates]

\* The comment on scheduler.c's ready_queue and what scheduler_switch counts
\* on: the ring always holds the kernel task, starts at the current process
\* and links nobody twice.
RingSound ==
  /\ KernelTask \in Queued
  /\ current_process = ready_queue[1]
  /\ NoDuplicates(ready_queue)

\* A process is linked (process_t.next is one field) on exactly the list its
\* state calls for: a freed process is on none, a sleeper only on blocked_list,
\* and a dead one waits for the reaper unless it was killed while running and
\* still has the CPU.
ListsMatchStates ==
  \A p \in Pids :
    /\ p \in Queued <=> \/ state[p] \in {"READY", "RUNNING"}
                        \/ state[p] = "DEAD" /\ p = current_process
    /\ state[p] = "RUNNING" => p = current_process
    /\ p \in blocked_list <=> state[p] = "BLOCKED"
    /\ p \in zombie_list \cup reaping <=> state[p] = "DEAD" /\ p # current_process
    /\ ~(p \in zombie_list /\ p \in reaping)

\* exit_records, as the comment on it has it: the exit of a child is noted once,
\* with its own parent and code, from its death until wait() collects it or the
\* full table drops it, whether or not the reaper has freed the child.
ExitAccounting ==
  /\ \A p \in UserPids :
       fate[p] = "recorded" <=> \E i \in Slots : exit_records[i].pid = p
  /\ \A i, j \in Slots : i # j /\ exit_records[i] # NoRecord
                         => exit_records[i].pid # exit_records[j].pid
  /\ \A i \in Slots : exit_records[i] # NoRecord =>
       LET c == exit_records[i].pid
       IN /\ exit_records[i].parent_pid = parent_pid[c]
          /\ exit_records[i].code = exit_code[c]
          /\ state[c] \in {"DEAD", "FREED"} /\ c # current_process

\* sys_wait sleeps only while there is a child whose exit will wake it; only a
\* kill can take that child away.
WaiterHasChild ==
  \A p \in blocked_list : block_reason[p] = "WAIT" =>
    \E c \in UserPids : /\ parent_pid[c] = p /\ wait_target[p] \in {0, c}
                        /\ c \in QueuedOrBlocked \/ fate[c] = "killed"

\* foreground_process never points at a dead or freed process, except at one
\* that was killed while it had the CPU and then gave itself the keyboard.
ForegroundAlive ==
  foreground_process # Nobody =>
    foreground_process \in QueuedOrBlocked \/ fate[foreground_process] = "killed"

\* A process that is off the CPU and dead never runs again, and a freed
\* process_t is never touched again (process_exit's "we never run again").
DeadStayDead ==
  [][\A p \in Pids : /\ p \in zombie_list \cup reaping => state'[p] \in {"DEAD", "FREED"}
                     /\ state[p] = "FREED" => state'[p] = "FREED"]_vars

\* An exit status reaches at most one wait(), and that wait is its own
\* parent's; once delivered or dropped it never comes back.
ExitDeliveredOnce ==
  [][\A p \in UserPids :
       /\ fate[p] # "collected" /\ fate'[p] = "collected"
             => fate[p] = "recorded" /\ current_process = parent_pid[p]
       /\ fate[p] \in {"unrecorded", "collected", "overwritten"} => fate'[p] = fate[p]]_vars

\* The round robin starves nobody, although scheduler_add puts a new or woken
\* process in front of all the others.
EveryQueuedRuns ==
  \A p \in Pids : [](p \in Queued => <>(p = current_process \/ p \notin Queued))

\* The reaper gets to every dead process, a process killed while it had the
\* CPU included, unless the latter goes to sleep first.
DeadAreReaped ==
  \A p \in UserPids : state[p] = "DEAD" ~> state[p] \in {"FREED", "BLOCKED"}

\* A parent in wait() returns once a child it waits for has exited: the wakeup
\* is never lost between the exit, the reaper and the parent's next turn.
WaitReturns ==
  \A p, c \in UserPids :
    (pc[p] = "wait" /\ parent_pid[c] = p /\ wait_target[p] \in {0, c} /\ fate[c] = "recorded")
      ~> (pc[p] = "run" \/ fate[p] = "killed" \/ fate[c] = "overwritten")

-----------------------------------------------------------------------------
(* Why the invariants hold *)

\* The rest of what every step relies on: pids are handed out in order, so a
\* parent is older than its child; the process that has the CPU is running, or
\* was killed there; only the dead have exited; the kernel task neither dies
\* nor sleeps.
LifeCycle ==
  /\ \A p \in Pids : /\ state[p] = "UNUSED" <=> p >= next_pid
                     /\ state[p] = "UNUSED" => fate[p] = "live"
  /\ parent_pid[KernelTask] = KernelTask /\ \A p \in UserPids : parent_pid[p] < p
  /\ \/ state[current_process] = "RUNNING"
     \/ state[current_process] = "DEAD" /\ fate[current_process] = "killed"
  /\ \A p \in Pids : \/ fate[p] \in {"live", "killed"}
                     \/ state[p] \in {"DEAD", "FREED"} /\ p # current_process
  /\ state[KernelTask] \in {"READY", "RUNNING"}
  /\ pc[KernelTask] = "run"

\* The invariants above are inductive together, and not one of them alone.
IInv == TypeOK /\ RingSound /\ ListsMatchStates /\ ExitAccounting /\ WaiterHasChild
          /\ ForegroundAlive /\ LifeCycle

-----------------------------------------------------------------------------
(* What a comment in the code says and the code does not keep *)

\* syscall.c, sys_wait: it returns "-1 if there is no such child to wait for",
\* so nobody sleeps in wait() without a child.
NoStrandedWaiter ==
  \A p \in blocked_list : block_reason[p] = "WAIT" =>
    \E c \in QueuedOrBlocked : parent_pid[c] = p /\ wait_target[p] \in {0, c}
=============================================================================
