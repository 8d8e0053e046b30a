----------------------------- MODULE Ush_proofs -----------------------------
(***************************************************************************)
(* The user shell has its prompt with the keyboard and with the programs   *)
(* it waited for gone, for any number of processes and exit records, until *)
(* it leaves or kills itself.                                              *)
(***************************************************************************)
EXTENDS Ush, Process_proofs

Steps == {"prompt", "kill", "exit", "gone", "run", "left", "right", "give", "waitpid", "wait"}

UshTyped ==
    ush \in [step : Steps, fg : BOOLEAN, lpid : Pids, rpid : Pids, jobs : SUBSET Pids]

Running == ush.step # "gone"

\* ush is there until it leaves or kills itself.  Nothing that was killed is
\* left on a list.
UshLives ==
    /\ Running <=> USH \in QueuedOrBlocked
    /\ \A p \in QueuedOrBlocked : fate[p] # "killed"

\* The target of the wait that ush is at.
Target == IF ush.step = "wait" THEN 0 ELSE ush.rpid

\* ush sleeps in the call that its step makes.
SleepsInStep ==
    /\ pc[USH] = "read" => ush.step = "prompt"
    /\ pc[USH] = "wait" => ush.step \in {"waitpid", "wait"} /\ wait_target[USH] = Target

\* Before it forks, a command has no stages; the last one is a child of ush.
StagesKnown ==
    /\ ush.step \in {"prompt", "kill", "exit", "run", "left"} => ush.lpid = NoPid
    /\ ush.step \in {"prompt", "kill", "exit", "run", "left", "right"} => ush.rpid = NoPid
    /\ ush.step \in {"give", "waitpid"} => ush.rpid \in UserPids /\ parent_pid[ush.rpid] = USH

\* The keyboard is with ush, but for the program it waits for.
FocusKept ==
    Running => \/ foreground_process = USH
               \/ /\ ush.step = "waitpid" /\ foreground_process = ush.rpid
                  /\ ush.rpid \in QueuedOrBlocked

\* The stages that are still to be waited for.
Awaited == IF ush.step = "wait" /\ ush.lpid # NoPid THEN {ush.lpid} ELSE {ush.lpid, ush.rpid}

\* Without jobs in the background every other child is gone, its exit too.
OthersGone ==
    Running /\ ush.jobs = {} =>
        \A c \in UserPids : parent_pid[c] = USH /\ c \notin Awaited =>
                              c \notin QueuedOrBlocked /\ fate[c] # "recorded"

\* At its prompt ush sleeps in the read, with no key in the ring.
KeysKept == AtPrompt /\ state[USH] = "BLOCKED" => kbd = 0 /\ block_reason[USH] = "READ"

\* All of it, while ush is up.
UInv == IInv /\ UshTyped /\ UshLives /\ SleepsInStep /\ StagesKnown /\ FocusKept /\ OthersGone
UshSafe == IInv /\ UshTyped /\ (UshUp => UInv /\ KeysKept)
-----------------------------------------------------------------------------
(* What the steps of the machine do to the processes that are up *)

\* ush is a user process; the process that has the CPU was not killed.
LEMMA UshFacts ==
    ASSUME UInv
    PROVE  /\ USH \in UserPids /\ USH \in Pids /\ USH # KernelTask /\ USH # Nobody
           /\ current_process \in QueuedOrBlocked /\ current_process \in Pids
           /\ state[current_process] = "RUNNING"
<1>1. USH \in UserPids /\ USH \in Pids /\ USH # KernelTask /\ USH # Nobody
  BY BoundsAssumption DEF USH, UserPids, Pids, KernelTask, Nobody
<1>2. current_process \in QueuedOrBlocked /\ current_process \in Pids
  BY RingFacts DEF UInv, QueuedOrBlocked
<1>3. state[current_process] = "RUNNING"
  BY <1>2 DEF UInv, UshLives, IInv, LifeCycle
<1> QED BY <1>1, <1>2, <1>3

\* Nobody starts or ends, and the keyboard stays where it is.
Still == QueuedOrBlocked' = QueuedOrBlocked /\ UNCHANGED <<parent_pid, fate, foreground_process>>

\* Going to sleep.
LEMMA BlockIsStill ==
    ASSUME UInv, current_process # KernelTask, NEW call, NEW reason, NEW target,
           BlockIn(call, reason, target),
           UNCHANGED <<parent_pid, exit_code, exitVars, otherVars>>
    PROVE  Still
<1> DEFINE st == [state EXCEPT ![current_process] = "BLOCKED"]
<1>1. ReadyToSwitch(ready_queue, st, blocked_list)
  BY SleeperMaySwitch DEF UInv
<1>2. scheduler_switch(ready_queue, st, blocked_list) /\ reaping' = reaping
  BY DEF BlockIn, otherVars
<1>3. st[current_process] # "DEAD"
  BY UshFacts DEF UInv, IInv, TypeOK
<1> HIDE DEF st
<1>4. QueuedOrBlocked' =
        (ToSet(ready_queue) \cup blocked_list) \ {p \in {current_process} : st[p] = "DEAD"}
  BY <1>1, <1>2, SwitchProperties
<1>5. QueuedOrBlocked' = QueuedOrBlocked
  BY <1>3, <1>4 DEF QueuedOrBlocked, Queued
<1> QED BY <1>5 DEF Still, exitVars, otherVars

\* A turn of a read, which returns or sleeps.
LEMMA ReadIsStill ==
    ASSUME UInv, current_process # KernelTask, ReadTurn
    PROVE  /\ Still
           /\ \/ pc' = [pc EXCEPT ![current_process] = "run"] /\ wait_target' = wait_target
              \/ /\ pc' = [pc EXCEPT ![current_process] = "read"]
                 /\ wait_target' = [wait_target EXCEPT ![current_process] = 0]
<1>1. CASE kbd > 0
  BY <1>1 DEF ReadTurn, Still, QueuedOrBlocked, Queued, listVars, exitVars, UInv, IInv, TypeOK
<1>2. CASE kbd = 0
  <2>1. /\ BlockIn("read", "READ", 0)
        /\ UNCHANGED <<parent_pid, exit_code, exitVars, otherVars>>
    BY <1>2 DEF ReadTurn
  <2>2. Still
    BY <2>1, BlockIsStill
  <2> QED BY <2>1, <2>2 DEF BlockIn
<1> QED BY <1>1, <1>2 DEF ReadTurn

\* The timer, a key press and the reaper.
LEMMA MachineIsStill ==
    ASSUME UInv, deliver_char \/ scheduler_tick \/ ReapDetach \/ ReapDestroy
    PROVE  Still /\ UNCHANGED <<pc, wait_target>>
<1>1. CASE deliver_char
  <2> DEFINE W == {p \in {foreground_process} : state[p] = "BLOCKED" /\ block_reason[p] = "READ"}
  <2>1. /\ ready_queue' = WokenQueue(W) /\ blocked_list' = blocked_list \ W
        /\ foreground_process # Nobody
        /\ UNCHANGED <<parent_pid, wait_target, pc, fate, foreground_process>>
    BY <1>1 DEF deliver_char, exitVars
  <2>2. /\ W \subseteq blocked_list
        /\ W = {} \/ \E w \in blocked_list : W = {w}
    BY <2>1 DEF UInv, IInv, TypeOK, ListsMatchStates
  <2> HIDE DEF W
  <2>3. Queued' = Queued \cup W
    BY <2>1, <2>2, WakeFacts DEF Queued, UInv
  <2> QED BY <2>1, <2>2, <2>3 DEF Still, QueuedOrBlocked
<1>2. CASE scheduler_tick
  <2>1. UNCHANGED <<parent_pid, wait_target, pc, fate, foreground_process, reaping>>
    BY <1>2 DEF scheduler_tick, exitVars
  <2>2. CASE scheduler_switch(ready_queue, state, blocked_list)
    <3>1. QueuedOrBlocked' =
            (ToSet(ready_queue) \cup blocked_list) \ {p \in {current_process} : state[p] = "DEAD"}
      BY <2>1, <2>2, TickMaySwitch, SwitchProperties DEF UInv
    <3> QED BY <2>1, <3>1, UshFacts DEF Still, QueuedOrBlocked, Queued
  <2>3. CASE UNCHANGED <<state, listVars>>
    BY <2>1, <2>3 DEF Still, QueuedOrBlocked, Queued, listVars
  <2> QED BY <1>2, <2>2, <2>3 DEF scheduler_tick
<1>3. CASE ReapDetach
  BY <1>3 DEF ReapDetach, Still, QueuedOrBlocked, Queued, procVars, exitVars
<1>4. CASE ReapDestroy
  BY <1>4 DEF ReapDestroy, Still, QueuedOrBlocked, Queued, listVars, exitVars
<1> QED BY <1>1, <1>2, <1>3, <1>4

\* fork: one process more, a child of ush.
LEMMA ForkEffect ==
    ASSUME UInv, sys_fork
    PROVE  /\ next_pid \in UserPids /\ next_pid \notin QueuedOrBlocked
           /\ fate[next_pid] = "live"
           /\ QueuedOrBlocked' = QueuedOrBlocked \cup {next_pid}
           /\ parent_pid' = [parent_pid EXCEPT ![next_pid] = current_process]
           /\ UNCHANGED <<fate, foreground_process, pc, wait_target>>
<1>1. /\ next_pid <= MaxPid
      /\ parent_pid' = [parent_pid EXCEPT ![next_pid] = current_process]
      /\ ready_queue' = RingAdd(ready_queue, next_pid)
      /\ UNCHANGED <<fate, foreground_process, pc, wait_target, blocked_list>>
  BY DEF sys_fork, Create, exitVars
<1>2. next_pid \in UserPids /\ next_pid \in Pids /\ state[next_pid] = "UNUSED"
  BY <1>1, PidFacts DEF UInv, IInv, TypeOK, LifeCycle
<1>3. next_pid \notin Queued /\ next_pid \notin blocked_list /\ fate[next_pid] = "live"
  BY <1>2 DEF UInv, IInv, ListsMatchStates, LifeCycle
<1>4. Queued' = Queued \cup {next_pid}
  BY <1>1, <1>2, <1>3, LinkFacts DEF Queued, UInv
<1> QED BY <1>1, <1>2, <1>3, <1>4 DEF QueuedOrBlocked

\* A kill of another process.
LEMMA KillEffect ==
    ASSUME UInv, NEW pid \in Pids, Kill(pid), pid # current_process
    PROVE  /\ QueuedOrBlocked' = QueuedOrBlocked \ {pid}
           /\ fate' = [fate EXCEPT ![pid] = "killed"]
           /\ foreground_process' = IF foreground_process = pid THEN Nobody
                                                                ELSE foreground_process
           /\ UNCHANGED <<parent_pid, pc, wait_target>>
<1>1. /\ pid \in Queued /\ ready_queue' = RingRemove(ready_queue, pid)
      /\ blocked_list' = blocked_list
  BY DEF Kill, Killable
<1>2. ready_queue \in Seq(Pids) /\ ready_queue # <<>> /\ NoDuplicates(ready_queue)
      /\ pid # ready_queue[1]
  BY RingFacts DEF UInv
<1>3. ToSet(ready_queue') = ToSet(ready_queue) \ {pid}
  BY <1>1, <1>2, RingRemoveProperties
<1>4. pid \notin blocked_list
  BY <1>1 DEF UInv, IInv, ListsMatchStates
<1>5. QueuedOrBlocked' = QueuedOrBlocked \ {pid}
  BY <1>1, <1>3, <1>4 DEF QueuedOrBlocked, Queued
<1> QED BY <1>5 DEF Kill

\* What a turn of ush's wait comes to: an exit is collected, there is nobody to
\* wait for, or ush sleeps.
LEMMA WaitEffect ==
    ASSUME UInv, UshRuns, NEW target \in Pids, WaitTurn(target)
    PROVE  /\ QueuedOrBlocked' = QueuedOrBlocked /\ UNCHANGED <<parent_pid, foreground_process>>
           /\ \/ /\ pc'[USH] = "run" /\ wait_target' = wait_target
                 /\ \E c \in UserPids : /\ parent_pid[c] = USH /\ target \in {0, c}
                                        /\ c \notin QueuedOrBlocked /\ fate[c] = "recorded"
                                        /\ fate' = [fate EXCEPT ![c] = "collected"]
              \/ /\ pc'[USH] = "run" /\ wait_target' = wait_target /\ fate' = fate
                 /\ \A c \in UserPids : parent_pid[c] = USH /\ target \in {0, c} =>
                                          c \notin QueuedOrBlocked /\ fate[c] # "recorded"
              \/ pc'[USH] = "wait" /\ wait_target'[USH] = target /\ fate' = fate
<1> DEFINE hits == Collectable(USH, target)
<1>0. current_process = USH /\ USH \in Pids /\ IInv
  BY UshFacts DEF UshRuns, UInv
<1>1. CASE hits # {}
  <2> DEFINE k == Min(hits)
             c == exit_records[k].pid
  <2>1. /\ fate' = [fate EXCEPT ![c] = "collected"]
        /\ pc' = [pc EXCEPT ![USH] = "run"]
        /\ UNCHANGED <<parent_pid, wait_target, ready_queue, blocked_list, foreground_process>>
    BY <1>0, <1>1 DEF WaitTurn, listVars, otherVars
  <2>2. /\ k \in Slots /\ exit_records[k] # NoRecord /\ exit_records[k].parent_pid = USH
        /\ target \in {0, c}
    <3>1. hits \subseteq Nat
      BY DEF Collectable, Slots
    <3>2. k \in hits
      BY <1>1, <3>1, MinIsElement
    <3> QED BY <3>2 DEF Collectable
  <2> HIDE DEF k, hits
  <2>3. c \in UserPids /\ fate[c] = "recorded"
    BY <1>0, <2>2, RecordFacts
  <2>4. state[c] \in {"DEAD", "FREED"} /\ c # current_process /\ USH = parent_pid[c]
    BY <1>0, <2>2 DEF IInv, ExitAccounting
  <2>5. c \notin QueuedOrBlocked
    BY <1>0, <2>3, <2>4, PidFacts DEF IInv, ListsMatchStates, QueuedOrBlocked
  <2>6. pc'[USH] = "run"
    BY <1>0, <2>1 DEF IInv, TypeOK
  <2>7. QueuedOrBlocked' = QueuedOrBlocked
    BY <2>1 DEF QueuedOrBlocked, Queued
  <2> HIDE DEF c
  <2> QED BY <2>1, <2>2, <2>3, <2>4, <2>5, <2>6, <2>7
<1>2. CASE hits = {} /\ ~HasChild(USH, target)
  <2>1. /\ pc' = [pc EXCEPT ![USH] = "run"]
        /\ UNCHANGED <<parent_pid, wait_target, ready_queue, blocked_list, fate,
                       foreground_process>>
    BY <1>0, <1>2 DEF WaitTurn, listVars, exitVars, otherVars
  <2>2. ASSUME NEW c \in UserPids, parent_pid[c] = USH, target \in {0, c}
        PROVE  c \notin QueuedOrBlocked /\ fate[c] # "recorded"
    <3>1. c \notin QueuedOrBlocked
      BY <1>2, <2>2 DEF HasChild
    <3>2. ASSUME fate[c] = "recorded" PROVE FALSE
      <4>1. PICK i \in Slots : exit_records[i].pid = c
        BY <1>0, <3>2 DEF IInv, ExitAccounting
      <4>2. exit_records[i] # NoRecord
        BY <4>1, PidFacts DEF NoRecord
      <4>3. exit_records[i].parent_pid = USH
        BY <1>0, <2>2, <4>1, <4>2 DEF IInv, ExitAccounting
      <4> QED BY <1>2, <2>2, <4>1, <4>2, <4>3 DEF Collectable
    <3> QED BY <3>1, <3>2
  <2>3. pc'[USH] = "run"
    BY <1>0, <2>1 DEF IInv, TypeOK
  <2> QED BY <2>1, <2>2, <2>3 DEF QueuedOrBlocked, Queued
<1>3. CASE hits = {} /\ HasChild(USH, target)
  <2>1. /\ BlockIn("wait", "WAIT", target)
        /\ UNCHANGED <<parent_pid, exit_code, exitVars, otherVars>>
    BY <1>0, <1>3 DEF WaitTurn
  <2>2. Still
    BY <1>0, <2>1, UshFacts, BlockIsStill
  <2>3. pc'[USH] = "wait" /\ wait_target'[USH] = target
    BY <1>0, <2>1 DEF BlockIn, IInv, TypeOK
  <2> QED BY <2>2, <2>3 DEF Still
<1> QED BY <1>1, <1>2, <1>3
-----------------------------------------------------------------------------
(* ush makes the steps of a process *)

\* In any step but its reads and waits ush is in user mode.
LEMMA UshInUserMode ==
    ASSUME UInv, UshRuns, ush.step \notin {"prompt", "waitpid", "wait"}
    PROVE  InUserMode /\ pc[USH] = "run"
BY UshFacts DEF UshRuns, InUserMode, UInv, SleepsInStep, IInv, TypeOK

\* The wait that ush is at is for Target, the first time and every other time.
LEMMA WaitsForTarget ==
    ASSUME UInv, Wait
    PROVE  /\ WaitTurn(Target) /\ Target \in Pids
           /\ sys_wait \/ ResumeWait
<1>1. Target \in Pids
  BY PidFacts DEF Target, UInv, UshTyped
<1>2. CASE InUserMode /\ WaitTurn(Target)
  BY <1>1, <1>2 DEF sys_wait
<1>3. CASE ResumeWait
  BY <1>1, <1>3 DEF ResumeWait, Wait, UshRuns, UInv, SleepsInStep
<1> QED BY <1>2, <1>3 DEF Wait, Target

\* Every step of the system is one of module Process, with ush up or not.
LEMMA UshIsProcess ==
    ASSUME UshTyped, [UshNext]_ushVars
    PROVE  [Next]_vars
<1>1. CASE ReadKey
  BY <1>1 DEF ReadKey, Next
<1>2. CASE KillJob
  BY <1>2 DEF KillJob, sys_kill_pid, Next
<1>3. CASE Leave
  <2>1. InUserMode /\ process_exit(0)
    BY <1>3 DEF Leave
  <2> QED BY <2>1, CodesAssumption DEF Exit, Next
<1>4. CASE Fork
  BY <1>4 DEF Fork, Next
<1>5. CASE GiveForeground
  BY <1>5 DEF GiveForeground, Next
<1>6. CASE Wait
  <2>1. Target \in Pids
    BY PidFacts DEF Target, UshTyped
  <2>2. (InUserMode /\ WaitTurn(Target)) \/ ResumeWait
    BY <1>6 DEF Wait, Target
  <2> QED BY <2>1, <2>2 DEF sys_wait, Next
<1>7. CASE Program
  BY <1>7 DEF Program, End, Exit, Next
<1>8. CASE Machine
  BY <1>8 DEF Machine, Next
<1>9. CASE UNCHANGED ushVars
  BY <1>9 DEF ushVars
<1> QED BY <1>1, <1>2, <1>3, <1>4, <1>5, <1>6, <1>7, <1>8, <1>9 DEF UshNext, UshStep

\* Nobody comes up again.
LEMMA FateIsFinal ==
    ASSUME IInv, [Next]_vars, NEW p \in Pids, fate'[p] = "live"
    PROVE  fate[p] = "live"
<1>t. fate \in [Pids -> Fates]
  BY DEF IInv, TypeOK
<1>1. ASSUME UNCHANGED exitVars PROVE fate[p] = "live"
  BY <1>1 DEF exitVars
<1>2. ASSUME NEW code, process_exit(code) PROVE fate[p] = "live"
  BY <1>2, <1>t DEF process_exit, record_exit
<1>3. ASSUME NEW pid, Kill(pid) PROVE fate[p] = "live"
  BY <1>3, <1>t DEF Kill
<1>4. ASSUME NEW target, WaitTurn(target) PROVE fate[p] = "live"
  <2>1. CASE UNCHANGED exitVars
    BY <2>1, <1>1
  <2>2. ASSUME NEW c, fate' = [fate EXCEPT ![c] = "collected"] PROVE fate[p] = "live"
    BY <2>2, <1>t
  <2> QED BY <1>4, <2>1, <2>2 DEF WaitTurn
<1>5. CASE sys_wait \/ ResumeWait
  BY <1>4, <1>5 DEF sys_wait, ResumeWait
<1>6. CASE Exit
  BY <1>2, <1>6 DEF Exit
<1>7. CASE sys_kill_pid \/ cmd_kill
  BY <1>3, <1>7 DEF sys_kill_pid, cmd_kill
<1>8. CASE sys_fork \/ CreateFails \/ \E fg \in BOOLEAN : start_program(fg)
  BY <1>1, <1>8 DEF sys_fork, CreateFails, start_program, Create
<1>9. CASE sys_give_foreground \/ sys_read \/ ResumeRead \/ deliver_char
  BY <1>1, <1>9 DEF sys_give_foreground, sys_read, ResumeRead, ReadTurn, deliver_char
<1>10. CASE scheduler_tick \/ ReapDetach \/ ReapDestroy
  BY <1>1, <1>10 DEF scheduler_tick, ReapDetach, ReapDestroy
<1>11. CASE UNCHANGED vars
  BY <1>1, <1>11 DEF vars
<1> QED BY <1>5, <1>6, <1>7, <1>8, <1>9, <1>10, <1>11 DEF Next

\* Whoever exits or is killed is not up.
LEMMA EndsUp ==
    ASSUME IInv
    PROVE  /\ \A code : process_exit(code) => fate'[current_process] # "live"
           /\ \A pid \in Pids : Kill(pid) => fate'[pid] # "live"
<1>1. fate \in [Pids -> Fates] /\ current_process \in Pids
  BY DEF IInv, TypeOK
<1>2. ASSUME NEW code, process_exit(code) PROVE fate'[current_process] # "live"
  BY <1>1, <1>2 DEF process_exit, record_exit
<1>3. ASSUME NEW pid \in Pids, Kill(pid) PROVE fate'[pid] # "live"
  BY <1>1, <1>3 DEF Kill
<1> QED BY <1>2, <1>3

\* The fields of ush keep their types, with ush up or not.
LEMMA TypesKept ==
    ASSUME IInv, UshTyped, [UshNext]_ushVars
    PROVE  UshTyped'
<1>1. ASSUME Prompt PROVE UshTyped'
  BY <1>1, PidFacts DEF Prompt, Ready, NoPid, UshTyped, Steps
<1>2. ASSUME NEW step \in Steps, Goto(step) PROVE UshTyped'
  BY <1>2 DEF Goto, UshTyped
<1>3. ASSUME ush' = ush PROVE UshTyped'
  BY <1>3 DEF UshTyped
<1>4. CASE ReadKey
  <2>1. ASSUME NEW fg \in BOOLEAN, ush' = [ush EXCEPT !.step = "run", !.fg = fg] PROVE UshTyped'
    BY <2>1 DEF UshTyped, Steps
  <2>2. Goto("kill") \/ Goto("exit") \/ Goto("left") => UshTyped'
    BY <1>2 DEF Steps
  <2> QED BY <1>1, <1>3, <1>4, <2>1, <2>2 DEF ReadKey, AfterKey
<1>5. CASE KillJob
  BY <1>1, <1>5 DEF KillJob
<1>6. CASE Leave \/ GiveForeground
  BY <1>2, <1>6 DEF Leave, GiveForeground, Steps
<1>7. CASE Fork
  <2>1. 0 \in Pids /\ (sys_fork => next_pid \in Pids)
    BY PidFacts DEF sys_fork, Create, IInv, TypeOK
  <2>2. ASSUME NEW pid \in Pids, Forked(pid) PROVE UshTyped'
    <3>1. Ready(ush.jobs \cup {pid}) \in
             [step : Steps, fg : BOOLEAN, lpid : Pids, rpid : Pids, jobs : SUBSET Pids]
      BY <2>1 DEF Ready, NoPid, UshTyped, Steps
    <3>2. ush' = Ready(ush.jobs \cup {pid}) => UshTyped'
      BY <3>1 DEF UshTyped
    <3>3. ush' = [ush EXCEPT !.step = "give", !.rpid = pid] => UshTyped'
      BY DEF UshTyped, Steps
    <3>4. ush' = [ush EXCEPT !.step = "right", !.lpid = pid] => UshTyped'
      BY DEF UshTyped, Steps
    <3>5. ush' = [ush EXCEPT !.rpid = pid, !.step = IF NoPid \in {ush.lpid, pid} THEN "wait" ELSE "give"]
            => UshTyped'
      BY DEF UshTyped, Steps
    <3> QED BY <1>1, <2>2, <3>2, <3>3, <3>4, <3>5 DEF Forked
  <2> QED BY <1>1, <1>7, <2>1, <2>2 DEF Fork, NoPid
<1>8. CASE Wait
  BY <1>1, <1>2, <1>3, <1>8 DEF Wait, AfterWaitpid, Steps
<1>9. CASE Program \/ Machine \/ UNCHANGED ushVars
  BY <1>3, <1>9 DEF Program, Machine, ushVars
<1> QED BY <1>4, <1>5, <1>6, <1>7, <1>8, <1>9 DEF UshNext, UshStep
-----------------------------------------------------------------------------
(* Every step keeps the invariant *)

\* The fields of a command that is over.
LEMMA ReadyFields ==
    ASSUME NEW jobs
    PROVE  /\ Ready(jobs).step = "prompt" /\ Ready(jobs).fg = FALSE
           /\ Ready(jobs).lpid = NoPid /\ Ready(jobs).rpid = NoPid /\ Ready(jobs).jobs = jobs
BY DEF Ready

\* A step that leaves ush and its calls alone and nobody starts or ends in.
LEMMA StillKeepsUInv ==
    ASSUME UInv, IInv', Still, ush' = ush,
           pc'[USH] = pc[USH], wait_target'[USH] = wait_target[USH]
    PROVE  UInv'
BY DEF Still, UInv, UshTyped, UshLives, Running, SleepsInStep, Target, StagesKnown, FocusKept,
       OthersGone, Awaited

\* The steps of the machine, and the reads of the programs.
LEMMA OthersKeepUInv ==
    ASSUME UInv, IInv', Machine \/ (Program /\ ~End)
    PROVE  UInv'
<1>1. CASE Machine
  BY <1>1, MachineIsStill, StillKeepsUInv DEF Machine
<1>2. CASE Program /\ ~End
  <2>1. current_process # USH /\ ush' = ush /\ ReadTurn /\ current_process # KernelTask
    BY <1>2 DEF Program, sys_read, ResumeRead, InUserMode, UInv, IInv, LifeCycle
  <2>2. /\ Still
        /\ \/ pc' = [pc EXCEPT ![current_process] = "run"] /\ wait_target' = wait_target
           \/ /\ pc' = [pc EXCEPT ![current_process] = "read"]
              /\ wait_target' = [wait_target EXCEPT ![current_process] = 0]
    BY <2>1, ReadIsStill
  <2>3. pc'[USH] = pc[USH] /\ wait_target'[USH] = wait_target[USH]
    BY <2>1, <2>2, UshFacts DEF UInv, IInv, TypeOK
  <2> QED BY <2>1, <2>2, <2>3, StillKeepsUInv
<1> QED BY <1>1, <1>2

\* A program ends: the keyboard goes back to ush.
LEMMA EndKeepsUInv ==
    ASSUME UInv, IInv', Program, End
    PROVE  UInv'
<1> DEFINE p == current_process
<1>1. PICK code \in Codes \cup {FaultCode}, W \in SUBSET blocked_list : ExitEffect(code, W)
  BY ExitHasEffect DEF End, Exit, UInv
<1>2. /\ foreground_process' = FocusAfter(p)
      /\ UNCHANGED <<parent_pid, wait_target, pc>>
      /\ QueuedOrBlocked' = QueuedOrBlocked \ {p}
      /\ \A x \in Pids : x # p => fate'[x] = fate[x] \/ fate'[x] = "overwritten"
  BY <1>1 DEF ExitEffect
<1>3. /\ p # USH /\ ush' = ush /\ p \in QueuedOrBlocked /\ USH \in Pids /\ USH # 0
      /\ QueuedOrBlocked \subseteq Pids /\ UserPids \subseteq Pids
  BY UshFacts, RingFacts, PidFacts DEF Program, UInv, KernelTask
<1>4. UshTyped' /\ StagesKnown' /\ SleepsInStep'
  BY <1>2, <1>3 DEF UInv, UshTyped, StagesKnown, SleepsInStep, Target
<1>5. UshLives'
  BY <1>2, <1>3 DEF UInv, UshLives, Running
<1>6. FocusKept'
  <2> SUFFICES ASSUME Running
               PROVE  \/ foreground_process' = USH
                      \/ /\ ush.step = "waitpid" /\ foreground_process' = ush.rpid
                         /\ ush.rpid \in QueuedOrBlocked'
    BY <1>3 DEF FocusKept, Running
  <2>1. CASE foreground_process = USH
    BY <1>2, <1>3, <2>1 DEF FocusAfter
  <2>2. CASE foreground_process # USH
    <3>1. /\ ush.step = "waitpid" /\ foreground_process = ush.rpid
          /\ ush.rpid \in QueuedOrBlocked /\ parent_pid[ush.rpid] = USH
      BY <2>2 DEF UInv, FocusKept, StagesKnown
    <3>2. USH \in QueuedOrBlocked
      BY DEF UInv, UshLives
    <3> QED BY <1>2, <1>3, <3>1, <3>2 DEF FocusAfter
  <2> QED BY <2>1, <2>2
<1>7. OthersGone'
  <2> SUFFICES ASSUME Running, ush.jobs = {}, NEW c \in UserPids, parent_pid[c] = USH,
                      c \notin Awaited
               PROVE  c \notin QueuedOrBlocked' /\ fate'[c] # "recorded"
    BY <1>2, <1>3 DEF OthersGone, Running, Awaited
  <2>1. c \notin QueuedOrBlocked /\ fate[c] # "recorded"
    BY DEF UInv, OthersGone
  <2> QED BY <1>2, <1>3, <2>1
<1> QED BY <1>4, <1>5, <1>6, <1>7 DEF UInv

\* ush kills another process.
LEMMA KillKeepsUInv ==
    ASSUME UInv, IInv', KillJob, UshUp'
    PROVE  UInv'
<1>0. UshRuns /\ ush.step = "kill" /\ ush' = Ready(ush.jobs)
  BY DEF KillJob, Prompt
<1>1. pc[USH] = "run"
  BY <1>0, UshInUserMode
<1>2. /\ ush'.step = "prompt" /\ ush'.lpid = 0 /\ ush'.rpid = 0 /\ ush'.jobs = ush.jobs
      /\ ush.lpid = 0 /\ ush.rpid = 0 /\ UshTyped'
  <2>1. UshTyped'
    BY <1>0, PidFacts DEF UInv, UshTyped, Ready, Steps, NoPid
  <2> QED BY <1>0, <2>1, ReadyFields DEF NoPid, UInv, StagesKnown
<1>3. /\ foreground_process = USH /\ USH \in QueuedOrBlocked
      /\ QueuedOrBlocked \subseteq Pids /\ UserPids \subseteq Pids /\ 0 \notin UserPids
  BY <1>0, RingFacts, PidFacts DEF UInv, FocusKept, UshLives, Running
<1>4. /\ \/ QueuedOrBlocked' = QueuedOrBlocked /\ fate' = fate
         \/ \E pid \in Pids \ {USH} : /\ QueuedOrBlocked' = QueuedOrBlocked \ {pid}
                                      /\ fate' = [fate EXCEPT ![pid] = "killed"]
      /\ UNCHANGED <<parent_pid, pc, foreground_process>>
  <2>1. CASE UNCHANGED vars
    BY <2>1 DEF vars, procVars, listVars, exitVars, otherVars, QueuedOrBlocked, Queued
  <2>2. ASSUME NEW pid \in Pids \ {USH}, Kill(pid)
        PROVE  /\ QueuedOrBlocked' = QueuedOrBlocked \ {pid}
               /\ fate' = [fate EXCEPT ![pid] = "killed"]
               /\ UNCHANGED <<parent_pid, pc, foreground_process>>
    <3>1. pid # current_process /\ pid \in Pids /\ pid # USH
      BY <1>0 DEF UshRuns
    <3> QED BY <1>3, <2>2, <3>1, KillEffect
  <2>3. \A pid \in Pids : Kill(pid) => pid # USH
    BY EndsUp DEF UInv, UshUp
  <2> QED BY <2>1, <2>2, <2>3 DEF KillJob
<1>5. /\ QueuedOrBlocked' \subseteq QueuedOrBlocked /\ USH \in QueuedOrBlocked'
      /\ \A x \in QueuedOrBlocked' : fate'[x] = fate[x]
      /\ \A x \in Pids : fate'[x] = fate[x] \/ fate'[x] = "killed"
  BY <1>3, <1>4 DEF UInv, IInv, TypeOK
<1>6. UshLives' /\ SleepsInStep' /\ StagesKnown' /\ FocusKept'
  BY <1>1, <1>2, <1>3, <1>4, <1>5 DEF UInv, UshLives, Running, SleepsInStep, StagesKnown,
     FocusKept, NoPid
<1>7. OthersGone'
  <2> SUFFICES ASSUME ush.jobs = {}, NEW c \in UserPids, parent_pid[c] = USH
               PROVE  c \notin QueuedOrBlocked' /\ fate'[c] # "recorded"
    BY <1>2, <1>4 DEF OthersGone
  <2>1. c \notin QueuedOrBlocked /\ fate[c] # "recorded"
    BY <1>0, <1>2, <1>3 DEF UInv, OthersGone, Running, Awaited
  <2> QED BY <1>3, <1>5, <2>1
<1> QED BY <1>2, <1>6, <1>7 DEF UInv

\* A step in which ush goes on with the keyboard its own and nobody starts or
\* ends, awaiting whom it awaited before.
LEMMA MoveKeepsUInv ==
    ASSUME UInv, IInv', Still, UshTyped', StagesKnown', Running, Running', pc'[USH] = "run",
           foreground_process = USH, ush'.jobs = ush.jobs,
           \A c \in UserPids : c \in Awaited => c \in Awaited'
    PROVE  UInv'
<1>1. UshLives' /\ SleepsInStep' /\ FocusKept'
  BY DEF Still, UInv, UshLives, SleepsInStep, FocusKept
<1>2. OthersGone'
  BY DEF Still, UInv, OthersGone
<1> QED BY <1>1, <1>2 DEF UInv

\* A key: ush goes back to sleep, reads on or has a command to run.
LEMMA ReadKeyKeepsUInv ==
    ASSUME UInv, IInv', ReadKey
    PROVE  UInv'
<1>0. UshRuns /\ ush.step = "prompt" /\ ReadTurn
  BY DEF ReadKey, sys_read, ResumeRead
<1>1. /\ Still
      /\ \/ pc' = [pc EXCEPT ![USH] = "run"] /\ wait_target' = wait_target
         \/ /\ pc' = [pc EXCEPT ![USH] = "read"]
            /\ wait_target' = [wait_target EXCEPT ![USH] = 0]
  BY <1>0, ReadIsStill, UshFacts DEF UshRuns
<1>2. pc'[USH] \in {"run", "read"}
  BY <1>1, UshFacts DEF UInv, IInv, TypeOK
<1>3. foreground_process = USH /\ Running /\ ush.lpid = 0 /\ ush.rpid = 0
  BY <1>0 DEF UInv, FocusKept, Running, StagesKnown, NoPid
<1>4. CASE pc'[USH] = "run"
  <2>1. /\ UshTyped' /\ ush'.step \in {"prompt", "kill", "exit", "run", "left"}
        /\ ush'.lpid = 0 /\ ush'.rpid = 0 /\ ush'.jobs = ush.jobs
    <3>1. AfterKey
      BY <1>4 DEF ReadKey
    <3>2. CASE Prompt
      BY <3>2, ReadyFields, PidFacts DEF Prompt, Ready, NoPid, UInv, UshTyped, Steps
    <3>3. CASE Goto("kill") \/ Goto("exit") \/ Goto("left")
      BY <1>3, <3>3 DEF Goto, UInv, UshTyped, Steps
    <3>4. CASE \E fg \in BOOLEAN : ush' = [ush EXCEPT !.step = "run", !.fg = fg]
      BY <1>3, <3>4 DEF UInv, UshTyped, Steps
    <3> QED BY <3>1, <3>2, <3>3, <3>4 DEF AfterKey
  <2>2. StagesKnown' /\ Running'
    BY <2>1 DEF StagesKnown, Running, NoPid
  <2>3. \A c \in UserPids : c \notin Awaited
    BY <1>3, PidFacts DEF Awaited
  <2> QED BY <1>1, <1>3, <1>4, <2>1, <2>2, <2>3, MoveKeepsUInv
<1>5. CASE pc'[USH] = "read"
  <2>1. ush' = ush
    BY <1>5 DEF ReadKey
  <2>2. SleepsInStep'
    BY <1>0, <1>5, <2>1 DEF SleepsInStep
  <2> QED BY <1>1, <2>1, <2>2 DEF Still, UInv, UshTyped, UshLives, Running, StagesKnown, FocusKept,
             OthersGone, Awaited
<1> QED BY <1>2, <1>4, <1>5

\* What ush does after a fork keeps the types, and leaves the child among the
\* awaited or among the jobs.
LEMMA ForkedEffect ==
    ASSUME UInv, ush.step \in {"run", "left", "right"}, NEW pid \in Pids, Forked(pid)
    PROVE  /\ UshTyped' /\ ush'.step \in {"prompt", "right", "give", "wait"}
           /\ ush'.step \in {"prompt", "right"} => ush'.rpid = 0
           /\ ush'.step = "prompt" => ush'.lpid = 0
           /\ ush'.step = "give" => ush'.rpid = pid /\ pid # 0
           /\ \/ pid # 0 /\ ush'.jobs = ush.jobs \cup {pid}
              \/ /\ ush'.jobs = ush.jobs
                 /\ \A c \in UserPids : c \in Awaited \/ c = pid => c \in Awaited'
<1>1. /\ ush \in [step : Steps, fg : BOOLEAN, lpid : Pids, rpid : Pids, jobs : SUBSET Pids]
      /\ ush.rpid = 0 /\ (ush.step \in {"run", "left"} => ush.lpid = 0)
      /\ 0 \in Pids /\ 0 \notin UserPids
  BY PidFacts DEF UInv, UshTyped, StagesKnown, NoPid
<1>2. /\ Ready(ush.jobs \cup {pid}) \in
           [step : Steps, fg : BOOLEAN, lpid : Pids, rpid : Pids, jobs : SUBSET Pids]
      /\ Ready(ush.jobs) \in
           [step : Steps, fg : BOOLEAN, lpid : Pids, rpid : Pids, jobs : SUBSET Pids]
  BY <1>1 DEF Ready, Steps, NoPid
<1>3. CASE ush.step = "run"
  <2>1. CASE pid # 0 /\ ush.fg
    <3>1. ush' = [ush EXCEPT !.step = "give", !.rpid = pid]
      BY <1>3, <2>1 DEF Forked, NoPid
    <3> QED BY <1>1, <1>3, <2>1, <3>1 DEF UshTyped, Steps, Awaited
  <2>2. CASE pid # 0 /\ ~ush.fg
    <3>1. ush' = Ready(ush.jobs \cup {pid})
      BY <1>3, <2>2 DEF Forked, NoPid
    <3> QED BY <1>2, <2>2, <3>1, ReadyFields DEF UshTyped, NoPid
  <2>3. CASE pid = 0
    <3>1. ush' = Ready(ush.jobs)
      BY <1>3, <2>3 DEF Forked, Prompt, NoPid
    <3> QED BY <1>1, <1>2, <1>3, <2>3, <3>1, ReadyFields DEF UshTyped, NoPid, Awaited
  <2> QED BY <2>1, <2>2, <2>3
<1>4. CASE ush.step = "left"
  <2>1. ush' = [ush EXCEPT !.step = "right", !.lpid = pid]
    BY <1>4 DEF Forked
  <2> QED BY <1>1, <1>4, <2>1 DEF UshTyped, Steps, Awaited
<1>5. CASE ush.step = "right"
  <2>1. CASE ush.lpid = 0 /\ pid = 0
    <3>1. ush' = Ready(ush.jobs)
      BY <1>5, <2>1 DEF Forked, Prompt, NoPid
    <3> QED BY <1>1, <1>2, <2>1, <3>1, ReadyFields DEF UshTyped, NoPid, Awaited
  <2>2. CASE ~(ush.lpid = 0 /\ pid = 0)
    <3>1. ush' = [ush EXCEPT !.rpid = pid,
                             !.step = IF 0 \in {ush.lpid, pid} THEN "wait" ELSE "give"]
      BY <1>5, <2>2 DEF Forked, NoPid
    <3>2. /\ ush'.rpid = pid /\ ush'.lpid = ush.lpid /\ ush'.jobs = ush.jobs /\ UshTyped'
          /\ ush'.step = IF 0 \in {ush.lpid, pid} THEN "wait" ELSE "give"
      BY <1>1, <3>1 DEF UshTyped, Steps
    <3> QED BY <1>1, <1>5, <2>2, <3>2 DEF Awaited, NoPid
  <2> QED BY <2>1, <2>2
<1> QED BY <1>3, <1>4, <1>5

\* A fork, one that fails included.
LEMMA ForkKeepsUInv ==
    ASSUME UInv, IInv', Fork
    PROVE  UInv'
<1>0. UshRuns /\ ush.step \in {"run", "left", "right"}
  BY DEF Fork
<1>1. pc[USH] = "run" /\ foreground_process = USH /\ Running /\ USH \in QueuedOrBlocked
  BY <1>0, UshInUserMode DEF UInv, FocusKept, UshLives, Running
<1>2. CASE Forked(next_pid) /\ sys_fork
  <2>1. /\ next_pid \in UserPids /\ next_pid \notin QueuedOrBlocked
        /\ fate[next_pid] = "live"
        /\ QueuedOrBlocked' = QueuedOrBlocked \cup {next_pid}
        /\ parent_pid' = [parent_pid EXCEPT ![next_pid] = USH]
        /\ UNCHANGED <<fate, foreground_process, pc, wait_target>>
    BY <1>0, <1>2, ForkEffect DEF UshRuns
  <2>2. next_pid \in Pids /\ next_pid # 0
    BY <2>1, PidFacts
  <2>3. /\ UshTyped' /\ ush'.step \in {"prompt", "right", "give", "wait"}
        /\ ush'.step \in {"prompt", "right"} => ush'.rpid = 0
        /\ ush'.step = "prompt" => ush'.lpid = 0
        /\ ush'.step = "give" => ush'.rpid = next_pid
        /\ \/ ush'.jobs = ush.jobs \cup {next_pid}
           \/ /\ ush'.jobs = ush.jobs
              /\ \A c \in UserPids : c \in Awaited \/ c = next_pid => c \in Awaited'
    BY <1>0, <1>2, <2>2, ForkedEffect
  <2>4. \A c \in Pids : parent_pid'[c] = IF c = next_pid THEN USH ELSE parent_pid[c]
    BY <2>1, <2>2 DEF UInv, IInv, TypeOK
  <2>5. UshLives' /\ SleepsInStep' /\ FocusKept'
    BY <1>1, <2>1, <2>3 DEF UInv, UshLives, Running, SleepsInStep, FocusKept
  <2>6. StagesKnown'
    BY <2>1, <2>2, <2>3, <2>4 DEF StagesKnown, NoPid
  <2>7. OthersGone'
    <3> SUFFICES ASSUME ush'.jobs = {}, NEW c \in UserPids, parent_pid'[c] = USH, c \notin Awaited'
                 PROVE  c \notin QueuedOrBlocked' /\ fate'[c] # "recorded"
      BY DEF OthersGone
    <3>1. ush.jobs = {} /\ c \notin Awaited /\ c # next_pid
      BY <2>3
    <3>2. parent_pid[c] = USH
      BY <2>4, <3>1, PidFacts
    <3> QED BY <1>1, <2>1, <3>1, <3>2 DEF UInv, OthersGone
  <2> QED BY <2>3, <2>5, <2>6, <2>7 DEF UInv
<1>3. CASE (Forked(NoPid) \/ (ush.step = "left" /\ Prompt)) /\ (CreateFails \/ UNCHANGED vars)
  <2>1. Still /\ pc' = pc
    BY <1>3 DEF CreateFails, Still, QueuedOrBlocked, Queued, vars, procVars, listVars, exitVars,
       otherVars
  <2>2. 0 \in Pids /\ 0 \notin UserPids
    BY PidFacts
  <2>3. CASE Forked(NoPid)
    <3>1. /\ UshTyped' /\ ush'.step \in {"prompt", "right", "give", "wait"}
          /\ ush'.step \in {"prompt", "right"} => ush'.rpid = 0
          /\ ush'.step = "prompt" => ush'.lpid = 0
          /\ ush'.step # "give"
          /\ ush'.jobs = ush.jobs
          /\ \A c \in UserPids : c \in Awaited => c \in Awaited'
      BY <1>0, <2>2, <2>3, ForkedEffect DEF NoPid
    <3>2. StagesKnown' /\ Running'
      BY <3>1 DEF StagesKnown, Running, NoPid
    <3> QED BY <1>1, <2>1, <3>1, <3>2, MoveKeepsUInv
  <2>4. CASE ush.step = "left" /\ Prompt
    <3>1. /\ UshTyped' /\ ush'.step = "prompt" /\ ush'.lpid = 0 /\ ush'.rpid = 0
          /\ ush'.jobs = ush.jobs
      BY <2>2, <2>4, ReadyFields DEF Prompt, Ready, NoPid, UInv, UshTyped, Steps
    <3>2. \A c \in UserPids : c \notin Awaited
      BY <2>2, <2>4 DEF Awaited, UInv, StagesKnown, NoPid
    <3>3. StagesKnown' /\ Running'
      BY <3>1 DEF StagesKnown, Running, NoPid
    <3> QED BY <1>1, <2>1, <3>1, <3>2, <3>3, MoveKeepsUInv
  <2> QED BY <1>3, <2>3, <2>4
<1> QED BY <1>2, <1>3 DEF Fork

\* The last program of the command gets the keyboard, if it is still there.
LEMMA GiveKeepsUInv ==
    ASSUME UInv, IInv', GiveForeground
    PROVE  UInv'
<1>0. UshRuns /\ ush.step = "give" /\ ush' = [ush EXCEPT !.step = "waitpid"]
  BY DEF GiveForeground, Goto
<1>1. /\ pc[USH] = "run" /\ foreground_process = USH /\ Running
      /\ ush.rpid \in UserPids /\ parent_pid[ush.rpid] = USH
  BY <1>0, UshInUserMode DEF UInv, FocusKept, Running, StagesKnown
<1>2. /\ UshTyped' /\ ush'.step = "waitpid" /\ ush'.lpid = ush.lpid /\ ush'.rpid = ush.rpid
      /\ ush'.jobs = ush.jobs
  BY <1>0 DEF UInv, UshTyped, Steps
<1>3. /\ QueuedOrBlocked' = QueuedOrBlocked
      /\ UNCHANGED <<parent_pid, fate, pc, wait_target>>
      /\ \/ foreground_process' = ush.rpid /\ ush.rpid \in QueuedOrBlocked
         \/ foreground_process' = USH
  BY <1>1 DEF GiveForeground, sys_give_foreground, vars, procVars, listVars, exitVars, otherVars,
     QueuedOrBlocked, Queued
<1>4. UshLives' /\ SleepsInStep' /\ StagesKnown' /\ FocusKept'
  BY <1>1, <1>2, <1>3 DEF UInv, UshLives, Running, SleepsInStep, StagesKnown, FocusKept
<1>5. Running' /\ Awaited' = Awaited
  BY <1>0, <1>2 DEF Running, Awaited
<1>6. OthersGone'
  BY <1>1, <1>2, <1>3, <1>5 DEF UInv, OthersGone
<1> QED BY <1>2, <1>4, <1>6 DEF UInv

\* When a wait of ush returns, what ush awaited in it is gone and its exit
\* collected, unless there are jobs in the background whose exits it may have
\* collected instead.
LEMMA WaitLeavesNobody ==
    ASSUME UInv, Wait, pc'[USH] = "run"
    PROVE  /\ \A c \in Pids : fate'[c] = fate[c] \/ fate'[c] = "collected"
           /\ ush.step = "waitpid" => ush.rpid \notin QueuedOrBlocked
           /\ ush.jobs = {} =>
                \A c \in UserPids :
                  /\ parent_pid[c] = USH
                  /\ c \notin IF ush.step = "wait" THEN {} ELSE {ush.lpid}
                  => c \notin QueuedOrBlocked /\ fate'[c] # "recorded"
<1>0. /\ UshRuns /\ ush.step \in {"waitpid", "wait"} /\ Running
      /\ WaitTurn(Target) /\ Target \in Pids
  BY WaitsForTarget DEF Wait, Running
<1>1. /\ QueuedOrBlocked' = QueuedOrBlocked /\ UNCHANGED <<parent_pid, foreground_process>>
      /\ \/ \E c \in UserPids : /\ parent_pid[c] = USH /\ Target \in {0, c}
                                /\ c \notin QueuedOrBlocked /\ fate[c] = "recorded"
                                /\ fate' = [fate EXCEPT ![c] = "collected"]
         \/ /\ fate' = fate
            /\ \A c \in UserPids : parent_pid[c] = USH /\ Target \in {0, c} =>
                                     c \notin QueuedOrBlocked /\ fate[c] # "recorded"
  BY <1>0, WaitEffect
<1>2. /\ ush.step = "waitpid" => /\ ush.rpid \in UserPids /\ parent_pid[ush.rpid] = USH
                                 /\ Target = ush.rpid /\ ush.rpid # 0
      /\ ush.step = "wait" => Target = 0
      /\ UserPids \subseteq Pids /\ 0 \notin UserPids
  BY PidFacts DEF UInv, StagesKnown, Target
<1>3. \A c \in Pids : fate'[c] = fate[c] \/ fate'[c] = "collected"
  BY <1>1 DEF UInv, IInv, TypeOK
<1>4. ush.step = "waitpid" => ush.rpid \notin QueuedOrBlocked
  BY <1>1, <1>2
<1>5. ASSUME ush.jobs = {}, NEW c \in UserPids, parent_pid[c] = USH,
             c \notin IF ush.step = "wait" THEN {} ELSE {ush.lpid}
      PROVE  c \notin QueuedOrBlocked /\ fate'[c] # "recorded"
  <2>1. c \notin Awaited => c \notin QueuedOrBlocked /\ fate[c] # "recorded"
    BY <1>0, <1>5 DEF UInv, OthersGone
  <2>2. CASE fate' = fate /\ \A x \in UserPids : parent_pid[x] = USH /\ Target \in {0, x} =>
                                x \notin QueuedOrBlocked /\ fate[x] # "recorded"
    <3>1. CASE Target \in {0, c}
      BY <1>5, <2>2, <3>1
    <3>2. CASE Target \notin {0, c}
      BY <1>0, <1>2, <1>5, <2>1, <2>2, <3>2 DEF Awaited
    <3> QED BY <3>1, <3>2
  <2>3. ASSUME NEW x \in UserPids, parent_pid[x] = USH, Target \in {0, x},
               x \notin QueuedOrBlocked, fate[x] = "recorded",
               fate' = [fate EXCEPT ![x] = "collected"]
        PROVE  c \notin QueuedOrBlocked /\ fate'[c] # "recorded"
    <3>1. \A y \in Pids : fate'[y] = IF y = x THEN "collected" ELSE fate[y]
      BY <2>3 DEF UInv, IInv, TypeOK
    <3>2. x \in Awaited
      BY <1>0, <1>5, <2>3 DEF UInv, OthersGone
    <3>3. CASE c = x
      BY <1>2, <2>3, <3>1, <3>3
    <3>4. CASE c # x
      <4>1. c \notin Awaited
        <5>1. CASE ush.step = "waitpid"
          BY <1>2, <1>5, <2>3, <3>4, <5>1 DEF Awaited
        <5>2. CASE ush.step = "wait" /\ ush.lpid # 0
          BY <3>2, <3>4, <5>2 DEF Awaited, NoPid
        <5>3. CASE ush.step = "wait" /\ ush.lpid = 0
          BY <1>2, <3>2, <3>4, <5>3 DEF Awaited, NoPid
        <5> QED BY <1>0, <5>1, <5>2, <5>3
      <4> QED BY <1>2, <2>1, <3>1, <3>4, <4>1
    <3> QED BY <3>3, <3>4
  <2> QED BY <1>1, <2>2, <2>3
<1> QED BY <1>3, <1>4, <1>5

\* waitpid and wait.
LEMMA WaitKeepsUInv ==
    ASSUME UInv, IInv', Wait
    PROVE  UInv'
<1>0. /\ UshRuns /\ ush.step \in {"waitpid", "wait"} /\ Running /\ USH \in QueuedOrBlocked
      /\ WaitTurn(Target) /\ Target \in Pids
      /\ QueuedOrBlocked \subseteq Pids /\ 0 \notin UserPids /\ 0 \in Pids
  BY WaitsForTarget, RingFacts, PidFacts DEF Wait, Running, UInv, UshLives
<1>1. /\ QueuedOrBlocked' = QueuedOrBlocked /\ UNCHANGED <<parent_pid, foreground_process>>
      /\ \/ pc'[USH] = "run"
         \/ pc'[USH] = "wait" /\ wait_target'[USH] = Target /\ fate' = fate
  BY <1>0, WaitEffect
<1>2. CASE pc'[USH] # "run"
  <2>1. ush' = ush
    BY <1>2 DEF Wait
  <2>2. SleepsInStep'
    BY <1>0, <1>1, <1>2, <2>1 DEF SleepsInStep, Target
  <2> QED BY <1>1, <1>2, <2>1, <2>2 DEF UInv, UshTyped, UshLives, Running, StagesKnown, FocusKept,
             OthersGone, Awaited
<1>3. CASE pc'[USH] = "run"
  <2>1. /\ \A c \in Pids : fate'[c] = fate[c] \/ fate'[c] = "collected"
        /\ ush.step = "waitpid" => ush.rpid \notin QueuedOrBlocked
        /\ ush.jobs = {} =>
             \A c \in UserPids :
               /\ parent_pid[c] = USH
               /\ c \notin IF ush.step = "wait" THEN {} ELSE {ush.lpid}
               => c \notin QueuedOrBlocked /\ fate'[c] # "recorded"
    BY <1>3, WaitLeavesNobody
  <2>2. /\ UshTyped' /\ ush'.jobs = ush.jobs
        /\ \/ ush'.step = "prompt" /\ ush'.lpid = 0 /\ ush'.rpid = 0
              /\ (ush.step = "wait" \/ ush.lpid = 0)
           \/ ush'.step = "wait" /\ ush.step = "waitpid" /\ ush'.lpid = ush.lpid /\ ush.lpid # 0
    <3>1. CASE Prompt /\ (ush.step = "wait" \/ ush.lpid = 0)
      BY <1>0, <3>1, ReadyFields DEF Prompt, Ready, NoPid, UInv, UshTyped, Steps
    <3>2. CASE Goto("wait") /\ ush.step = "waitpid" /\ ush.lpid # 0
      BY <3>2 DEF Goto, UInv, UshTyped, Steps
    <3> QED BY <1>0, <1>3, <3>1, <3>2 DEF Wait, AfterWaitpid, NoPid
  <2>3. foreground_process = USH
    BY <1>0, <2>1 DEF UInv, FocusKept
  <2>4. Running' /\ UshLives'
    BY <1>0, <1>1, <2>1, <2>2 DEF UInv, UshLives, Running
  <2>5. SleepsInStep' /\ StagesKnown' /\ FocusKept'
    BY <1>1, <1>3, <2>2, <2>3 DEF SleepsInStep, StagesKnown, FocusKept, NoPid
  <2>6. OthersGone'
    <3> SUFFICES ASSUME ush.jobs = {}, NEW c \in UserPids, parent_pid[c] = USH, c \notin Awaited'
                 PROVE  c \notin QueuedOrBlocked /\ fate'[c] # "recorded"
      BY <1>1, <2>2 DEF OthersGone
    <3>1. c \notin IF ush.step = "wait" THEN {} ELSE {ush.lpid}
      BY <1>0, <2>2 DEF Awaited, NoPid
    <3> QED BY <2>1, <3>1
  <2> QED BY <2>2, <2>4, <2>5, <2>6 DEF UInv
<1> QED BY <1>2, <1>3

-----------------------------------------------------------------------------
(* The theorems *)

\* The machine boots with ush at its prompt and the keyboard its own.
LEMMA InitUInv == UshInit => UInv
<1> SUFFICES ASSUME UshInit PROVE UInv
  OBVIOUS
<1>1. IInv /\ Init /\ state[USH] = "READY" /\ ush = Ready({})
  BY InitIInv DEF UshInit
<1>2. /\ ush.step = "prompt" /\ ush.lpid = 0 /\ ush.rpid = 0 /\ ush.jobs = {} /\ UshTyped
  BY <1>1, ReadyFields, PidFacts DEF UshTyped, Ready, NoPid, Steps
<1>3. USH \in Pids /\ USH \in UserPids /\ USH # 0 /\ 0 \notin UserPids /\ 0 \in Pids
  BY BoundsAssumption DEF USH, UserPids, Pids
<1>4. /\ parent_pid = [p \in Pids |-> 0] /\ pc = [p \in Pids |-> "run"]
      /\ fate = [p \in Pids |-> "live"]
  BY <1>1 DEF Init
<1>5. foreground_process = USH
  <2>1. PICK u \in BootOutcomes :
      /\ state = [p \in Pids |-> IF p = KernelTask THEN "RUNNING"
                                 ELSE IF p # 1 \/ u = "missing" THEN "UNUSED"
                                 ELSE IF u = "invalid" THEN "FREED" ELSE "READY"]
      /\ foreground_process = (IF u = "started" THEN 1 ELSE Nobody)
    BY <1>1 DEF Init
  <2>2. u = "started"
    BY <1>1, <1>3, <2>1 DEF BootOutcomes, USH, KernelTask
  <2> QED BY <2>1, <2>2 DEF USH
<1>6. USH \in QueuedOrBlocked /\ QueuedOrBlocked \subseteq Pids
  BY <1>1, <1>3, RingFacts DEF IInv, ListsMatchStates, QueuedOrBlocked
<1>7. \A c \in UserPids : parent_pid[c] # USH
  BY <1>3, <1>4, PidFacts
<1>8. UshLives /\ SleepsInStep /\ StagesKnown /\ FocusKept
  BY <1>2, <1>3, <1>4, <1>5, <1>6 DEF UshLives, Running, SleepsInStep, StagesKnown, FocusKept, NoPid
<1>9. OthersGone
  BY <1>7 DEF OthersGone
<1> QED BY <1>1, <1>2, <1>8, <1>9 DEF UInv

\* Every step keeps the invariant, as long as ush stays up.
LEMMA StepKeepsUInv ==
    ASSUME UInv, [UshNext]_ushVars, UshUp'
    PROVE  UInv'
<1>1. IInv'
  BY UshIsProcess, StepSafe DEF UInv
<1>2. CASE ReadKey
  BY <1>1, <1>2, ReadKeyKeepsUInv
<1>3. CASE KillJob
  BY <1>1, <1>3, KillKeepsUInv
<1>4. CASE Leave
  BY <1>4, EndsUp DEF Leave, UshRuns, UshUp, UInv
<1>5. CASE Fork
  BY <1>1, <1>5, ForkKeepsUInv
<1>6. CASE GiveForeground
  BY <1>1, <1>6, GiveKeepsUInv
<1>7. CASE Wait
  BY <1>1, <1>7, WaitKeepsUInv
<1>8. CASE Program
  BY <1>1, <1>8, EndKeepsUInv, OthersKeepUInv
<1>9. CASE Machine
  BY <1>1, <1>9, OthersKeepUInv
<1>10. CASE UNCHANGED ushVars
  <2>1. Still /\ ush' = ush /\ pc' = pc /\ wait_target' = wait_target
    BY <1>10 DEF ushVars, vars, procVars, listVars, exitVars, otherVars, Still, QueuedOrBlocked,
       Queued
  <2> QED BY <1>1, <2>1, StillKeepsUInv
<1> QED BY <1>2, <1>3, <1>4, <1>5, <1>6, <1>7, <1>8, <1>9, <1>10 DEF UshNext, UshStep

\* A switch leaves the state of everybody else, but for the one that gets the
\* CPU.
LEMMA SwitchLeavesOthers ==
    ASSUME NEW q, NEW st \in [Pids -> ProcessStates], NEW bl, scheduler_switch(q, st, bl),
           NEW p \in Pids, p # current_process
    PROVE  state'[p] = st[p] \/ state'[p] = "RUNNING"
BY DEF scheduler_switch

\* No key is left in the ring while ush sleeps at its prompt.
LEMMA StepKeepsKeys ==
    ASSUME UInv, KeysKept, [UshNext]_ushVars, UshUp'
    PROVE  KeysKept'
<1>1. /\ USH \in Pids /\ state \in [Pids -> ProcessStates] /\ current_process \in Pids
      /\ block_reason \in [Pids -> {"NONE", "WAIT", "READ"}] /\ kbd \in Nat
      /\ state[current_process] = "RUNNING"
  BY UshFacts DEF UInv, IInv, TypeOK
<1>2. AtPrompt => foreground_process = USH
  BY DEF AtPrompt, UInv, FocusKept, Running
\* Steps after which ush does not sleep, or that leave all as it is.
<1>a. ASSUME state'[USH] # "BLOCKED" \/ ~AtPrompt' PROVE KeysKept'
  BY <1>a DEF KeysKept, AtPrompt
<1>b. ASSUME state[USH] = "BLOCKED" \/ state'[USH] # "BLOCKED", ush' = ush, block_reason'[USH] = block_reason[USH],
             kbd' = kbd
      PROVE  KeysKept'
  BY <1>b DEF KeysKept, AtPrompt
<1>3. CASE ReadKey
  <2>1. ReadTurn /\ current_process = USH
    BY <1>3 DEF ReadKey, sys_read, ResumeRead, UshRuns
  <2>2. CASE kbd > 0
    BY <1>1, <1>a, <2>1, <2>2 DEF ReadTurn
  <2>3. CASE kbd = 0
    BY <1>1, <2>1, <2>3 DEF ReadTurn, BlockIn, KeysKept, otherVars
  <2> QED BY <1>1, <2>2, <2>3
<1>4. CASE KillJob
  <2>1. current_process = USH
    BY <1>4 DEF KillJob, UshRuns
  <2>2. ASSUME NEW pid \in Pids, Kill(pid) PROVE state'[USH] # "BLOCKED"
    BY <1>1, <2>1, <2>2 DEF Kill
  <2> QED BY <1>1, <1>4, <1>a, <2>1, <2>2 DEF KillJob, vars, procVars
<1>5. CASE Leave
  BY <1>5, EndsUp DEF Leave, UshRuns, UshUp, UInv
<1>6. CASE Fork
  <2>1. current_process = USH
    BY <1>6 DEF Fork, UshRuns
  <2>2. state'[USH] # "BLOCKED"
    BY <1>1, <1>6, <2>1 DEF Fork, sys_fork, Create, CreateFails, vars, procVars
  <2> QED BY <1>a, <2>2
<1>7. CASE GiveForeground
  <2>1. ush' = [ush EXCEPT !.step = "waitpid"]
    BY <1>7 DEF GiveForeground, Goto
  <2>2. ~AtPrompt'
    BY <2>1 DEF AtPrompt, UInv, UshTyped
  <2> QED BY <1>a, <2>2
<1>8. CASE Wait
  <2>1. WaitTurn(Target) /\ current_process = USH /\ ush.step \in {"waitpid", "wait"}
    BY <1>8, WaitsForTarget DEF Wait, UshRuns
  <2>2. CASE pc'[USH] # "run"
    BY <1>8, <1>a, <2>1, <2>2 DEF Wait, AtPrompt
  <2>3. CASE pc'[USH] = "run"
    <3>1. state' = state
      <4>1. ASSUME BlockIn("wait", "WAIT", Target) PROVE FALSE
        BY <2>1, <2>3, <4>1, <1>1 DEF BlockIn, UInv, IInv, TypeOK
      <4> QED BY <2>1, <4>1 DEF WaitTurn
    <3> QED BY <1>1, <1>a, <2>1, <3>1
  <2> QED BY <2>2, <2>3
<1>9. CASE Program /\ ~End
  <2>1. current_process # USH /\ ush' = ush /\ ReadTurn
    BY <1>9 DEF Program, sys_read, ResumeRead
  <2>2. CASE kbd = 0
    <3> DEFINE st == [state EXCEPT ![current_process] = "BLOCKED"]
    <3>1. st \in [Pids -> ProcessStates] /\ st[USH] = state[USH]
      BY <1>1, <2>1 DEF ProcessStates
    <3>2. /\ scheduler_switch(ready_queue, st, blocked_list) /\ kbd' = kbd
          /\ block_reason' = [block_reason EXCEPT ![current_process] = "READ"]
      BY <2>1, <2>2 DEF ReadTurn, BlockIn, otherVars
    <3> HIDE DEF st
    <3>3. state'[USH] = st[USH] \/ state'[USH] = "RUNNING"
      BY <1>1, <2>1, <3>1, <3>2, SwitchLeavesOthers
    <3> QED BY <1>1, <1>b, <2>1, <3>1, <3>2, <3>3
  <2>3. CASE kbd > 0
    BY <1>1, <1>a, <2>1, <2>3 DEF ReadTurn, KeysKept, AtPrompt
  <2> QED BY <1>1, <2>2, <2>3
<1>10. CASE Program /\ End
  <2>1. PICK code : process_exit(code)
    BY <1>10 DEF End
  <2> DEFINE p == current_process
             W == IF parent_pid[p] = 0 THEN {} ELSE Waiters(p)
             st == WokenState([state EXCEPT ![p] = "DEAD"], W)
  <2>2. /\ scheduler_switch(WokenQueue(W), st, blocked_list \ W) /\ kbd' = kbd
        /\ block_reason' = WokenReason(W) /\ ush' = ush /\ p # USH
    BY <1>10, <2>1 DEF process_exit, Program
  <2>3. /\ st \in [Pids -> ProcessStates]
        /\ st[USH] = IF USH \in W THEN "READY" ELSE state[USH]
        /\ block_reason'[USH] = IF USH \in W THEN "NONE" ELSE block_reason[USH]
    BY <1>1, <2>2 DEF WokenState, WokenReason, ProcessStates
  <2> HIDE DEF W, st
  <2>4. state'[USH] = st[USH] \/ state'[USH] = "RUNNING"
    BY <1>1, <2>2, <2>3, SwitchLeavesOthers
  <2> QED BY <1>a, <1>b, <2>2, <2>3, <2>4
<1>11. CASE Machine /\ deliver_char
  <2> DEFINE W == {x \in {foreground_process} : state[x] = "BLOCKED" /\ block_reason[x] = "READ"}
  <2>1. state' = WokenState(state, W) /\ block_reason' = WokenReason(W) /\ ush' = ush
    BY <1>11 DEF deliver_char, Machine
  <2>2. /\ state'[USH] = IF USH \in W THEN "READY" ELSE state[USH]
        /\ block_reason'[USH] = IF USH \in W THEN "NONE" ELSE block_reason[USH]
    BY <1>1, <2>1 DEF WokenState, WokenReason
  <2>3. AtPrompt /\ state[USH] = "BLOCKED" => USH \in W
    BY <1>2 DEF KeysKept
  <2> HIDE DEF W
  <2> QED BY <1>a, <2>1, <2>2, <2>3 DEF AtPrompt
<1>12. CASE Machine /\ scheduler_tick
  <2>1. kbd' = kbd /\ block_reason' = block_reason /\ ush' = ush
    BY <1>12 DEF scheduler_tick, Machine
  <2>2. CASE scheduler_switch(ready_queue, state, blocked_list)
    <3>1. CASE USH # current_process
      BY <1>1, <1>b, <2>1, <2>2, <3>1, SwitchLeavesOthers
    <3>2. CASE USH = current_process
      <4>1. state'[USH] \in {"RUNNING", "READY"}
        BY <1>1, <2>2, <3>2 DEF scheduler_switch, OffQueue
      <4> QED BY <1>a, <4>1
    <3> QED BY <3>1, <3>2
  <2>3. CASE state' = state
    BY <1>b, <2>1, <2>3
  <2> QED BY <1>12, <2>2, <2>3 DEF scheduler_tick
<1>13. CASE Machine /\ (ReapDetach \/ ReapDestroy)
  <2>1. kbd' = kbd /\ block_reason' = block_reason /\ ush' = ush
    BY <1>13 DEF ReapDetach, ReapDestroy, Machine, procVars
  <2>2. state[USH] = "BLOCKED" \/ state'[USH] # "BLOCKED"
    BY <1>1, <1>13 DEF ReapDetach, ReapDestroy, procVars
  <2> QED BY <1>b, <2>1, <2>2
<1>14. CASE UNCHANGED ushVars
  <2>1. kbd' = kbd /\ block_reason' = block_reason /\ ush' = ush /\ state' = state
    BY <1>14 DEF ushVars, vars, procVars, otherVars
  <2> QED BY <1>b, <2>1
<1> QED BY <1>3, <1>4, <1>5, <1>6, <1>7, <1>8, <1>9, <1>10, <1>11, <1>12, <1>13, <1>14
        DEF UshNext, UshStep, Machine

\* ush.c on top of process.c, scheduler.c and syscall.c: until ush exits or
\* kills itself it is on a list of the scheduler, the keyboard is with it or
\* with the program that it waits for, it does not sleep at its prompt with a
\* key in the ring, and without jobs in the background the only children left
\* are those it awaits.
THEOREM UshInvariance == UshSpec => []UshSafe
<1>1. UshInit => UshSafe
  <2> SUFFICES ASSUME UshInit PROVE UshSafe
    OBVIOUS
  <2>1. UInv
    BY InitUInv
  <2>2. KeysKept
    BY DEF UshInit, KeysKept
  <2> QED BY <2>1, <2>2 DEF UshSafe, UInv
<1>2. UshSafe /\ [UshNext]_ushVars => UshSafe'
  <2> SUFFICES ASSUME UshSafe, [UshNext]_ushVars PROVE UshSafe'
    OBVIOUS
  <2>1. IInv /\ UshTyped /\ [Next]_vars
    BY UshIsProcess DEF UshSafe
  <2>2. IInv' /\ UshTyped'
    BY <2>1, StepSafe, TypesKept
  <2>3. ASSUME UshUp' PROVE UInv' /\ KeysKept'
    <3>1. USH \in Pids
      BY BoundsAssumption DEF USH, Pids
    <3>2. UshUp
      BY <2>1, <2>3, <3>1, FateIsFinal DEF UshUp
    <3> QED BY <2>3, <3>2, StepKeepsUInv, StepKeepsKeys DEF UshSafe
  <2> QED BY <2>2, <2>3 DEF UshSafe
<1> QED BY <1>1, <1>2, PTL DEF UshSpec

\* readline, run_simple and run_pipe of user/ush.c: until ush leaves or kills
\* itself, whenever it is at its prompt it has the keyboard and has seen every
\* key, and the programs of its last command have ended, in whatever order they
\* ran, took the keyboard, ended and were reaped.
THEOREM PromptAlwaysReady == UshSpec => []PromptReady
<1>1. UshSafe => PromptReady
  <2> SUFFICES ASSUME UshSafe, UshUp PROVE FocusBack /\ KeysSeen /\ StagesDone
    BY DEF PromptReady
  <2>0. UInv /\ KeysKept
    BY DEF UshSafe
  <2> SUFFICES ASSUME AtPrompt PROVE FocusBack /\ KeysSeen /\ StagesDone
    BY DEF FocusBack, KeysSeen, StagesDone
  <2>1. ush.step = "prompt" /\ ush.lpid = 0 /\ ush.rpid = 0 /\ Running
    BY <2>0 DEF AtPrompt, UInv, StagesKnown, Running, NoPid
  <2>2. foreground_process = USH
    BY <2>0, <2>1 DEF UInv, FocusKept
  <2>3. ush.jobs = {} => \A c \in UserPids : parent_pid[c] = USH => c \notin QueuedOrBlocked
    BY <2>0, <2>1, PidFacts DEF UInv, OthersGone, Awaited
  <2> QED BY <2>0, <2>2, <2>3 DEF FocusBack, KeysSeen, KeysKept, StagesDone
<1> QED BY <1>1, UshInvariance, PTL

\* The invariants of module Process hold of a machine whose process 1 is ush.
THEOREM UshKeepsProcesses == UshSpec => []IInv
<1>1. UshSafe => IInv
  BY DEF UshSafe
<1> QED BY <1>1, UshInvariance, PTL
=============================================================================
