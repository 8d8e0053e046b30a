-------------------------------- MODULE Ush --------------------------------
(***************************************************************************)
(* The user shell (user/ush.c) at work: module Process with process 1      *)
(* following the calls of readline, run_simple and run_pipe, and with      *)
(* programs that read the keyboard and exit when they please.              *)
(*                                                                         *)
(* What the lines say does not matter here: a line may be any command.     *)
(* The pipe between the programs is in module Pipes.                       *)
(***************************************************************************)
EXTENDS Process

USH == 1

VARIABLE
    ush               \* step: the call ush makes next; fg: if it will wait for
                      \* the program; lpid, rpid: what the forks returned;
                      \* jobs: all it has started without waiting

ushVars == <<vars, ush>>

NoPid == 0                       \* a fork that failed

Ready(jobs) ==
    [step |-> "prompt", fg |-> FALSE, lpid |-> NoPid, rpid |-> NoPid, jobs |-> jobs]

UshInit ==
    /\ Init /\ state[USH] = "READY"
    /\ ush = Ready({})

Stages == {ush.lpid, ush.rpid} \ {NoPid}

UshRuns == current_process = USH
Goto(step) == ush' = [ush EXCEPT !.step = step]
Prompt     == ush' = Ready(ush.jobs)
-----------------------------------------------------------------------------
(* readline and dispatch *)

\* A new line starts a program in the foreground or in the background, two
\* programs with a pipe, kills a process, or ends the shell.  Every other
\* command, and every other key, ends at the next read.
AfterKey ==
    \/ Prompt
    \/ Goto("kill")
    \/ Goto("exit")
    \/ \E fg \in BOOLEAN : ush' = [ush EXCEPT !.step = "run", !.fg = fg]
    \/ Goto("left")

\* sys_readraw of one character.
ReadKey ==
    /\ UshRuns /\ ush.step = "prompt"
    /\ sys_read \/ ResumeRead
    /\ IF pc'[USH] = "run" THEN AfterKey ELSE UNCHANGED ush

\* cmd_kill refuses pid 0 alone, which the kernel refuses too.  A shell that
\* names itself loses the keyboard and goes on until the next tick takes it
\* off the CPU, or for good if it goes to sleep before.
KillJob ==
    /\ UshRuns /\ InUserMode /\ ush.step = "kill" /\ Prompt
    /\ \/ \E pid \in Pids : Kill(pid)
       \/ UNCHANGED vars                  \* no such process

\* exit and reboot.
Leave == UshRuns /\ InUserMode /\ ush.step = "exit" /\ process_exit(0) /\ Goto("gone")
-----------------------------------------------------------------------------
(* run_simple and run_pipe *)

\* What comes after a fork that returned pid.
Forked(pid) ==
    \/ /\ ush.step = "run" /\ pid # NoPid
       /\ ush' = IF ush.fg THEN [ush EXCEPT !.step = "give", !.rpid = pid]
                           ELSE Ready(ush.jobs \cup {pid})
    \/ ush.step = "run" /\ pid = NoPid /\ Prompt
    \/ ush.step = "left" /\ ush' = [ush EXCEPT !.step = "right", !.lpid = pid]
    \/ /\ ush.step = "right"
       /\ IF ush.lpid = NoPid /\ pid = NoPid THEN Prompt
          ELSE ush' = [ush EXCEPT !.rpid = pid,
                                  !.step = IF NoPid \in {ush.lpid, pid} THEN "wait" ELSE "give"]

\* Out of memory, with or without having used up a pid; or the call of pipe()
\* before the first fork fails.
Fork ==
    /\ UshRuns /\ ush.step \in {"run", "left", "right"}
    /\ \/ Forked(next_pid) /\ sys_fork
       \/ Forked(NoPid) /\ (CreateFails \/ UNCHANGED vars)
       \/ ush.step = "left" /\ Prompt /\ UNCHANGED vars

\* give_foreground fails when the program is gone already.
GiveForeground ==
    /\ UshRuns /\ ush.step = "give" /\ Goto("waitpid")
    /\ IF ush.rpid \in QueuedOrBlocked
       THEN sys_give_foreground /\ foreground_process' = ush.rpid
       ELSE UNCHANGED vars

\* waitpid for the last program, then, in a pipeline, wait for any child.
AfterWaitpid_NoWait == Prompt
AfterWaitpid == IF ush.lpid = NoPid THEN Prompt ELSE Goto("wait")

Wait ==
    /\ UshRuns /\ ush.step \in {"waitpid", "wait"}
    /\ \/ InUserMode /\ WaitTurn(IF ush.step = "wait" THEN 0 ELSE ush.rpid)
       \/ ResumeWait
    /\ IF pc'[USH] # "run" THEN UNCHANGED ush
       ELSE IF ush.step = "wait" THEN Prompt ELSE AfterWaitpid
-----------------------------------------------------------------------------
(* The rest of the machine *)

\* A program reads the terminal or ends, with whatever code.
End == InUserMode /\ \E code \in Codes : process_exit(code)
Program == current_process # USH /\ (End \/ sys_read \/ ResumeRead) /\ UNCHANGED ush

Machine == (deliver_char \/ scheduler_tick \/ ReapDetach \/ ReapDestroy) /\ UNCHANGED ush

UshStep == KillJob \/ Leave \/ Fork \/ GiveForeground \/ Wait

UshNext == ReadKey \/ UshStep \/ Program \/ Machine

\* As in Process; and the shell goes on while it has the CPU, which it gets
\* again and again.
UshSpec == UshInit /\ [][UshNext]_ushVars /\ Fairness /\ SF_ushVars(UshStep)
-----------------------------------------------------------------------------
AtPrompt == ush.step = "prompt"

\* ush has neither left nor been told to kill itself.
UshUp == fate[USH] = "live"

\* When ush shows its prompt the keyboard is its own, whatever the order in
\* which the program got the focus, ended and was waited for ("so a
\* user-space shell regains its prompt after its foreground child exits").
FocusBack == AtPrompt => foreground_process = USH

\* A key that was pressed does not lie in the ring while ush sleeps at its
\* prompt: deliver_char wakes nobody but the owner of the keyboard.
KeysSeen == AtPrompt /\ state[USH] = "BLOCKED" => kbd = 0

\* And the programs it was waiting for have ended, both stages of a pipeline:
\* with no job in the background, the wait for any child waits for the stage
\* that is left.
StagesDone == AtPrompt /\ ush.jobs = {} =>
                \A c \in UserPids : parent_pid[c] = USH => c \notin QueuedOrBlocked

\* All this of a shell that has not killed itself: after `kill 1' it may show
\* its prompt once more, without the keyboard.
PromptReady == UshUp => FocusBack /\ KeysSeen /\ StagesDone

\* Once the programs of a command have ended the prompt comes back, unless the
\* exit table has dropped the exit of a child or the shell has killed itself.
PromptReturns ==
    (~AtPrompt /\ ush.step \in {"give", "waitpid", "wait"}
       /\ \A c \in Stages : state[c] \in {"DEAD", "FREED"})
      ~> (AtPrompt \/ ~UshUp \/ \E c \in UserPids : fate[c] = "overwritten")
=============================================================================
