------------------------------- MODULE Scheduler -------------------------------
(***************************************************************************)
(* The process table, the round-robin scheduler and the timer interrupt of *)
(* SabakaOS (kernel/scheduler.cpp, pit.cpp, irq_handler of idt.cpp, the    *)
(* int 0x80 entry, cmd_spawn / cmd_exec / cmd_kill of the shell).          *)
(*                                                                         *)
(* One CPU.  A step of this module is a stretch of code that no interrupt  *)
(* can cut: a section between cli and sti, an interrupt handler (gates     *)
(* clear IF), or one access of code that runs with IF = 1.  The rest of a  *)
(* process' own computation changes nothing here and is not modelled.      *)
(*                                                                         *)
(* Time is relative: left[p] is max(0, sleep_until - pit_tick_count), which *)
(* is what `now >= sleep_until` tells apart while pit_tick_count has not   *)
(* wrapped (49.7 days at 1000 Hz).                                         *)
(***************************************************************************)
EXTENDS Integers, FiniteSets

CONSTANTS
  PROC_MAX,       \* slots of the process table
  TIME_SLICE,     \* ticks a process may run before it is preempted
  SleepTicks,     \* the durations processes sleep for, in ticks
  MaxPid,         \* bound: pids handed out by each of the two counters
  ShellCommands,  \* which of cmd_spawn and cmd_exec a user can type
  Meddling,       \* whether anyone calls cmd_kill, process_block, process_unblock
  SlowBoot        \* whether kernel_main may need a whole time slice to start the
                  \* threads and reach its hlt loop, as on a stalled emulator

ASSUME SchedulerAssumption ==
  /\ PROC_MAX \in Nat \ {0}
  /\ TIME_SLICE \in Nat \ {0}
  /\ SleepTicks \subseteq Nat
  /\ MaxPid \in Nat
  /\ ShellCommands \subseteq {"spawn", "exec"}
  /\ Meddling \in BOOLEAN
  /\ SlowBoot \in BOOLEAN

VARIABLES
  state,        \* state[s]: procs[s].state
  current,      \* current_idx
  ctx,          \* ctx[s]: where the stack saved in procs[s].esp resumes
  cpu,          \* what the code now on the CPU is doing
  interrupted,  \* what the shell's interrupt handler cut, while it runs
  ifl,          \* the CPU's interrupt flag
  inService,    \* IRQ0 is in service in the PIC: its EOI is outstanding
  slice,        \* slice[s]: procs[s].ticks_slice, saturating at TIME_SLICE
  left,         \* left[s]: ticks until procs[s].sleep_until
  pid,          \* pid[s]: procs[s].pid
  isUser,       \* isUser[s]: procs[s].is_user
  nextPid,      \* the next_pid of process_create and process_create_user
  build,        \* build[s]: the slot the code of s is filling in, or NoSlot
  meddled       \* history: some process was killed, blocked or unblocked

procVars == <<state, ctx, slice, left, pid, isUser>>
cpuVars  == <<current, cpu, interrupted, ifl, inService>>
makeVars == <<nextPid, build>>
vars     == <<procVars, cpuVars, makeVars, meddled>>

Slots  == 0 .. PROC_MAX - 1
Idle   == 0
NoSlot == -1

States == {"DEAD", "READY", "RUNNING", "BLOCKED", "SLEEP"}
Modes  == {"boot", "idle", "thread", "user", "syscall", "sysret", "irq", "lost"}
Kinds  == {"kernel", "user"}

\* How a saved stack resumes: at proc_entry, after do_switch in
\* scheduler_yield, or after scheduler_tick in irq_handler.
Resumes == {"none", "entry", "yield", "tick"}

\* A slot without a stack, or with that of a process that has exited: a CPU
\* that is switched to it runs off into nowhere.
NoContext == [at |-> "none", mode |-> "lost"]

-----------------------------------------------------------------------------
(* find_next and do_switch                                                  *)

\* Faulty variants, here and below, stand before the definition they break.
WokenTooSoon(st, lf) ==
  [s \in Slots |-> IF st[s] = "SLEEP" /\ lf[s] <= 1 THEN "READY" ELSE st[s]]

WokenButLast(st, lf) ==
  [s \in Slots |-> IF st[s] = "SLEEP" /\ lf[s] = 0 /\ s < PROC_MAX - 1
                   THEN "READY" ELSE st[s]]

\* The states after find_next has woken every sleeper whose time has come.
Woken(st, lf) ==
  [s \in Slots |-> IF st[s] = "SLEEP" /\ lf[s] = 0 THEN "READY" ELSE st[s]]

DistanceFromCurrent(s) ==
  IF s >= current THEN s - current ELSE s - current + PROC_MAX

DistanceFromZero(s) == s

\* The i at which the loop of find_next looks at s: current_idx comes last.
Distance(s) == IF s > current THEN s - current ELSE s - current + PROC_MAX

\* n is the slot find_next returns when the states are st.
IsNext(st, n) ==
  \/ /\ st[n] = "READY"
     /\ \A s \in Slots : st[s] = "READY" => Distance(n) <= Distance(s)
  \/ /\ \A s \in Slots : st[s] # "READY"
     /\ n = IF st[Idle] = "RUNNING" THEN Idle ELSE current

EoiLost(how, n) == how = "tick" \/ inService

EoiFirst(how, n) == FALSE

\* irq_handler sends the EOI after scheduler_tick has returned, so a process
\* preempted by a tick owes it until it is resumed.
InServiceAfter(how, n) == (how = "tick" \/ inService) /\ ctx[n].at # "tick"

\* do_switch: slot n gets the CPU, the states being st, the slices sl and the
\* running code, which was doing what mode says, being suspended as how says.
\* Each of the three ways a process resumes enables interrupts.
SwitchTo(n, st, sl, how, mode) ==
  /\ state' = [st EXCEPT ![current] = IF @ = "RUNNING" THEN "READY" ELSE @,
                         ![n] = "RUNNING"]
  /\ slice' = [sl EXCEPT ![n] = 0]
  /\ ctx' = [ctx EXCEPT ![current] = [at |-> how, mode |-> mode]]
  /\ current' = n
  /\ cpu' = ctx[n].mode
  /\ ifl' = (ctx[n].mode # "lost")
  /\ inService' = InServiceAfter(how, n)
  /\ UNCHANGED <<interrupted, pid, isUser, makeVars, meddled>>

\* find_next returned current_idx: the running code goes on.
GoOn(st, sl, mode) ==
  /\ state' = st
  /\ slice' = sl
  /\ cpu' = mode
  /\ ifl' = TRUE
  /\ UNCHANGED <<current, ctx, interrupted, inService, pid, isUser>>
  /\ UNCHANGED <<makeVars, meddled>>

\* find_next, and the switch if it found another slot.
Dispatch(st, lf, sl, how, mode) ==
  \E n \in Slots :
    /\ IsNext(Woken(st, lf), n)
    /\ \/ n # current /\ SwitchTo(n, Woken(st, lf), sl, how, mode)
       \/ n = current /\ GoOn(Woken(st, lf), sl, mode)

\* scheduler_yield, called with the states st; the code goes on in mode.
Yield(st, lf, mode) ==
  /\ left' = lf
  /\ Dispatch(st, lf, slice, "yield", mode)

-----------------------------------------------------------------------------
(* The timer interrupt                                                      *)

\* The CPU takes IRQ0: interrupts are on and the PIC has none in service.
CanTick == ifl /\ ~inService

TickedPastZero(lf) == [s \in Slots |-> lf[s] - 1]

Ticked(lf) == [s \in Slots |-> IF lf[s] > 0 THEN lf[s] - 1 ELSE 0]
Charged ==
  [slice EXCEPT ![current] = IF @ < TIME_SLICE THEN @ + 1 ELSE TIME_SLICE]

\* The condition of scheduler_tick.
MustSwitch ==
  \/ Charged[current] >= TIME_SLICE
  \/ state[current] \in {"DEAD", "SLEEP", "BLOCKED"}

\* A tick that leaves the process running: pit_tick, scheduler_tick, EOI.
TickOnly ==
  /\ CanTick
  /\ ~MustSwitch
  /\ left' = Ticked(left)
  /\ slice' = Charged
  /\ UNCHANGED <<state, ctx, pid, isUser, cpuVars, makeVars, meddled>>

\* A tick that calls find_next; the EOI comes only once the call returns.
TickSwitch ==
  /\ CanTick
  /\ MustSwitch
  /\ cpu = "boot" => SlowBoot
  /\ left' = Ticked(left)
  /\ Dispatch(state, Ticked(left), Charged, "tick", cpu)

-----------------------------------------------------------------------------
(* What kernel threads and user processes do                                *)

\* The running code is not in the middle of creating a process.
Free == build[current] = NoSlot

\* process_sleep.
Sleep(d, mode) ==
  Yield([state EXCEPT ![current] = "SLEEP"], [left EXCEPT ![current] = d], mode)

\* process_exit: the slot is free again.  Were nothing else schedulable, the
\* caller would halt with interrupts off; IdleSchedulable excludes that.
Exit ==
  LET st == Woken([state EXCEPT ![current] = "DEAD"], left)
  IN  /\ \E n \in Slots \ {current} :
           IsNext(st, n) /\ SwitchTo(n, st, slice, "yield", "lost")
      /\ UNCHANGED left

\* A kernel thread waits for a mutex, a semaphore or a pipe.
ThreadYield == cpu = "thread" /\ Yield(state, left, "thread")

ThreadSleep == cpu = "thread" /\ \E d \in SleepTicks : Sleep(d, "thread")

\* A kernel thread returns to proc_entry, or calls process_exit itself.
ThreadExit == cpu = "thread" /\ Exit

\* int 0x80: its gate (idt.cpp) is an interrupt gate, so the CPU clears IF, though
\* isr128.asm:9-10 says "Keeping interrupts enabled lets the PIT fire normally
\* during syscalls".
Syscall ==
  /\ cpu = "user"
  /\ cpu' = "syscall"
  /\ ifl' = FALSE
  /\ UNCHANGED <<procVars, current, interrupted, inService, makeVars, meddled>>

\* sys_nanosleep; the process resumes inside the system call with IF = 1.
SyscallSleep ==
  /\ cpu = "syscall" /\ Free
  /\ \E d \in SleepTicks : Sleep(d, "sysret")

SyscallExit == cpu = "syscall" /\ Free /\ Exit

\* The iret of isr128 restores the caller's IF = 1.
SyscallReturn ==
  /\ cpu \in {"syscall", "sysret"} /\ Free
  /\ cpu' = "user"
  /\ ifl' = TRUE
  /\ UNCHANGED <<procVars, current, interrupted, inService, makeVars, meddled>>

-----------------------------------------------------------------------------
(* Creation of processes                                                    *)

PidReused(kind) == nextPid

\* The counters after one of them has been read with next_pid++.
PidTaken(kind) == [nextPid EXCEPT ![kind] = @ + 1]

\* process_create and process_create_user, up to the first allocation: the
\* first DEAD slot gets a pid and is READY before it has a stack.
Reserve(kind) ==
  \E s \in Slots :
    /\ state[s] = "DEAD"
    /\ \A t \in Slots : state[t] = "DEAD" => s <= t
    /\ nextPid[kind] <= MaxPid
    /\ state' = [state EXCEPT ![s] = "READY"]
    /\ pid' = [pid EXCEPT ![s] = nextPid[kind]]
    /\ nextPid' = PidTaken(kind)
    /\ isUser' = [isUser EXCEPT ![s] = (kind = "user")]
    /\ slice' = [slice EXCEPT ![s] = 0]
    /\ left' = [left EXCEPT ![s] = 0]
    /\ build' = [build EXCEPT ![current] = s]

\* kernel_main starts its threads.  Interrupts are on since idt_flush, so a
\* tick can come before CreateEnd.
BootCreate ==
  /\ cpu = "boot" /\ Free
  /\ Reserve("kernel")
  /\ UNCHANGED <<ctx, cpuVars, meddled>>

\* kernel_main is done, and hlt for ever is all that is left of it.
BootDone ==
  /\ cpu = "boot" /\ Free
  /\ cpu' = "idle"
  /\ UNCHANGED <<procVars, current, interrupted, ifl, inService, makeVars, meddled>>

\* sys_execve.
SyscallExecve ==
  /\ cpu = "syscall" /\ Free
  /\ Reserve("user")
  /\ UNCHANGED <<ctx, cpuVars, meddled>>

\* The keyboard's interrupt can come, and kernel_main has connected the shell.
ShellReady == ifl /\ ~inService /\ cpu # "boot"

ShellCreateNested(kind) ==
  /\ ShellReady
  /\ (IF kind = "user" THEN "exec" ELSE "spawn") \in ShellCommands
  /\ Reserve(kind)
  /\ cpu' = "irq"
  /\ interrupted' = cpu
  /\ UNCHANGED <<ctx, current, ifl, inService, meddled>>

\* cmd_spawn and cmd_exec run inside the keyboard's interrupt handler, on the
\* stack of whatever process was interrupted.
ShellCreate(kind) ==
  /\ ShellReady
  /\ (IF kind = "user" THEN "exec" ELSE "spawn") \in ShellCommands
  /\ Reserve(kind)
  /\ cpu' = "irq"
  /\ interrupted' = cpu
  /\ ifl' = FALSE
  /\ UNCHANGED <<ctx, current, inService, meddled>>

\* What the creator goes on with: a system call returns to dispatch, the
\* interrupt handler returns to the code it cut.
AfterCreate ==
  CASE cpu = "irq" -> interrupted
    [] cpu = "syscall" -> "sysret"
    [] OTHER -> cpu

\* The end of process_create: the stacks exist and esp points to proc_entry,
\* or an allocation failed and the slot is given back.
CreateEnd ==
  LET s == build[current]
  IN  /\ s # NoSlot
      /\ \/ /\ ctx' = [ctx EXCEPT ![s] =
                 [at |-> "entry", mode |-> IF isUser[s] THEN "user" ELSE "thread"]]
            /\ UNCHANGED state
         \/ /\ state' = [state EXCEPT ![s] = "DEAD"]
            /\ UNCHANGED ctx
      /\ build' = [build EXCEPT ![current] = NoSlot]
      /\ cpu' = AfterCreate
      /\ ifl' = (ifl \/ cpu = "irq")
      /\ interrupted' = "boot"
      /\ UNCHANGED <<slice, left, pid, isUser, nextPid, current, inService, meddled>>

-----------------------------------------------------------------------------
(* Meddling with processes from outside.  The shell is not connected to the *)
(* keyboard at this commit (kernel.cpp:273) and nothing calls process_block, *)
(* but the operations exist; meddled remembers that one was used.           *)

\* Slot s, chosen from outside, is put in state st.
Meddle(s, st) ==
  /\ Meddling
  /\ state' = [state EXCEPT ![s] = st]
  /\ meddled' = TRUE
  /\ UNCHANGED <<ctx, slice, left, pid, isUser, cpuVars, makeVars>>

ShellKillAny ==
  ShellReady /\ \E s \in Slots : state[s] # "DEAD" /\ Meddle(s, "DEAD")

\* cmd_kill, in the keyboard's interrupt handler: the first live slot with
\* that pid is marked DEAD and nothing else.
ShellKill ==
  /\ ShellReady
  /\ \E s \in Slots :
       /\ pid[s] # 0 /\ state[s] # "DEAD"
       /\ \A t \in Slots : t < s => pid[t] # pid[s] \/ state[t] = "DEAD"
       /\ Meddle(s, "DEAD")

\* process_block, by a kernel thread, of itself or of another process.
Block ==
  /\ cpu = "thread"
  /\ \E s \in Slots \ {Idle} : state[s] # "DEAD" /\ Meddle(s, "BLOCKED")

\* process_unblock.
Unblock ==
  /\ cpu = "thread"
  /\ \E s \in Slots : state[s] = "BLOCKED" /\ Meddle(s, "READY")

-----------------------------------------------------------------------------
(* scheduler_init has run and kernel_main is about to create its threads.   *)
Init ==
  /\ state = [s \in Slots |-> IF s = Idle THEN "RUNNING" ELSE "DEAD"]
  /\ current = Idle
  /\ ctx = [s \in Slots |-> NoContext]
  /\ cpu = "boot"
  /\ interrupted = "boot"
  /\ ifl = TRUE
  /\ inService = FALSE
  /\ slice = [s \in Slots |-> 0]
  /\ left = [s \in Slots |-> 0]
  /\ pid = [s \in Slots |-> 0]
  /\ isUser = [s \in Slots |-> FALSE]
  /\ nextPid = [k \in Kinds |-> 1]
  /\ build = [s \in Slots |-> NoSlot]
  /\ meddled = FALSE

Thread == ThreadYield \/ ThreadSleep \/ ThreadExit
User   == Syscall \/ SyscallSleep \/ SyscallExit \/ SyscallReturn \/ SyscallExecve
Meddler == ShellKill \/ Block \/ Unblock

Next ==
  \/ BootCreate \/ BootDone
  \/ TickOnly \/ TickSwitch
  \/ Thread \/ User
  \/ \E kind \in Kinds : ShellCreate(kind)
  \/ CreateEnd
  \/ Meddler

Spec == Init /\ [][Next]_vars

(***************************************************************************)
(* Fairness.  The PIT keeps raising IRQ0 and the PIC latches it, so a tick *)
(* that can be taken again and again is taken.  Straight-line kernel code  *)
(* goes on.  Every kernel thread of this system leaves the CPU after a     *)
(* bounded computation: it sleeps, waits for a mutex or exits.  Nothing is *)
(* assumed of user programs here.                                          *)
(***************************************************************************)
KernelFairness ==
  /\ SF_vars(TickOnly \/ TickSwitch)
  /\ WF_vars(BootDone)
  /\ WF_vars(CreateEnd)
  /\ WF_vars(SyscallReturn)
  /\ \A s \in Slots : WF_vars(current = s /\ Thread)

FairSpec == Spec /\ KernelFairness

-----------------------------------------------------------------------------
(* Properties                                                               *)

\* Every variable has its type.
TypeOK ==
  /\ state \in [Slots -> States]
  /\ current \in Slots
  /\ ctx \in [Slots -> [at : Resumes, mode : Modes]]
  /\ cpu \in Modes
  /\ interrupted \in Modes
  /\ ifl \in BOOLEAN
  /\ inService \in BOOLEAN
  /\ slice \in [Slots -> 0 .. TIME_SLICE]
  /\ left \in [Slots -> Nat]
  /\ pid \in [Slots -> Nat]
  /\ isUser \in [Slots -> BOOLEAN]
  /\ nextPid \in [Kinds -> Nat]
  /\ build \in [Slots -> Slots \cup {NoSlot}]
  /\ meddled \in BOOLEAN

\* Only the process on the CPU can be RUNNING, whatever is killed, blocked or
\* created meanwhile; and unless someone meddled it is: no sleeping or dead
\* process goes on executing because nothing else could be scheduled.
CurrentRuns ==
  /\ \A s \in Slots : state[s] = "RUNNING" => s = current
  /\ ~meddled => state[current] = "RUNNING"

\* The kernel's own process stays schedulable, so find_next always has an
\* answer: nobody can kill it, and it never blocks.
IdleSchedulable == state[Idle] \in {"READY", "RUNNING"}

\* The processes that tick suspended and that still owe the PIC its EOI.
EoiOwed == {s \in Slots : s # current /\ state[s] # "DEAD" /\ ctx[s].at = "tick"}

\* IRQ0 is in service exactly while one process owes the EOI, and that process
\* is READY: the scheduler will resume it and interrupts come back.  A second
\* one would be a tick taken while the first was in service; one that is not
\* READY (killed, blocked) would leave the machine without interrupts.
EoiOwner ==
  /\ inService <=> EoiOwed # {}
  /\ \A s, t \in EoiOwed : s = t
  /\ \A s \in EoiOwed : state[s] = "READY"

\* The timer preempts no process but the kernel's own (the hlt loop at the end
\* of kernel_main): since irq_handler sends its EOI late, every other process
\* runs while IRQ0 is in service, and keeps the CPU until it gives it up.  The
\* data that kernel threads share rely on it wherever they use no lock.
PreemptsOnlyIdle == CanTick => current = Idle

\* process_create marks its slot READY before the slot has a stack, which the
\* scheduler takes for granted.  Only kernel_main can be cut in between, if it
\* is so slow that its first time slice ends there; system calls and the shell
\* are safe, because IF = 0 until they are through.  For system calls that is
\* the gate's doing: isr128.asm:9-10 says that interrupts stay enabled, and if
\* they did, sys_execve could be cut here as well.
HalfBuiltSafe ==
  \A s \in Slots : build[s] = current => SlowBoot /\ ctx[s].mode = "boot"

\* Two live processes of one kind never share a pid, also when slots are
\* reused: mutex ownership and the addresses of user stacks rest on it.
PidsDistinct ==
  \A s, t \in Slots :
    /\ s # t /\ state[s] # "DEAD" /\ state[t] # "DEAD"
    /\ isUser[s] = isUser[t]
    => pid[s] # pid[t]

Awake == {"READY", "RUNNING"}

\* process_sleep returns early for one reason only, whatever is killed, created
\* or blocked meanwhile: process_block overwrites PROC_SLEEP (scheduler.cpp:157),
\* and process_unblock then readies the sleeper before its time.  No other step
\* lets a process with time left to sleep go on, neither the one in which it
\* falls asleep nor one that wakes another or gives its slot away.
SleepNotEarly ==
  [][\A s \in Slots :
       state'[s] \in Awake /\ left'[s] > 0
         => left[s] > 0 /\ (state[s] \in Awake \/ Unblock)]_vars

\* Round robin starves nobody: a READY process gets the CPU.
ReadyRuns == \A s \in Slots : state[s] = "READY" ~> state[s] # "READY"

\* A sleeper is woken and gets the CPU back.
SleeperRuns == \A s \in Slots : state[s] = "SLEEP" ~> current = s

\* usermode.cpp:19, on the iret to ring 3: "restores EFLAGS -> IF=1 so PIT
\* IRQs keep firing".
PitIrqsKeepFiring == (cpu = "user") ~> (cpu # "user" \/ CanTick)
===============================================================================
