---------------------------- MODULE SchedulerProofs ----------------------------
(***************************************************************************)
(* Proofs about Scheduler, for any table size, time slice and durations.   *)
(***************************************************************************)
EXTENDS Scheduler, TLAPS

\* The modes in which the code on the CPU runs with interrupts off.
Masked == {"syscall", "irq", "lost"}

\* The modes in which slot s can be interrupted or suspended.
Suspendable(s) ==
  IF s = Idle THEN {"boot", "idle"} ELSE {"thread", "user", "sysret"}

\* What the running code may be doing, given whose it is.
ModeInv ==
  /\ cpu \in Masked => ~ifl
  /\ cpu \in {"syscall", "lost"} => current # Idle
  /\ cpu = "irq" => current = Idle /\ interrupted = "idle"
  /\ cpu \notin Masked => cpu \in Suspendable(current)

\* kernel_main has not reached its hlt loop.
InBoot == IF current = Idle THEN cpu = "boot" ELSE ctx[Idle].mode = "boot"

\* A slot that is being filled in belongs to code that runs with IF = 0, or to
\* kernel_main; if the scheduler switches to it, the machine is lost.
BuildInv ==
  \A s \in Slots : build[s] # NoSlot =>
    /\ build[s] # Idle
    /\ state[build[s]] # "DEAD"
    /\ \A t \in Slots : build[t] = build[s] => t = s
    /\ \/ s = current /\ cpu \in {"syscall", "irq"} /\ build[s] # current
       \/ s = Idle /\ InBoot /\ (build[s] = current => cpu = "lost")

\* While kernel_main boots, no slot that is free or being filled in has a stack
\* that looks good.
BootInv ==
  InBoot =>
    /\ current # Idle => SlowBoot
    /\ \A s \in Slots :
         state[s] = "DEAD" \/ (\E t \in Slots : build[t] = s) => ctx[s].mode = "lost"

\* The stack of every other live process is one it can be resumed on.
CtxInv ==
  \A s \in Slots :
    s # current /\ state[s] # "DEAD" /\ (\A t \in Slots : build[t] # s)
      => ctx[s].mode \in Suspendable(s)

\* Only the kernel's own process is ever suspended by a tick, and IRQ0 is in
\* service for as long as it is not resumed.
TickInv ==
  /\ inService <=> current # Idle
  /\ current # Idle => ctx[Idle].at = "tick"
  /\ \A s \in Slots \ {Idle} : ctx[s].at # "tick"

\* Nobody kills the running process, nor the kernel's.
LiveInv ==
  /\ state[current] \notin {"DEAD", "SLEEP"}
  /\ current = Idle => state[Idle] = "RUNNING"
  /\ pid[Idle] = 0

IInv ==
  /\ TypeOK
  /\ CurrentRuns
  /\ IdleSchedulable
  /\ ModeInv
  /\ BuildInv
  /\ BootInv
  /\ CtxInv
  /\ TickInv
  /\ LiveInv

\* Nobody but kernel_main is filling in a slot, and that slot is not running.
Quiet ==
  \A s \in Slots : build[s] # NoSlot => s = Idle /\ InBoot /\ build[s] # current

-----------------------------------------------------------------------------
(* Facts about the helpers                                                  *)

\* The kernel's own process has a slot.
LEMMA IdleIsSlot == Idle \in Slots
  BY SchedulerAssumption DEF Idle, Slots

\* NoSlot is no slot, and slots are integers.
LEMMA SlotFacts == NoSlot \notin Slots /\ (\A s \in Slots : s \in Int)
  BY SchedulerAssumption DEF NoSlot, Slots

\* find_next only ever turns SLEEP into READY.
LEMMA WokenFacts ==
  ASSUME NEW st \in [Slots -> States], NEW lf
  PROVE  /\ Woken(st, lf) \in [Slots -> States]
         /\ \A s \in Slots : \/ Woken(st, lf)[s] = st[s]
                             \/ st[s] = "SLEEP" /\ Woken(st, lf)[s] = "READY"
  BY DEF Woken, States

\* A slot other than the running one that find_next returns is READY, because
\* the kernel's own process always is schedulable.
LEMMA NextIsReady ==
  ASSUME NEW st \in [Slots -> States], NEW n \in Slots,
         IsNext(st, n), n # current,
         st[Idle] \in {"READY", "RUNNING"},
         st[Idle] = "RUNNING" => Idle = current
  PROVE  st[n] = "READY"
  BY IdleIsSlot DEF IsNext

\* No process can be returned by find_next to itself unless it is the kernel's:
\* while it runs, the kernel's own process waits at a nearer index.
LEMMA NextIsOther ==
  ASSUME NEW st \in [Slots -> States], current \in Slots, current # Idle,
         IsNext(st, current), st[Idle] = "READY"
  PROVE  FALSE
<1>1. Distance(Idle) < Distance(current)
  BY SchedulerAssumption DEF Distance, Idle, Slots
<1>2. ~(Distance(current) <= Distance(Idle))
  BY <1>1, SchedulerAssumption DEF Distance, Idle, Slots
<1>3. QED
  BY <1>2, IdleIsSlot DEF IsNext

-----------------------------------------------------------------------------
(* Type correctness, in every configuration                                 *)

\* do_switch keeps the types.
LEMMA SwitchToType ==
  ASSUME TypeOK, NEW n \in Slots, NEW st \in [Slots -> States],
         NEW sl \in [Slots -> 0 .. TIME_SLICE], NEW how \in Resumes,
         NEW mode \in Modes, SwitchTo(n, st, sl, how, mode),
         left' \in [Slots -> Nat]
  PROVE  TypeOK'
<1>1. state' \in [Slots -> States]
  BY DEF SwitchTo, TypeOK, States
<1>2. slice' \in [Slots -> 0 .. TIME_SLICE]
  BY SchedulerAssumption DEF SwitchTo, TypeOK
<1>3. ctx' \in [Slots -> [at : Resumes, mode : Modes]]
  BY DEF SwitchTo, TypeOK
<1>4. cpu' \in Modes /\ current' \in Slots /\ ifl' \in BOOLEAN
  BY DEF SwitchTo, TypeOK
<1>5. inService' \in BOOLEAN
  BY DEF SwitchTo, InServiceAfter
<1>6. QED
  BY <1>1, <1>2, <1>3, <1>4, <1>5 DEF SwitchTo, TypeOK, makeVars

\* So does find_next followed by do_switch,
LEMMA DispatchType ==
  ASSUME TypeOK, NEW st \in [Slots -> States], NEW lf \in [Slots -> Nat],
         NEW sl \in [Slots -> 0 .. TIME_SLICE], NEW how \in Resumes,
         NEW mode \in Modes, Dispatch(st, lf, sl, how, mode),
         left' = lf
  PROVE  TypeOK'
<1>1. PICK n \in Slots :
        \/ SwitchTo(n, Woken(st, lf), sl, how, mode)
        \/ GoOn(Woken(st, lf), sl, mode)
  BY DEF Dispatch
<1>2. Woken(st, lf) \in [Slots -> States]
  BY WokenFacts
<1>3. CASE SwitchTo(n, Woken(st, lf), sl, how, mode)
  BY <1>2, <1>3, SwitchToType
<1>4. CASE GoOn(Woken(st, lf), sl, mode)
  BY <1>2, <1>4 DEF GoOn, TypeOK, makeVars
<1>5. QED
  BY <1>1, <1>3, <1>4

\* and the bookkeeping of a tick.
LEMMA TickTypes ==
  ASSUME TypeOK
  PROVE  Ticked(left) \in [Slots -> Nat] /\ Charged \in [Slots -> 0 .. TIME_SLICE]
<1>1. Ticked(left) \in [Slots -> Nat]
  BY DEF TypeOK, Ticked
<1>2. Charged \in [Slots -> 0 .. TIME_SLICE]
  <2>1. (IF slice[current] < TIME_SLICE THEN slice[current] + 1 ELSE TIME_SLICE)
          \in 0 .. TIME_SLICE
    BY SchedulerAssumption DEF TypeOK
  <2>2. QED
    BY <2>1 DEF TypeOK, Charged
<1>3. QED
  BY <1>1, <1>2

\* process_sleep keeps the types.
LEMMA SleepType ==
  ASSUME TypeOK, NEW d \in SleepTicks, NEW mode \in Modes, Sleep(d, mode)
  PROVE  TypeOK'
<1>1. [state EXCEPT ![current] = "SLEEP"] \in [Slots -> States]
  BY DEF TypeOK, States
<1>2. [left EXCEPT ![current] = d] \in [Slots -> Nat]
  BY SchedulerAssumption DEF TypeOK
<1>3. QED
  BY <1>1, <1>2, DispatchType DEF Sleep, Yield, TypeOK, Resumes

\* process_exit keeps the types.
LEMMA ExitType ==
  ASSUME TypeOK, Exit
  PROVE  TypeOK'
<1> DEFINE dead == [state EXCEPT ![current] = "DEAD"]
<1>1. PICK n \in Slots : SwitchTo(n, Woken(dead, left), slice, "yield", "lost")
  BY DEF Exit
<1>2. dead \in [Slots -> States]
  BY DEF TypeOK, States
<1>3. Woken(dead, left) \in [Slots -> States]
  BY <1>2, WokenFacts
<1>4. left' \in [Slots -> Nat]
  BY DEF Exit, TypeOK
<1>5. slice \in [Slots -> 0 .. TIME_SLICE] /\ "lost" \in Modes /\ "yield" \in Resumes
  BY DEF TypeOK, Resumes, Modes
<1> HIDE DEF dead
<1>6. QED
  BY <1>1, <1>3, <1>4, <1>5, SwitchToType

\* The first half of process_create keeps the types,
LEMMA ReserveType ==
  ASSUME TypeOK, NEW kind \in Kinds, Reserve(kind),
         UNCHANGED <<ctx, current, inService, meddled>>,
         cpu' \in Modes, interrupted' \in Modes, ifl' \in BOOLEAN
  PROVE  TypeOK'
<1>1. PICK s \in Slots :
        /\ state' = [state EXCEPT ![s] = "READY"]
        /\ pid' = [pid EXCEPT ![s] = nextPid[kind]]
        /\ nextPid' = [nextPid EXCEPT ![kind] = @ + 1]
        /\ isUser' = [isUser EXCEPT ![s] = (kind = "user")]
        /\ slice' = [slice EXCEPT ![s] = 0]
        /\ left' = [left EXCEPT ![s] = 0]
        /\ build' = [build EXCEPT ![current] = s]
  BY DEF Reserve, PidTaken
<1>2. state' \in [Slots -> States] /\ isUser' \in [Slots -> BOOLEAN]
  BY <1>1 DEF TypeOK, States
<1>3. pid' \in [Slots -> Nat] /\ nextPid' \in [Kinds -> Nat]
  BY <1>1 DEF TypeOK
<1>4. slice' \in [Slots -> 0 .. TIME_SLICE] /\ left' \in [Slots -> Nat]
  BY <1>1, SchedulerAssumption DEF TypeOK
<1>5. build' \in [Slots -> Slots \cup {NoSlot}]
  BY <1>1 DEF TypeOK
<1>6. QED
  BY <1>2, <1>3, <1>4, <1>5 DEF TypeOK

\* and so does the second.
LEMMA CreateEndType ==
  ASSUME TypeOK, CreateEnd
  PROVE  TypeOK'
<1> DEFINE s == build[current]
<1>1. s \in Slots
  BY DEF TypeOK, CreateEnd
<1>2. /\ state' \in [Slots -> States]
      /\ ctx' \in [Slots -> [at : Resumes, mode : Modes]]
  <2>1. CASE /\ ctx' = [ctx EXCEPT ![s] =
                 [at |-> "entry", mode |-> IF isUser[s] THEN "user" ELSE "thread"]]
             /\ UNCHANGED state
    BY <1>1, <2>1 DEF TypeOK, Resumes, Modes
  <2>2. CASE state' = [state EXCEPT ![s] = "DEAD"] /\ UNCHANGED ctx
    BY <1>1, <2>2 DEF TypeOK, States
  <2>3. QED
    BY <2>1, <2>2 DEF CreateEnd
<1>3. cpu' \in Modes
  BY DEF CreateEnd, AfterCreate, TypeOK, Modes
<1>4. ifl' \in BOOLEAN /\ interrupted' \in Modes
  BY DEF CreateEnd, TypeOK, Modes
<1>5. build' \in [Slots -> Slots \cup {NoSlot}]
  BY DEF CreateEnd, TypeOK
<1>6. QED
  BY <1>2, <1>3, <1>4, <1>5 DEF CreateEnd, TypeOK

\* Every step of every configuration keeps the types.
LEMMA TypeStep ==
  ASSUME TypeOK, [Next]_vars
  PROVE  TypeOK'
<1>1. CASE BootCreate
  BY <1>1, ReserveType DEF BootCreate, cpuVars, TypeOK, Kinds
<1>2. CASE BootDone
  BY <1>2 DEF BootDone, procVars, makeVars, TypeOK, Modes
<1>3. CASE TickOnly
  BY <1>3, TickTypes DEF TickOnly, cpuVars, makeVars, TypeOK
<1>4. CASE TickSwitch
  <2>1. Dispatch(state, Ticked(left), Charged, "tick", cpu)
    BY <1>4 DEF TickSwitch
  <2>2. "tick" \in Resumes /\ left' = Ticked(left)
    BY <1>4 DEF TickSwitch, Resumes
  <2>3. state \in [Slots -> States] /\ cpu \in Modes
    BY DEF TypeOK
  <2>4. QED
    BY <2>1, <2>2, <2>3, TickTypes, DispatchType
<1>5. CASE ThreadYield
  BY <1>5, DispatchType DEF ThreadYield, Yield, TypeOK, Resumes, Modes
<1>6. CASE ThreadSleep
  BY <1>6, SleepType DEF ThreadSleep, Modes
<1>7. CASE ThreadExit \/ SyscallExit
  BY <1>7, ExitType DEF ThreadExit, SyscallExit
<1>8. CASE Syscall \/ SyscallReturn
  BY <1>8 DEF Syscall, SyscallReturn, procVars, makeVars, TypeOK, Modes
<1>9. CASE SyscallSleep
  BY <1>9, SleepType DEF SyscallSleep, Modes
<1>10. CASE SyscallExecve
  BY <1>10, ReserveType DEF SyscallExecve, cpuVars, TypeOK, Kinds
<1>11. ASSUME NEW kind \in Kinds, ShellCreate(kind)
       PROVE  TypeOK'
  BY <1>11, ReserveType DEF ShellCreate, TypeOK, Modes
<1>12. CASE CreateEnd
  BY <1>12, CreateEndType
<1>13. ASSUME NEW s \in Slots, NEW st \in States, Meddle(s, st)
       PROVE  TypeOK'
  BY <1>13 DEF Meddle, cpuVars, makeVars, TypeOK
<1>14. CASE ShellKill \/ Block \/ Unblock
  BY <1>13, <1>14 DEF ShellKill, Block, Unblock, States
<1>16. CASE UNCHANGED vars
  BY <1>16 DEF vars, procVars, cpuVars, makeVars, TypeOK
<1>17. QED
  BY <1>1, <1>2, <1>3, <1>4, <1>5, <1>6, <1>7, <1>8, <1>9, <1>10, <1>11,
     <1>12, <1>14, <1>16 DEF Next, Thread, User, Meddler

\* The state after scheduler_init is well typed.
LEMMA InitType ==
  ASSUME Init
  PROVE  TypeOK
<1>1. /\ state \in [Slots -> States]
      /\ ctx \in [Slots -> [at : Resumes, mode : Modes]]
      /\ cpu \in Modes /\ interrupted \in Modes
  BY DEF Init, States, Resumes, Modes, NoContext
<1>2. slice \in [Slots -> 0 .. TIME_SLICE]
  BY SchedulerAssumption DEF Init
<1>3. left \in [Slots -> Nat] /\ pid \in [Slots -> Nat] /\ nextPid \in [Kinds -> Nat]
  BY DEF Init
<1>4. isUser \in [Slots -> BOOLEAN] /\ build \in [Slots -> Slots \cup {NoSlot}]
  BY DEF Init
<1>5. current \in Slots
  BY IdleIsSlot DEF Init
<1>6. ifl \in BOOLEAN /\ inService \in BOOLEAN /\ meddled \in BOOLEAN
  BY DEF Init
<1>7. QED
  BY <1>1, <1>2, <1>3, <1>4, <1>5, <1>6 DEF TypeOK

\* Every variable of the scheduler keeps its type, whatever the shell and the
\* kernel's threads do.
THEOREM TypeCorrect == Spec => []TypeOK
  BY InitType, TypeStep, PTL DEF Spec

-----------------------------------------------------------------------------
(* The scheduler's invariant                                                *)

\* Code that runs with interrupts on, or is between two operations, builds no
\* process, unless it is kernel_main.
LEMMA QuietFact ==
  ASSUME IInv, cpu \notin Masked \/ (cpu = "syscall" /\ Free)
  PROVE  Quiet
  BY DEF IInv, BuildInv, Quiet, Masked, Free

\* do_switch away from a process that nobody is building for.
LEMMA SwitchToInv ==
  ASSUME IInv, Quiet, NEW n \in Slots, n # current,
         NEW st \in [Slots -> States], NEW sl, NEW how, NEW mode,
         SwitchTo(n, st, sl, how, mode),
         st[n] = "READY",
         current = Idle => st[current] = "RUNNING" /\ mode = cpu,
         mode = "boot" => SlowBoot,
         \A s \in Slots \ {current} :
            st[s] = state[s] \/ (state[s] = "SLEEP" /\ st[s] = "READY"),
         how = IF current = Idle THEN "tick" ELSE "yield",
         IF st[current] = "DEAD" THEN mode = "lost" ELSE mode \in Suspendable(current),
         TypeOK'
  PROVE  IInv'
<1> USE IdleIsSlot
<1>1. \A s \in Slots : /\ state'[s] = IF s = n THEN "RUNNING"
                                     ELSE IF s = current /\ st[s] = "RUNNING"
                                     THEN "READY" ELSE st[s]
                       /\ ctx'[s] = IF s = current THEN [at |-> how, mode |-> mode]
                                    ELSE ctx[s]
  BY DEF SwitchTo, IInv, TypeOK
<1>2. /\ current' = n /\ cpu' = ctx[n].mode /\ ifl' = (ctx[n].mode # "lost")
      /\ build' = build /\ meddled' = meddled /\ pid' = pid
  BY DEF SwitchTo, makeVars, IInv
<1>3. CurrentRuns'
  BY <1>1, <1>2 DEF CurrentRuns, IInv
<1>4. IdleSchedulable'
  BY <1>1 DEF IdleSchedulable, IInv
<1>5. InBoot' <=> InBoot
  <2>1. CASE current = Idle
    BY <1>1, <1>2, <2>1 DEF InBoot, IInv, TypeOK
  <2>2. CASE current # Idle
    BY <1>1, <1>2, <2>2 DEF InBoot
  <2>3. QED
    BY <2>1, <2>2
<1>6. /\ (\E t \in Slots : build[t] = n) => ctx[n].mode = "lost" /\ n # Idle
      /\ (\A t \in Slots : build[t] # n) => ctx[n].mode \in Suspendable(n)
  <2>1. state[n] # "DEAD"
    OBVIOUS
  <2>2. QED
    BY <2>1, SlotFacts DEF IInv, BuildInv, BootInv, CtxInv, Quiet
<1>7. ModeInv'
  BY <1>2, <1>6 DEF ModeInv, Masked, Suspendable
<1>8. BuildInv'
  <2>1. ASSUME NEW s \in Slots, build[s] # NoSlot
        PROVE  /\ build[s] \in Slots /\ build[s] # current /\ s = Idle /\ InBoot'
               /\ state[build[s]] # "DEAD" /\ build[s] # Idle
               /\ \A t \in Slots : build[t] = build[s] => t = s
               /\ build[s] = n => cpu' = "lost"
    BY <1>2, <1>5, <1>6, <2>1, SlotFacts DEF IInv, BuildInv, Quiet, TypeOK
  <2>2. ASSUME NEW s \in Slots, build[s] # NoSlot
        PROVE  state'[build[s]] # "DEAD"
    BY <1>1, <2>1, <2>2
  <2>3. QED
    BY <1>2, <2>1, <2>2 DEF BuildInv
<1>9. BootInv'
  <2>1. ASSUME NEW s \in Slots, InBoot,
               state'[s] = "DEAD" \/ (\E t \in Slots : build[t] = s)
        PROVE  ctx'[s].mode = "lost"
    <3>1. CASE s = current
      <4>1. \A t \in Slots : build[t] # s
        BY <3>1, SlotFacts DEF Quiet, IInv, TypeOK
      <4>2. QED
        BY <1>1, <2>1, <3>1, <4>1
    <3>2. CASE s # current
      BY <1>1, <2>1, <3>2 DEF IInv, BootInv
    <3>3. QED
      BY <3>1, <3>2
  <2>2. ASSUME InBoot, current' # Idle
        PROVE  SlowBoot
    <3>1. CASE current = Idle
      BY <2>2, <3>1 DEF InBoot
    <3>2. CASE current # Idle
      BY <2>2, <3>2 DEF IInv, BootInv
    <3>3. QED
      BY <3>1, <3>2
  <2>3. QED
    BY <1>2, <1>5, <2>1, <2>2 DEF BootInv
<1>10. CtxInv'
  BY <1>1, <1>2 DEF CtxInv, IInv
<1>11. TickInv'
  <2>1. CASE current = Idle
    <3>1. ctx[n].at # "tick" /\ ctx'[Idle].at = "tick"
      BY <1>1, <2>1 DEF IInv, TickInv
    <3>2. inService' = TRUE
      BY <2>1, <3>1 DEF SwitchTo, InServiceAfter
    <3>3. QED
      BY <1>1, <1>2, <2>1, <3>1, <3>2 DEF IInv, TickInv
  <2>2. CASE current # Idle /\ n = Idle
    <3>1. inService' = FALSE
      BY <2>2 DEF SwitchTo, InServiceAfter, IInv, TickInv
    <3>2. QED
      BY <1>1, <1>2, <2>2, <3>1 DEF IInv, TickInv
  <2>3. CASE current # Idle /\ n # Idle
    <3>1. inService' = TRUE
      BY <2>3 DEF SwitchTo, InServiceAfter, IInv, TickInv
    <3>2. QED
      BY <1>1, <1>2, <2>3, <3>1 DEF IInv, TickInv
  <2>4. QED
    BY <2>1, <2>2, <2>3
<1>12. LiveInv'
  BY <1>1, <1>2 DEF IInv, LiveInv
<1>13. QED
  BY <1>3, <1>4, <1>7, <1>8, <1>9, <1>10, <1>11, <1>12 DEF IInv

\* find_next kept the running process, the kernel's own.
LEMMA GoOnInv ==
  ASSUME IInv, Quiet, current = Idle, NEW st \in [Slots -> States], NEW sl,
         GoOn(st, sl, cpu),
         st[current] = state[current],
         \A s \in Slots \ {current} :
            st[s] = state[s] \/ (state[s] = "SLEEP" /\ st[s] = "READY"),
         cpu \in Suspendable(current),
         TypeOK'
  PROVE  IInv'
<1> USE IdleIsSlot
<1>1. /\ state' = st /\ current' = current /\ ctx' = ctx /\ build' = build
      /\ cpu' = cpu /\ ifl' = TRUE /\ inService' = inService
      /\ meddled' = meddled /\ pid' = pid
  BY DEF GoOn, makeVars
<1>2. CurrentRuns' /\ IdleSchedulable'
  BY <1>1 DEF CurrentRuns, IdleSchedulable, IInv
<1>3. ModeInv'
  BY <1>1 DEF ModeInv, Masked, Suspendable
<1>4. \A s \in Slots : state'[s] = "DEAD" <=> state[s] = "DEAD"
  BY <1>1
<1>5. BuildInv'
  BY <1>1, <1>4, SlotFacts DEF BuildInv, InBoot, IInv, Quiet, TypeOK
<1>6. BootInv' /\ CtxInv'
  BY <1>1, <1>4 DEF BootInv, InBoot, CtxInv, IInv
<1>7. TickInv' /\ LiveInv'
  BY <1>1 DEF TickInv, LiveInv, IInv
<1>8. QED
  BY <1>2, <1>3, <1>5, <1>6, <1>7 DEF IInv

\* Everything that calls find_next, with the running process still alive.
LEMMA DispatchInv ==
  ASSUME IInv, Quiet,
         NEW st \in [Slots -> States], NEW lf, NEW sl, NEW how, NEW mode,
         Dispatch(st, lf, sl, how, mode),
         \A s \in Slots \ {current} : st[s] = state[s],
         st[current] # "DEAD",
         current = Idle => st[current] = "RUNNING" /\ mode = cpu,
         mode = "boot" => SlowBoot,
         how = IF current = Idle THEN "tick" ELSE "yield",
         mode \in Suspendable(current),
         TypeOK'
  PROVE  IInv'
<1> DEFINE wk == Woken(st, lf)
<1>1. PICK n \in Slots :
        /\ IsNext(wk, n)
        /\ \/ n # current /\ SwitchTo(n, wk, sl, how, mode)
           \/ n = current /\ GoOn(wk, sl, mode)
  BY DEF Dispatch
<1>2. /\ wk \in [Slots -> States]
      /\ \A s \in Slots : wk[s] = st[s] \/ (st[s] = "SLEEP" /\ wk[s] = "READY")
  BY WokenFacts
<1> HIDE DEF wk
<1>3. wk[Idle] \in {"READY", "RUNNING"} /\ (wk[Idle] = "RUNNING" => Idle = current)
  BY <1>2, IdleIsSlot DEF IInv, IdleSchedulable, CurrentRuns
<1>4. CASE n # current
  <2>1. wk[n] = "READY"
    BY <1>1, <1>2, <1>3, <1>4, NextIsReady
  <2>2. /\ current = Idle => wk[current] = "RUNNING"
        /\ wk[current] # "DEAD"
    BY <1>2 DEF IInv, TypeOK
  <2>3. \A s \in Slots \ {current} :
          wk[s] = state[s] \/ (state[s] = "SLEEP" /\ wk[s] = "READY")
    BY <1>2
  <2>4. SwitchTo(n, wk, sl, how, mode)
    BY <1>1, <1>4
  <2>5. QED
    BY <1>2, <1>4, <2>1, <2>2, <2>3, <2>4, SwitchToInv
<1>5. CASE n = current
  <2>1. current \in Slots
    BY DEF IInv, TypeOK
  <2>2. current = Idle
    <3>1. SUFFICES ASSUME current # Idle
                   PROVE  FALSE
      OBVIOUS
    <3>2. wk[Idle] = "READY"
      BY <1>3, <3>1
    <3>3. QED
      BY <1>1, <1>2, <1>5, <2>1, <3>1, <3>2, NextIsOther
  <2>3. wk[current] = state[current]
    BY <1>2, <2>1, <2>2 DEF IInv, LiveInv
  <2>4. GoOn(wk, sl, cpu) /\ cpu \in Suspendable(current)
    BY <1>1, <1>5, <2>2
  <2>5. QED
    BY <1>2, <2>2, <2>3, <2>4, GoOnInv
<1>6. QED
  BY <1>4, <1>5

\* process_exit, by a process other than the kernel's.
LEMMA ExitInv ==
  ASSUME IInv, Quiet, Exit, current # Idle, TypeOK'
  PROVE  IInv'
<1> DEFINE dead == [state EXCEPT ![current] = "DEAD"]
           wk == Woken(dead, left)
<1>1. PICK n \in Slots \ {current} :
        IsNext(wk, n) /\ SwitchTo(n, wk, slice, "yield", "lost")
  BY DEF Exit
<1>2. /\ dead \in [Slots -> States]
      /\ dead[current] = "DEAD"
      /\ \A s \in Slots \ {current} : dead[s] = state[s]
  BY DEF IInv, TypeOK, States
<1> HIDE DEF dead
<1>3. /\ wk \in [Slots -> States]
      /\ \A s \in Slots : wk[s] = dead[s] \/ (dead[s] = "SLEEP" /\ wk[s] = "READY")
  BY <1>2, WokenFacts
<1> HIDE DEF wk
<1>4. wk[Idle] = "READY"
  BY <1>2, <1>3, IdleIsSlot
     DEF IInv, IdleSchedulable, CurrentRuns
<1>5. wk[n] = "READY"
  BY <1>1, <1>3, <1>4, NextIsReady
<1>6. wk[current] = "DEAD"
  BY <1>2, <1>3 DEF IInv, TypeOK
<1>7. \A s \in Slots \ {current} :
        wk[s] = state[s] \/ (state[s] = "SLEEP" /\ wk[s] = "READY")
  BY <1>2, <1>3
<1>8. QED
  BY <1>1, <1>3, <1>5, <1>6, <1>7, SwitchToInv

\* The first half of process_create picks a dead slot, so no process is lost.
LEMMA ReserveInv ==
  ASSUME IInv, Quiet, NEW kind \in Kinds, Reserve(kind), Free,
         UNCHANGED <<ctx, current, inService, meddled>>,
         InBoot' <=> InBoot,
         cpu' \in {"syscall", "irq"} \/ (current = Idle /\ InBoot),
         ModeInv', TypeOK'
  PROVE  IInv'
<1>1. PICK s \in Slots : /\ state[s] = "DEAD"
                         /\ state' = [state EXCEPT ![s] = "READY"]
                         /\ build' = [build EXCEPT ![current] = s]
                         /\ pid' = [pid EXCEPT ![s] = nextPid[kind]]
  BY DEF Reserve
<1>2. s # current /\ s # Idle /\ current \in Slots
  BY <1>1 DEF IInv, LiveInv, IdleSchedulable, TypeOK
<1>3. \A t \in Slots : build[t] # s
  BY <1>1, SlotFacts DEF IInv, BuildInv
<1>4. /\ \A t \in Slots : state'[t] = IF t = s THEN "READY" ELSE state[t]
      /\ \A t \in Slots : build'[t] = IF t = current THEN s ELSE build[t]
  BY <1>1 DEF IInv, TypeOK
<1>5. CurrentRuns' /\ IdleSchedulable'
  BY <1>2, <1>4, IdleIsSlot
     DEF IInv, CurrentRuns, IdleSchedulable, TypeOK
<1>6. TickInv' /\ LiveInv'
  BY <1>1, <1>2, <1>4, IdleIsSlot DEF TickInv, LiveInv, IInv, TypeOK
<1>7. BuildInv'
  <2>1. ASSUME NEW t \in Slots, t # current, build[t] # NoSlot
        PROVE  /\ t = Idle /\ InBoot' /\ build[t] # current /\ build[t] # s
               /\ build[t] # Idle /\ state'[build[t]] # "DEAD"
               /\ \A u \in Slots : build[u] = build[t] => u = t
    BY <1>3, <1>4, <2>1, SlotFacts DEF Quiet, IInv, BuildInv, TypeOK
  <2>2. QED
    BY <1>2, <1>3, <1>4, <2>1 DEF BuildInv
<1>8. BootInv'
  BY <1>1, <1>2, <1>4 DEF IInv, BootInv
<1>9. CtxInv'
  <2>1. \A t \in Slots : (\A u \in Slots : build'[u] # t) =>
          t # s /\ \A u \in Slots : build[u] # t
    BY <1>2, <1>4, SlotFacts DEF Free
  <2>2. QED
    BY <1>4, <2>1 DEF CtxInv, IInv
<1>10. QED
  BY <1>5, <1>6, <1>7, <1>8, <1>9 DEF IInv

\* The second half gives the slot a stack, or gives the slot back.
LEMMA CreateEndInv ==
  ASSUME IInv, CreateEnd, TypeOK'
  PROVE  IInv'
<1> DEFINE s == build[current]
<1> USE IdleIsSlot
<1>1. current \in Slots /\ s \in Slots /\ s # NoSlot
  BY SlotFacts DEF CreateEnd, IInv, TypeOK
<1>2. /\ s # current /\ s # Idle /\ state[s] # "RUNNING"
      /\ cpu \in {"syscall", "irq"} \/ (current = Idle /\ cpu = "boot")
  BY <1>1 DEF IInv, BuildInv, InBoot, CurrentRuns
<1>3. \A t \in Slots : /\ build'[t] = IF t = current THEN NoSlot ELSE build[t]
                       /\ build'[t] # s
  BY <1>1, SlotFacts DEF CreateEnd, IInv, BuildInv, TypeOK
<1>4. /\ current' = current /\ inService' = inService
      /\ meddled' = meddled /\ pid' = pid
  BY DEF CreateEnd, IInv
<1>5. /\ \A t \in Slots \ {s} : state'[t] = state[t] /\ ctx'[t] = ctx[t]
      /\ \/ /\ ctx'[s].at = "entry" /\ ctx'[s].mode \in {"user", "thread"}
            /\ state'[s] = state[s]
         \/ state'[s] = "DEAD" /\ ctx'[s] = ctx[s]
  BY <1>1 DEF CreateEnd, IInv, TypeOK
<1>6. /\ ModeInv' /\ (InBoot' <=> InBoot) /\ cpu' # "lost"
  <2>1. cpu' = AfterCreate /\ ifl' = (ifl \/ cpu = "irq")
    BY DEF CreateEnd
  <2>2. ctx'[Idle] = ctx[Idle]
    BY <1>2, <1>5
  <2>3. CASE cpu = "irq"
    BY <1>4, <2>1, <2>2, <2>3
       DEF AfterCreate, ModeInv, InBoot, Masked, Suspendable, IInv
  <2>4. CASE cpu = "syscall"
    BY <1>4, <2>1, <2>2, <2>4
       DEF AfterCreate, ModeInv, InBoot, Masked, Suspendable, IInv
  <2>5. CASE current = Idle /\ cpu = "boot"
    BY <1>4, <2>1, <2>2, <2>5
       DEF AfterCreate, ModeInv, InBoot, Masked, Suspendable, IInv
  <2>6. QED
    BY <1>2, <2>3, <2>4, <2>5
<1>7. \A t \in Slots \ {s} :
        (\A u \in Slots : build'[u] # t) => (\A u \in Slots : build[u] # t)
  BY <1>3
<1> HIDE DEF s
<1>8. BuildInv'
  <2>1. ASSUME NEW t \in Slots, build'[t] # NoSlot
        PROVE  /\ build[t] = build'[t] /\ t # current /\ build[t] # s
               /\ build[t] \in Slots
    BY <1>3, <2>1, SlotFacts DEF IInv, TypeOK
  <2>2. ASSUME NEW t \in Slots, build'[t] # NoSlot
        PROVE  /\ t = Idle /\ InBoot /\ build[t] # current /\ build[t] # Idle
               /\ state[build[t]] # "DEAD"
               /\ \A u \in Slots : build[u] = build[t] => u = t
    <3>1. cpu # "lost" /\ build[t] # NoSlot
      BY <1>2, <2>1, <2>2
    <3>2. QED
      BY <2>1, <2>2, <3>1 DEF IInv, BuildInv
  <2>3. QED
    BY <1>3, <1>4, <1>5, <1>6, <2>1, <2>2 DEF BuildInv
<1>9. BootInv'
  <2>1. (InBoot => ctx[s].mode = "lost") /\ state[s] # "DEAD"
    BY <1>1 DEF IInv, BootInv, BuildInv, s
  <2>2. ASSUME NEW t \in Slots, InBoot,
               state'[t] = "DEAD" \/ (\E u \in Slots : build'[u] = t)
        PROVE  ctx'[t].mode = "lost"
    <3>1. CASE t = s
      BY <1>3, <1>5, <2>1, <2>2, <3>1
    <3>2. CASE t # s
      <4>1. state[t] = "DEAD" \/ (\E u \in Slots : build[u] = t)
        BY <1>3, <1>5, <2>2, <3>2, SlotFacts
      <4>2. QED
        BY <1>5, <2>2, <3>2, <4>1 DEF BootInv, IInv
    <3>3. QED
      BY <3>1, <3>2
  <2>3. InBoot /\ current # Idle => SlowBoot
    BY DEF BootInv, IInv
  <2>4. QED
    BY <1>4, <1>6, <2>2, <2>3 DEF BootInv
<1>10. CtxInv'
  BY <1>2, <1>4, <1>5, <1>7 DEF CtxInv, Suspendable, IInv
<1>11. CurrentRuns' /\ IdleSchedulable' /\ LiveInv'
  BY <1>1, <1>2, <1>4, <1>5 DEF CurrentRuns, IdleSchedulable, LiveInv, IInv
<1>12. TickInv'
  BY <1>2, <1>4, <1>5 DEF TickInv, IInv
<1>13. QED
  BY <1>6, <1>8, <1>9, <1>10, <1>11, <1>12 DEF IInv

\* Steps that leave the process table and the saved stacks alone.
LEMMA ModeStepInv ==
  ASSUME IInv, Quiet, UNCHANGED <<state, ctx, current, inService, build, pid, meddled>>,
         InBoot' => InBoot, \A s \in Slots : build[s] # NoSlot => InBoot',
         ModeInv', TypeOK'
  PROVE  IInv'
<1>1. CurrentRuns' /\ IdleSchedulable'
  BY DEF CurrentRuns, IdleSchedulable, IInv
<1>2. TickInv' /\ LiveInv'
  BY DEF TickInv, LiveInv, IInv
<1>3. BuildInv' /\ BootInv' /\ CtxInv'
  BY DEF BuildInv, BootInv, CtxInv, IInv, Quiet
<1>4. QED
  BY <1>1, <1>2, <1>3 DEF IInv

\* cmd_kill, process_block and process_unblock.
LEMMA MeddleInv ==
  ASSUME IInv, Quiet,
         NEW s \in Slots \ {Idle}, NEW st \in {"DEAD", "BLOCKED", "READY"},
         state[s] # "DEAD", Meddle(s, st), st = "DEAD" => s # current /\ ~InBoot,
         TypeOK'
  PROVE  IInv'
<1> USE IdleIsSlot
<1>1. /\ \A t \in Slots : state'[t] = IF t = s THEN st ELSE state[t]
      /\ meddled'
      /\ UNCHANGED <<ctx, pid, current, cpu, interrupted, ifl, inService, build>>
  BY DEF Meddle, cpuVars, makeVars, IInv, TypeOK
<1>2. CurrentRuns' /\ IdleSchedulable'
  BY <1>1 DEF CurrentRuns, IdleSchedulable, IInv
<1>3. ModeInv' /\ (InBoot' <=> InBoot)
  BY <1>1 DEF ModeInv, IInv, Suspendable, InBoot
<1>4. BuildInv'
  BY <1>1, <1>3, SlotFacts DEF BuildInv, Quiet, IInv, TypeOK
<1>5. BootInv'
  BY <1>1, <1>3 DEF BootInv, IInv
<1>6. CtxInv'
  BY <1>1 DEF CtxInv, IInv
<1>7. TickInv' /\ LiveInv'
  BY <1>1 DEF TickInv, LiveInv, IInv, TypeOK
<1>8. QED
  BY <1>2, <1>3, <1>4, <1>5, <1>6, <1>7 DEF IInv

\* Every step keeps the invariant.
LEMMA IInvStep ==
  ASSUME IInv, [Next]_vars
  PROVE  IInv'
<1> USE IdleIsSlot
<1>0. TypeOK /\ TypeOK'
  BY TypeStep DEF IInv
<1>1. CASE BootCreate
  <2>1. current = Idle /\ InBoot /\ InBoot' /\ ModeInv' /\ Quiet
    <3>1. current = Idle
      BY <1>1 DEF BootCreate, IInv, ModeInv, Masked, Suspendable
    <3>2. Quiet
      BY <1>1, QuietFact DEF BootCreate, Masked
    <3>3. QED
      BY <1>1, <3>1, <3>2 DEF BootCreate, cpuVars, IInv, ModeInv, Masked, InBoot
  <2>2. QED
    BY <1>0, <1>1, <2>1, ReserveInv DEF BootCreate, cpuVars, Kinds
<1>2. CASE BootDone
  <2>1. ModeInv' /\ InBoot /\ ~InBoot' /\ Quiet /\ current = Idle
    <3>1. current = Idle
      BY <1>2 DEF BootDone, IInv, ModeInv, Masked, Suspendable
    <3>2. Quiet
      BY <1>2, QuietFact DEF BootDone, Masked
    <3>3. QED
      BY <1>2, <3>1, <3>2 DEF BootDone, IInv, ModeInv, Masked, Suspendable, InBoot
  <2>2. \A s \in Slots : build[s] = NoSlot
    BY <1>2, <2>1 DEF BootDone, Free, Quiet
  <2>3. QED
    BY <1>0, <1>2, <2>1, <2>2, ModeStepInv DEF BootDone, procVars, makeVars
<1>3. CASE TickOnly
  <2>1. ModeInv' /\ (InBoot' <=> InBoot)
    BY <1>3 DEF TickOnly, cpuVars, IInv, ModeInv, InBoot
  <2>2. Quiet
    BY <1>3, QuietFact DEF TickOnly, CanTick, IInv, ModeInv
  <2>3. QED
    BY <1>0, <1>3, <2>1, <2>2, ModeStepInv DEF TickOnly, cpuVars, makeVars, Quiet
<1>4. CASE TickSwitch
  <2>1. Quiet
    BY <1>4, QuietFact DEF TickSwitch, CanTick, IInv, ModeInv
  <2>2. cpu \in Suspendable(current) /\ current = Idle /\ state[Idle] = "RUNNING"
    BY <1>4 DEF TickSwitch, CanTick, IInv, ModeInv, TickInv, LiveInv
  <2>3. Dispatch(state, Ticked(left), Charged, "tick", cpu) /\ (cpu = "boot" => SlowBoot)
    BY <1>4 DEF TickSwitch
  <2>4. state \in [Slots -> States]
    BY <1>0 DEF TypeOK
  <2>5. QED
    BY <1>0, <2>1, <2>2, <2>3, <2>4, DispatchInv
<1>5. CASE ThreadYield
  <2>1. Quiet
    BY <1>5, QuietFact DEF ThreadYield, Masked
  <2>2. "thread" \in Suspendable(current) /\ current # Idle
    BY <1>5 DEF ThreadYield, IInv, ModeInv, Suspendable, Masked
  <2>3. Dispatch(state, left, slice, "yield", "thread")
    BY <1>5 DEF ThreadYield, Yield
  <2>4. state \in [Slots -> States] /\ state[current] # "DEAD"
    BY <1>0 DEF TypeOK, IInv, LiveInv
  <2>5. QED
    BY <1>0, <2>1, <2>2, <2>3, <2>4, DispatchInv
<1>6. ASSUME NEW d, NEW mode, Sleep(d, mode),
             mode \in {"thread", "sysret"}, current # Idle, Quiet
      PROVE  IInv'
  <2> DEFINE st == [state EXCEPT ![current] = "SLEEP"]
  <2>1. mode \in Suspendable(current)
    BY <1>6 DEF Suspendable
  <2>2. Dispatch(st, [left EXCEPT ![current] = d], slice, "yield", mode)
    BY <1>6 DEF Sleep, Yield
  <2>3. /\ st \in [Slots -> States]
        /\ \A s \in Slots \ {current} : st[s] = state[s]
        /\ st[current] # "DEAD"
    BY <1>0 DEF TypeOK, States
  <2> HIDE DEF st
  <2>4. QED
    BY <1>0, <1>6, <2>1, <2>2, <2>3, DispatchInv
<1>7. CASE ThreadSleep
  <2>1. current # Idle /\ Quiet
    BY <1>7, QuietFact DEF ThreadSleep, IInv, ModeInv, Masked, Suspendable
  <2>2. QED
    BY <1>6, <1>7, <2>1 DEF ThreadSleep
<1>8. CASE SyscallSleep
  <2>1. current # Idle /\ Quiet
    BY <1>8, QuietFact DEF SyscallSleep, IInv, ModeInv
  <2>2. QED
    BY <1>6, <1>8, <2>1 DEF SyscallSleep
<1>9. CASE ThreadExit \/ SyscallExit
  <2>1. current # Idle /\ Quiet /\ Exit
    BY <1>9, QuietFact
       DEF ThreadExit, SyscallExit, IInv, ModeInv, Masked, Suspendable
  <2>2. QED
    BY <1>0, <2>1, ExitInv
<1>10. CASE Syscall
  <2>1. ModeInv' /\ (InBoot' <=> InBoot) /\ Quiet
    BY <1>10, QuietFact
       DEF Syscall, procVars, IInv, ModeInv, Masked, Suspendable, InBoot
  <2>2. QED
    BY <1>0, <1>10, <2>1, ModeStepInv DEF Syscall, procVars, makeVars, Quiet
<1>11. CASE SyscallReturn
  <2>1. ModeInv' /\ (InBoot' <=> InBoot) /\ Quiet
    BY <1>11, QuietFact
       DEF SyscallReturn, procVars, IInv, ModeInv, Masked, Suspendable, InBoot
  <2>2. QED
    BY <1>0, <1>11, <2>1, ModeStepInv DEF SyscallReturn, procVars, makeVars, Quiet
<1>12. CASE SyscallExecve
  <2>1. cpu' = "syscall" /\ ModeInv' /\ (InBoot' <=> InBoot) /\ Quiet
    BY <1>12, QuietFact DEF SyscallExecve, cpuVars, IInv, ModeInv, Masked, InBoot
  <2>2. QED
    BY <1>0, <1>12, <2>1, ReserveInv DEF SyscallExecve, cpuVars, Kinds
<1>13. ASSUME NEW kind \in Kinds, ShellCreate(kind)
       PROVE  IInv'
  <2>1. cpu = "idle" /\ current = Idle /\ Quiet
    BY <1>13, QuietFact
       DEF ShellCreate, ShellReady, IInv, ModeInv, TickInv, Masked, Suspendable
  <2>2. ModeInv' /\ ~InBoot' /\ ~InBoot /\ Free
    BY <1>0, <1>13, <2>1
       DEF ShellCreate, ModeInv, InBoot, Quiet, Free, Masked, TypeOK
  <2>3. QED
    BY <1>0, <1>13, <2>1, <2>2, ReserveInv DEF ShellCreate
<1>14. CASE CreateEnd
  BY <1>0, <1>14, CreateEndInv
<1>15. CASE ShellKill \/ Block \/ Unblock
  <2>1. PICK s \in Slots \ {Idle}, st \in {"DEAD", "BLOCKED", "READY"} :
          state[s] # "DEAD" /\ Meddle(s, st) /\ (st = "DEAD" => s # current /\ ~InBoot)
    <3>1. CASE ShellKill
      <4>1. current = Idle /\ ~InBoot /\ pid[Idle] = 0
        BY <3>1 DEF ShellKill, ShellReady, IInv, TickInv, LiveInv, InBoot
      <4>2. QED
        BY <3>1, <4>1 DEF ShellKill
    <3>2. CASE Block \/ Unblock
      BY <3>2 DEF Block, Unblock, IInv, IdleSchedulable
    <3>3. QED
      BY <1>15, <3>1, <3>2
  <2>2. Quiet
    BY <1>15, QuietFact
       DEF ShellKill, ShellReady, Block, Unblock, IInv, ModeInv, Masked
  <2>3. QED
    BY <1>0, <2>1, <2>2, MeddleInv
<1>16. CASE UNCHANGED vars
  <2>1. /\ CurrentRuns' /\ IdleSchedulable' /\ ModeInv' /\ BuildInv' /\ CtxInv'
        /\ BootInv' /\ TickInv' /\ LiveInv'
    BY <1>16 DEF vars, procVars, cpuVars, makeVars, CurrentRuns, IdleSchedulable,
       ModeInv, BuildInv, BootInv, InBoot, CtxInv, TickInv, LiveInv, IInv
  <2>2. QED
    BY <1>0, <2>1 DEF IInv
<1>17. QED
  BY <1>1, <1>2, <1>3, <1>4, <1>5, <1>7, <1>8, <1>9, <1>10, <1>11, <1>12,
     <1>13, <1>14, <1>15, <1>16 DEF Next, Thread, User, Meddler

\* It holds after scheduler_init,
LEMMA InitInv ==
  ASSUME Init
  PROVE  IInv
<1> USE IdleIsSlot, InitType
<1>1. CurrentRuns /\ IdleSchedulable
  BY DEF Init, CurrentRuns, IdleSchedulable
<1>2. ModeInv /\ BuildInv /\ CtxInv
  BY DEF Init, ModeInv, Masked, Suspendable, BuildInv, CtxInv
<1>3. BootInv
  BY SlotFacts DEF Init, BootInv, NoContext
<1>4. TickInv /\ LiveInv
  BY DEF Init, TickInv, LiveInv, NoContext
<1>5. QED
  BY <1>1, <1>2, <1>3, <1>4 DEF IInv, Init

\* and hence always.
LEMMA Invariant == Spec => []IInv
  BY InitInv, IInvStep, PTL DEF Spec

-----------------------------------------------------------------------------
(* The theorems                                                             *)

\* Interrupts are never lost: while IRQ0 is in service exactly one process
\* owes the EOI that irq_handler sends after scheduler_tick, and it is READY.
THEOREM EoiOwnerCorrect == Spec => []EoiOwner
<1>1. IInv => EoiOwner
  <2>1. ASSUME IInv, NEW s \in EoiOwed
        PROVE  s = Idle /\ state[s] = "READY" /\ inService
    BY <2>1 DEF EoiOwed, IInv, TickInv, CurrentRuns, IdleSchedulable
  <2>2. IInv /\ inService => Idle \in EoiOwed
    BY IdleIsSlot DEF EoiOwed, IInv, TickInv, IdleSchedulable
  <2>3. QED
    BY <2>1, <2>2 DEF EoiOwner
<1>2. QED
  BY <1>1, Invariant, PTL

\* The timer preempts nothing but the hlt loop of kernel_main.
THEOREM PreemptsOnlyIdleCorrect == Spec => []PreemptsOnlyIdle
<1>1. IInv => PreemptsOnlyIdle
  BY DEF IInv, TickInv, PreemptsOnlyIdle, CanTick
<1>2. QED
  BY <1>1, Invariant, PTL

\* The kernel's own process can always be scheduled, whatever is killed.
THEOREM IdleSchedulableCorrect == Spec => []IdleSchedulable
<1>1. IInv => IdleSchedulable
  BY DEF IInv
<1>2. QED
  BY <1>1, Invariant, PTL

\* Only the process on the CPU is RUNNING, and it is unless someone meddled.
THEOREM CurrentRunsCorrect == Spec => []CurrentRuns
<1>1. IInv => CurrentRuns
  BY DEF IInv
<1>2. QED
  BY <1>1, Invariant, PTL

\* Only kernel_main, and only while it boots, can be caught with a process half
\* built.
THEOREM HalfBuiltCorrect == Spec => []HalfBuiltSafe
<1>1. IInv => HalfBuiltSafe
  <2>1. ASSUME IInv, NEW s \in Slots, build[s] = current
        PROVE  SlowBoot /\ ctx[s].mode = "boot"
    BY <2>1, SlotFacts DEF IInv, BuildInv, BootInv, InBoot, TypeOK
  <2>2. QED
    BY <2>1 DEF HalfBuiltSafe
<1>2. QED
  BY <1>1, Invariant, PTL

-----------------------------------------------------------------------------
(* Which slots can come alive, and which processes can be RUNNING           *)

OnlyCurrent == \A s \in Slots : state[s] = "RUNNING" => s = current

\* The slots whose process runs or may run.
Alive(s) == state[s] # "DEAD" \/ s = current

\* The steps that start the creation of a process.
Creates == BootCreate \/ SyscallExecve \/ \E kind \in Kinds : ShellCreate(kind)

\* No other step brings a slot to life, hands out a pid or moves a counter.
Tame ==
  /\ \A s \in Slots : Alive(s)' => Alive(s)
  /\ UNCHANGED <<pid, isUser, nextPid>>

\* find_next and do_switch bring no dead slot to life.
LEMMA SwitchTame ==
  ASSUME TypeOK, OnlyCurrent,
         NEW st \in [Slots -> States], NEW lf, NEW sl, NEW how, NEW mode,
         NEW n \in Slots, IsNext(Woken(st, lf), n),
         \/ n # current /\ SwitchTo(n, Woken(st, lf), sl, how, mode)
         \/ n = current /\ GoOn(Woken(st, lf), sl, mode),
         \A s \in Slots \ {current} : st[s] = state[s]
  PROVE  Tame /\ OnlyCurrent'
<1> DEFINE wk == Woken(st, lf)
<1>1. /\ wk \in [Slots -> States]
      /\ \A s \in Slots : wk[s] = st[s] \/ (st[s] = "SLEEP" /\ wk[s] = "READY")
  BY WokenFacts
<1>2. IsNext(wk, n) /\ (\/ n # current /\ SwitchTo(n, wk, sl, how, mode)
                        \/ n = current /\ GoOn(wk, sl, mode))
  OBVIOUS
<1> HIDE DEF wk
<1>3. wk[n] \in {"READY", "RUNNING"} \/ n = current
  BY <1>2 DEF IsNext
<1>4. CASE n # current
  <2>1. \A s \in Slots :
          state'[s] = IF s = n THEN "RUNNING"
                      ELSE IF s = current /\ wk[s] = "RUNNING" THEN "READY" ELSE wk[s]
    BY <1>1, <1>2, <1>4 DEF SwitchTo, TypeOK
  <2>2. current' = n /\ UNCHANGED <<pid, isUser, nextPid>>
    BY <1>2, <1>4 DEF SwitchTo, makeVars
  <2>3. QED
    BY <1>1, <1>3, <1>4, <2>1, <2>2 DEF Tame, Alive, OnlyCurrent
<1>5. CASE n = current
  BY <1>1, <1>2, <1>5 DEF GoOn, makeVars, Tame, Alive, OnlyCurrent
<1>6. QED
  BY <1>4, <1>5

\* Neither does any step that creates no process.
LEMMA StepIsTame ==
  ASSUME TypeOK, OnlyCurrent, [Next]_vars, ~Creates
  PROVE  Tame /\ OnlyCurrent'
<1>1. ASSUME NEW st \in [Slots -> States], NEW lf, NEW sl, NEW how, NEW mode,
             Dispatch(st, lf, sl, how, mode),
             \A s \in Slots \ {current} : st[s] = state[s]
      PROVE  Tame /\ OnlyCurrent'
  BY <1>1, SwitchTame DEF Dispatch
<1>2. CASE TickSwitch \/ ThreadYield
  BY <1>1, <1>2 DEF TickSwitch, ThreadYield, Yield, TypeOK
<1>3. CASE ThreadSleep \/ SyscallSleep
  <2>1. PICK d, mode : Sleep(d, mode)
    BY <1>3 DEF ThreadSleep, SyscallSleep
  <2> DEFINE st == [state EXCEPT ![current] = "SLEEP"]
  <2>2. /\ st \in [Slots -> States]
        /\ \A s \in Slots \ {current} : st[s] = state[s]
    BY DEF TypeOK, States
  <2>3. Dispatch(st, [left EXCEPT ![current] = d], slice, "yield", mode)
    BY <2>1 DEF Sleep, Yield
  <2> HIDE DEF st
  <2>4. QED
    BY <1>1, <2>2, <2>3
<1>4. CASE ThreadExit \/ SyscallExit
  <2> DEFINE st == [state EXCEPT ![current] = "DEAD"]
  <2>1. /\ st \in [Slots -> States]
        /\ \A s \in Slots \ {current} : st[s] = state[s]
    BY DEF TypeOK, States
  <2>2. PICK n \in Slots \ {current} :
          IsNext(Woken(st, left), n) /\ SwitchTo(n, Woken(st, left), slice, "yield", "lost")
    BY <1>4 DEF ThreadExit, SyscallExit, Exit
  <2> HIDE DEF st
  <2>3. QED
    BY <2>1, <2>2, SwitchTame
<1>5. CASE BootDone \/ TickOnly \/ Syscall \/ SyscallReturn
  BY <1>5 DEF BootDone, TickOnly, Syscall, SyscallReturn, procVars, cpuVars,
     makeVars, Tame, Alive, OnlyCurrent
<1>6. CASE CreateEnd
  <2>1. \A s \in Slots : state'[s] = state[s] \/ state'[s] = "DEAD"
    BY <1>6 DEF CreateEnd, TypeOK
  <2>2. UNCHANGED <<pid, isUser, nextPid, current>>
    BY <1>6 DEF CreateEnd
  <2>3. QED
    BY <2>1, <2>2 DEF Tame, Alive, OnlyCurrent
<1>7. CASE Meddler
  <2>1. PICK s \in Slots, st \in {"DEAD", "BLOCKED", "READY"} :
          state[s] # "DEAD" /\ Meddle(s, st)
    BY <1>7 DEF Meddler, ShellKill, Block, Unblock
  <2>2. QED
    BY <2>1 DEF Meddle, cpuVars, makeVars, Tame, Alive, OnlyCurrent, TypeOK
<1>8. CASE UNCHANGED vars
  BY <1>8 DEF vars, procVars, cpuVars, makeVars, Tame, Alive, OnlyCurrent
<1>10. QED
  BY <1>2, <1>3, <1>4, <1>5, <1>6, <1>7, <1>8 DEF Next, Thread, User, Creates

\* What a step that creates a process does to the table.
LEMMA CreatesFacts ==
  ASSUME TypeOK, Creates
  PROVE  /\ current' = current
         /\ \E kind \in Kinds, t \in Slots :
              /\ state[t] = "DEAD"
              /\ state' = [state EXCEPT ![t] = "READY"]
              /\ pid' = [pid EXCEPT ![t] = nextPid[kind]]
              /\ nextPid' = [nextPid EXCEPT ![kind] = @ + 1]
              /\ isUser' = [isUser EXCEPT ![t] = (kind = "user")]
<1>1. current' = current
  BY DEF Creates, BootCreate, SyscallExecve, ShellCreate, cpuVars
<1>2. PICK kind \in Kinds : Reserve(kind)
  BY DEF Creates, BootCreate, SyscallExecve, ShellCreate, Kinds
<1>3. QED
  BY <1>1, <1>2 DEF Reserve, PidTaken

\* At most the current process is RUNNING.
LEMMA OnlyCurrentAlways == Spec => []OnlyCurrent
<1>1. IInv => OnlyCurrent
  BY DEF IInv, CurrentRuns, OnlyCurrent
<1>2. QED
  BY <1>1, Invariant, PTL

-----------------------------------------------------------------------------
(* Pids                                                                     *)

KindOf(s) == IF isUser[s] THEN "user" ELSE "kernel"

\* Pids are handed out from 1 up and never twice; only the kernel's own process
\* and slots never used have pid 0.
PidInv ==
  /\ \A k \in Kinds : nextPid[k] > 0
  /\ \A s \in Slots : pid[s] < nextPid[KindOf(s)]
  /\ \A s \in Slots \ {Idle} : Alive(s) => pid[s] # 0
  /\ \A s, t \in Slots :
       s # t /\ pid[s] # 0 /\ isUser[s] = isUser[t] => pid[s] # pid[t]

\* Every step keeps the pids apart.
LEMMA PidStep ==
  ASSUME TypeOK, OnlyCurrent, PidInv, [Next]_vars
  PROVE  PidInv'
<1>1. CASE Creates
  <2>1. PICK kind \in Kinds, t \in Slots :
          /\ state[t] = "DEAD"
          /\ state' = [state EXCEPT ![t] = "READY"]
          /\ pid' = [pid EXCEPT ![t] = nextPid[kind]]
          /\ nextPid' = [nextPid EXCEPT ![kind] = @ + 1]
          /\ isUser' = [isUser EXCEPT ![t] = (kind = "user")]
    BY <1>1, CreatesFacts
  <2>2. current' = current
    BY <1>1, CreatesFacts
  <2>3. /\ KindOf(t)' = kind /\ pid'[t] = nextPid[kind] /\ isUser'[t] = (kind = "user")
        /\ nextPid'[kind] = nextPid[kind] + 1
    BY <2>1 DEF KindOf, TypeOK, Kinds
  <2>4. \A s \in Slots \ {t} :
          /\ KindOf(s)' = KindOf(s) /\ pid'[s] = pid[s] /\ state'[s] = state[s]
          /\ isUser'[s] = isUser[s]
    BY <2>1 DEF KindOf, TypeOK
  <2>5. \A k \in Kinds : /\ nextPid[k] \in Nat /\ nextPid'[k] \in Nat
                         /\ nextPid[k] <= nextPid'[k]
    BY <2>1 DEF TypeOK
  <2>6. \A s \in Slots : KindOf(s) \in Kinds /\ pid[s] \in Nat
    BY DEF KindOf, Kinds, TypeOK
  <2>7. \A k \in Kinds : nextPid'[k] > 0
    BY <2>5 DEF PidInv
  <2>8. ASSUME NEW s \in Slots
        PROVE  pid'[s] < nextPid'[KindOf(s)']
    <3>1. CASE s = t
      BY <2>3, <2>5, <3>1
    <3>2. CASE s # t
      <4>1. pid[s] < nextPid[KindOf(s)]
        BY DEF PidInv
      <4>2. nextPid[KindOf(s)] <= nextPid'[KindOf(s)]
        BY <2>5, <2>6
      <4>3. pid[s] < nextPid'[KindOf(s)]
        BY <2>5, <2>6, <4>1, <4>2
      <4>4. QED
        BY <2>4, <3>2, <4>3
    <3>3. QED
      BY <3>1, <3>2
  <2>9. ASSUME NEW s \in Slots \ {Idle}, Alive(s)'
        PROVE  pid'[s] # 0
    <3>1. CASE s = t
      BY <2>3, <2>5, <3>1 DEF PidInv
    <3>2. CASE s # t
      BY <2>2, <2>4, <2>9, <3>2 DEF PidInv, Alive
    <3>3. QED
      BY <3>1, <3>2
  <2>10. \A s \in Slots \ {t} : isUser[s] = (kind = "user") => pid[s] < nextPid[kind]
    BY DEF PidInv, KindOf, TypeOK, Kinds
  <2>11. ASSUME NEW s \in Slots, NEW u \in Slots,
                s # u, pid'[s] # 0, isUser'[s] = isUser'[u]
         PROVE  pid'[s] # pid'[u]
    <3>1. CASE s = t
      BY <2>3, <2>4, <2>5, <2>6, <2>10, <2>11, <3>1
    <3>2. CASE u = t
      BY <2>3, <2>4, <2>5, <2>6, <2>10, <2>11, <3>2
    <3>3. CASE s # t /\ u # t
      BY <2>4, <2>11, <3>3 DEF PidInv
    <3>4. QED
      BY <3>1, <3>2, <3>3
  <2>12. QED
    BY <2>7, <2>8, <2>9, <2>11 DEF PidInv
<1>2. CASE ~Creates
  <2>1. Tame
    BY <1>2, StepIsTame
  <2>2. QED
    BY <2>1 DEF Tame, PidInv, KindOf
<1>3. QED
  BY <1>1, <1>2

\* Live kernel threads have distinct pids, and so have live user processes,
\* however often slots are reused and whoever is killed.
THEOREM PidsDistinctCorrect == Spec => []PidsDistinct
<1>1. Init => PidInv
  BY DEF Init, PidInv, KindOf, Kinds, Alive
<1>2. TypeOK /\ OnlyCurrent /\ PidInv /\ [Next]_vars => PidInv'
  BY PidStep
<1>3. PidInv => PidsDistinct
  BY DEF PidInv, PidsDistinct, Alive
<1>4. QED
  BY <1>1, <1>2, <1>3, TypeCorrect, OnlyCurrentAlways, PTL DEF Spec

-----------------------------------------------------------------------------
(* Sleepers                                                                 *)

InTime ==
  \A s \in Slots :
    state'[s] \in Awake /\ left'[s] > 0
      => left[s] > 0 /\ (state[s] \in Awake \/ Unblock)

\* find_next wakes a sleeper only when its time has come.
LEMMA SwitchInTime ==
  ASSUME IInv, NEW st \in [Slots -> States], NEW lf, NEW sl, NEW how, NEW mode,
         NEW n \in Slots, IsNext(Woken(st, lf), n),
         \/ n # current /\ SwitchTo(n, Woken(st, lf), sl, how, mode)
         \/ n = current /\ GoOn(Woken(st, lf), sl, mode),
         \A s \in Slots : /\ lf[s] = left'[s]
                          /\ st[s] \in Awake /\ lf[s] > 0 => state[s] \in Awake /\ left[s] > 0
  PROVE  InTime
<1> DEFINE wk == Woken(st, lf)
<1>1. /\ wk \in [Slots -> States]
      /\ \A s \in Slots : \/ wk[s] = st[s]
                          \/ st[s] = "SLEEP" /\ lf[s] = 0 /\ wk[s] = "READY"
  BY DEF Woken, States
<1>2. IsNext(wk, n) /\ (\/ n # current /\ SwitchTo(n, wk, sl, how, mode)
                        \/ n = current /\ GoOn(wk, sl, mode))
  OBVIOUS
<1> HIDE DEF wk
<1>3. current \in Slots
  BY DEF IInv, TypeOK
<1>4. n # current => wk[n] \in Awake
  BY <1>2 DEF IsNext, Awake
<1>5. \A s \in Slots : state'[s] \in Awake => wk[s] \in Awake
  BY <1>1, <1>2, <1>3, <1>4 DEF SwitchTo, GoOn, Awake
<1>6. \A s \in Slots : wk[s] \in Awake /\ lf[s] > 0 => st[s] \in Awake
  BY <1>1
<1>7. QED
  BY <1>5, <1>6 DEF InTime

\* No other step wakes one.
LEMMA StepInTime ==
  ASSUME IInv, [Next]_vars
  PROVE  InTime
<1>0. TypeOK
  BY DEF IInv
<1>1. ASSUME NEW st \in [Slots -> States], NEW lf, NEW sl, NEW how, NEW mode,
             Dispatch(st, lf, sl, how, mode),
             \A s \in Slots : /\ lf[s] = left'[s]
                              /\ st[s] \in Awake /\ lf[s] > 0 => state[s] \in Awake /\ left[s] > 0
      PROVE  InTime
  BY <1>1, SwitchInTime DEF Dispatch
<1>2. CASE TickSwitch
  <2>1. \A s \in Slots : Ticked(left)[s] > 0 => left[s] > 0
    BY <1>0 DEF Ticked, TypeOK
  <2>2. QED
    BY <1>0, <1>1, <1>2, <2>1 DEF TickSwitch, TypeOK
<1>3. CASE ThreadYield
  BY <1>0, <1>1, <1>3 DEF ThreadYield, Yield, TypeOK
<1>4. CASE ThreadSleep \/ SyscallSleep
  <2>1. PICK d, mode : Sleep(d, mode)
    BY <1>4 DEF ThreadSleep, SyscallSleep
  <2> DEFINE st == [state EXCEPT ![current] = "SLEEP"]
             lf == [left EXCEPT ![current] = d]
  <2>2. /\ st \in [Slots -> States]
        /\ \A s \in Slots : st[s] \in Awake => state[s] \in Awake /\ lf[s] = left[s]
    BY <1>0 DEF TypeOK, States, Awake
  <2>3. Dispatch(st, lf, slice, "yield", mode) /\ left' = lf
    BY <2>1 DEF Sleep, Yield
  <2> HIDE DEF st, lf
  <2>4. QED
    BY <1>1, <2>2, <2>3
<1>5. CASE ThreadExit \/ SyscallExit
  <2> DEFINE st == [state EXCEPT ![current] = "DEAD"]
  <2>1. /\ st \in [Slots -> States]
        /\ \A s \in Slots : st[s] \in Awake => state[s] \in Awake
    BY <1>0 DEF TypeOK, States, Awake
  <2>2. PICK n \in Slots \ {current} :
          IsNext(Woken(st, left), n) /\ SwitchTo(n, Woken(st, left), slice, "yield", "lost")
    BY <1>5 DEF ThreadExit, SyscallExit, Exit
  <2>3. left' = left
    BY <1>5 DEF ThreadExit, SyscallExit, Exit
  <2> HIDE DEF st
  <2>4. QED
    BY <2>1, <2>2, <2>3, SwitchInTime
<1>6. CASE BootDone \/ TickOnly \/ Syscall \/ SyscallReturn
  <2>1. state' = state /\ \A s \in Slots : left'[s] > 0 => left[s] > 0
    BY <1>0, <1>6 DEF BootDone, TickOnly, Syscall, SyscallReturn, procVars, Ticked, TypeOK
  <2>2. QED
    BY <2>1 DEF InTime
<1>7. CASE CreateEnd
  <2>1. left' = left /\ \A s \in Slots : state'[s] = state[s] \/ state'[s] = "DEAD"
    BY <1>0, <1>7 DEF CreateEnd, TypeOK
  <2>2. QED
    BY <2>1 DEF InTime, Awake
<1>8. CASE Creates
  <2>1. PICK kind : Reserve(kind)
    BY <1>8 DEF Creates, BootCreate, SyscallExecve, ShellCreate
  <2>2. PICK t \in Slots : state' = [state EXCEPT ![t] = "READY"] /\ left' = [left EXCEPT ![t] = 0]
    BY <2>1 DEF Reserve
  <2>3. QED
    BY <1>0, <2>2 DEF InTime, TypeOK
<1>9. CASE Meddler
  <2>1. left' = left
    BY <1>9 DEF Meddler, ShellKill, Block, Unblock, Meddle
  <2>2. CASE Unblock
    <3>1. PICK t \in Slots : state[t] = "BLOCKED" /\ state' = [state EXCEPT ![t] = "READY"]
      BY <2>2 DEF Unblock, Meddle
    <3>2. \A s \in Slots : s # t => state'[s] = state[s]
      BY <1>0, <3>1 DEF TypeOK
    <3>3. QED
      BY <2>1, <2>2, <3>2 DEF InTime
  <2>3. CASE ShellKill \/ Block
    <3>1. \A s \in Slots : state'[s] = state[s] \/ state'[s] \in {"DEAD", "BLOCKED"}
      BY <1>0, <2>3 DEF ShellKill, Block, Meddle, TypeOK
    <3>2. QED
      BY <2>1, <3>1 DEF InTime, Awake
  <2>4. QED
    BY <1>9, <2>2, <2>3 DEF Meddler
<1>10. CASE UNCHANGED vars
  BY <1>10 DEF vars, procVars, InTime
<1>11. QED
  BY <1>2, <1>3, <1>4, <1>5, <1>6, <1>7, <1>8, <1>9, <1>10
     DEF Next, Thread, User, Creates

\* process_sleep returns early only for who is blocked and unblocked while asleep (code:
\* find_next and process_create of scheduler.cpp).
THEOREM SleepNotEarlyCorrect == Spec => SleepNotEarly
<1>1. IInv /\ [Next]_vars
      => [\A s \in Slots : state'[s] \in Awake /\ left'[s] > 0
                           => left[s] > 0 /\ (state[s] \in Awake \/ Unblock)]_vars
  BY StepInTime DEF InTime
<1>2. QED
  BY <1>1, Invariant, PTL DEF Spec, SleepNotEarly
===============================================================================
