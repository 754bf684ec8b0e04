--------------------------------- MODULE Mutex ---------------------------------
(***************************************************************************)
(* The spinning mutex of kernel/mutex.cpp, used the way the two threads of *)
(* kernel.cpp use it: lock, shared_counter++, unlock, sleep, again.        *)
(*                                                                         *)
(* A step is one access to shared memory (the xchg is one), and any thread *)
(* may take the next: the mutex is built for that, although the timer of   *)
(* this kernel preempts no thread (PreemptsOnlyIdle of module Scheduler).  *)
(* A thread is named by its pid, which no other live kernel thread has     *)
(* (PidsDistinct).  A thread may also lock a mutex it holds, which the     *)
(* owner field is there for; one unlock then releases it.                  *)
(***************************************************************************)
EXTENDS Naturals, FiniteSets

CONSTANTS
  Threads,   \* the threads that share the mutex, by pid
  NoOwner,   \* (uint32_t)-1
  Rounds     \* how often each thread locks it, 5 in kernel.cpp

ASSUME MutexAssumption == NoOwner \notin Threads /\ Rounds \in Nat \ {0}

VARIABLES
  locked,    \* m->locked
  owner,     \* m->owner
  counter,   \* shared_counter
  pc,        \* pc[p]: the access p makes next
  nested,    \* the threads inside a mutex_lock of a mutex they hold
  loaded,    \* loaded[p]: the value of shared_counter p is incrementing
  todo       \* todo[p]: the rounds p still has to finish

mutexVars == <<locked, owner, counter, pc, nested, loaded, todo>>

\* The program counter of p moves on to l.
Goto(p, l) == pc' = [pc EXCEPT ![p] = l]

-----------------------------------------------------------------------------
(* mutex_lock                                                               *)

\* mutex_lock reads m->locked; p may hold the mutex already.
ReadLocked(p) ==
  /\ pc[p] \in {"out", "in"}
  /\ Goto(p, IF locked THEN "whose" ELSE "try")
  /\ nested' = IF pc[p] = "in" THEN nested \cup {p} ELSE nested
  /\ UNCHANGED <<locked, owner, counter, loaded, todo>>

\* It reads m->owner, and returns if that is the caller.
ReadOwner(p) ==
  /\ pc[p] = "whose"
  /\ \/ owner = p /\ Goto(p, "in") /\ nested' = nested \ {p}
     \/ owner # p /\ Goto(p, "try") /\ UNCHANGED nested
  /\ UNCHANGED <<locked, owner, counter, loaded, todo>>

TestThenSet(p) ==
  \/ /\ pc[p] = "try" /\ ~locked
     /\ Goto(p, "set")
     /\ UNCHANGED <<locked, owner, counter, nested, loaded, todo>>
  \/ /\ pc[p] = "set"
     /\ locked' = TRUE
     /\ Goto(p, "own")
     /\ UNCHANGED <<owner, counter, nested, loaded, todo>>

\* mutex_trylock: the xchg.  When it finds the mutex locked, it changes nothing
\* and the caller yields and tries again.
TryLock(p) ==
  /\ pc[p] = "try"
  /\ ~locked
  /\ locked' = TRUE
  /\ Goto(p, "own")
  /\ UNCHANGED <<owner, counter, nested, loaded, todo>>

NotOwned(p) ==
  /\ pc[p] = "own"
  /\ Goto(p, "in")
  /\ UNCHANGED <<locked, owner, counter, nested, loaded, todo>>

\* mutex_trylock, having got it, writes m->owner.
SetOwner(p) ==
  /\ pc[p] = "own"
  /\ owner' = p
  /\ Goto(p, "in")
  /\ UNCHANGED <<locked, counter, nested, loaded, todo>>

-----------------------------------------------------------------------------
(* The critical section, and mutex_unlock                                   *)

LoadCounter(p) ==
  /\ pc[p] = "in"
  /\ loaded' = [loaded EXCEPT ![p] = counter]
  /\ Goto(p, "store")
  /\ UNCHANGED <<locked, owner, counter, nested, todo>>

StoreCounter(p) ==
  /\ pc[p] = "store"
  /\ counter' = loaded[p] + 1
  /\ Goto(p, "leave")
  /\ UNCHANGED <<locked, owner, nested, loaded, todo>>

OwnerKept(p) ==
  /\ pc[p] = "leave"
  /\ Goto(p, "unlock")
  /\ UNCHANGED <<locked, owner, counter, nested, loaded, todo>>

\* mutex_unlock clears m->owner first,
ClearOwner(p) ==
  /\ pc[p] = "leave"
  /\ owner' = NoOwner
  /\ Goto(p, "unlock")
  /\ UNCHANGED <<locked, counter, nested, loaded, todo>>

NeverUnlocked(p) ==
  /\ pc[p] = "unlock"
  /\ todo' = [todo EXCEPT ![p] = @ - 1]
  /\ Goto(p, IF todo[p] = 1 THEN "done" ELSE "out")
  /\ UNCHANGED <<locked, owner, counter, nested, loaded>>

RoundsForgotten(p) ==
  /\ pc[p] = "unlock"
  /\ locked' = FALSE
  /\ todo' = [todo EXCEPT ![p] = @ - 1]
  /\ Goto(p, "out")
  /\ UNCHANGED <<owner, counter, nested, loaded>>

\* then m->locked.  The thread sleeps before its next round, or exits.
Unlock(p) ==
  /\ pc[p] = "unlock"
  /\ locked' = FALSE
  /\ todo' = [todo EXCEPT ![p] = @ - 1]
  /\ Goto(p, IF todo[p] = 1 THEN "done" ELSE "out")
  /\ UNCHANGED <<owner, counter, nested, loaded>>

-----------------------------------------------------------------------------
MutexInit ==
  /\ locked = FALSE
  /\ owner = NoOwner
  /\ counter = 0
  /\ pc = [p \in Threads |-> "out"]
  /\ nested = {}
  /\ loaded = [p \in Threads |-> 0]
  /\ todo = [p \in Threads |-> Rounds]

Step(p) ==
  \/ ReadLocked(p) \/ ReadOwner(p) \/ TryLock(p) \/ SetOwner(p)
  \/ LoadCounter(p) \/ StoreCounter(p)
  \/ ClearOwner(p) \/ Unlock(p)

\* Every thread has exited.
Finished == (\A p \in Threads : pc[p] = "done") /\ UNCHANGED mutexVars

MutexNext == (\E p \in Threads : Step(p)) \/ Finished

MutexSpec == MutexInit /\ [][MutexNext]_mutexVars

(***************************************************************************)
(* Fairness.  A thread that can go on gets the CPU again (ReadyRuns of     *)
(* module Scheduler), and does not lock the mutex it holds for ever.       *)
(***************************************************************************)
FairMutexSpec ==
  MutexSpec /\ \A p \in Threads : WF_mutexVars(Step(p)) /\ SF_mutexVars(LoadCounter(p))

-----------------------------------------------------------------------------
(* Properties                                                               *)

Labels == {"out", "whose", "try", "own", "in", "store", "leave", "unlock", "done"}

\* Every variable has its type.
MutexTypeOK ==
  /\ locked \in BOOLEAN
  /\ owner \in Threads \cup {NoOwner}
  /\ counter \in Nat
  /\ pc \in [Threads -> Labels]
  /\ nested \subseteq Threads
  /\ loaded \in [Threads -> Nat]
  /\ todo \in [Threads -> 0 .. Rounds]

\* The threads that are past their mutex_lock and have not called mutex_unlock.
Critical(p) == pc[p] \in {"in", "store", "leave"} \/ p \in nested

\* Two threads are never both between mutex_lock and mutex_unlock, whatever the
\* owner field says while the mutex changes hands: the early return of
\* mutex_lock lets nobody in who does not hold it.
MutualExclusion ==
  \A p, q \in Threads : Critical(p) /\ Critical(q) => p = q

\* A thread that locks a mutex it holds never waits for itself.
HolderNeverWaits == \A p \in nested : pc[p] # "try"

\* shared_counter++ loses no update: what a thread is about to increment is
\* still the counter's value.
NoLostUpdate == \A p \in Threads : pc[p] = "store" => loaded[p] = counter

\* Every thread gets through all of its rounds, and then shared_counter has
\* counted them all.
AllRoundsCount ==
  <>[](/\ \A p \in Threads : pc[p] = "done"
       /\ counter = Rounds * Cardinality(Threads)
       /\ ~locked /\ owner = NoOwner)
===============================================================================
